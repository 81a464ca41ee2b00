------------------------- MODULE CodeGeneratorProofs -------------------------
(***************************************************************************)
(* Proofs about CodeGenerator, for lists and classes of any length.        *)
(***************************************************************************)
EXTENDS CodeReaderProofs

-----------------------------------------------------------------------------
(* Sequences of tokens.                                                    *)

\* Concatenation keeps the type.
LEMMA ConcatType ==
  ASSUME NEW S, NEW s \in Seq(S), NEW t \in Seq(S)
  PROVE  s \o t \in Seq(S)
OBVIOUS

\* So does a wider type.
LEMMA SubsetType ==
  ASSUME NEW S, NEW T, S \subseteq T, NEW s \in Seq(S)
  PROVE  s \in Seq(T)
OBVIOUS

\* Tuples are sequences (stated for any elements: the texts of the tokens are
\* kept away from the arithmetic prover).
LEMMA Tuple1 ==
  ASSUME NEW S, NEW a \in S
  PROVE  <<a>> \in Seq(S) /\ Len(<<a>>) = 1 /\ <<a>>[1] = a
OBVIOUS

\* The empty text.
LEMMA EmptyType ==
  ASSUME NEW S
  PROVE  <<>> \in Seq(S) /\ Len(<<>>) = 0
OBVIOUS

\* What one iteration of the inner loop does to its result.
LEMMA OneMore ==
  ASSUME NEW S, NEW s \in Seq(S), NEW x \in S, NEW t \in Seq(S), Len(t) <= 1
  PROVE  LET r == s \o <<x>> \o t
         IN /\ r \in Seq(S)
            /\ Len(r) = Len(s) + 1 + Len(t)
            /\ \A j \in 1 .. Len(s) : r[j] = s[j]
            /\ r[Len(s) + 1] = x
            /\ Len(t) = 1 => r[Len(s) + 2] = t[1]
<1> DEFINE h == s \o <<x>>
<1>1. /\ h \in Seq(S) /\ Len(h) = Len(s) + 1
      /\ \A j \in 1 .. Len(s) : h[j] = s[j]
      /\ h[Len(s) + 1] = x
  OBVIOUS
<1> HIDE DEF h
<1>2. /\ h \o t \in Seq(S)
      /\ Len(h \o t) = Len(h) + Len(t)
      /\ \A j \in 1 .. Len(h) : (h \o t)[j] = h[j]
      /\ Len(t) = 1 => (h \o t)[Len(h) + 1] = t[1]
  BY <1>1
<1>3. /\ Len(s) \in Nat
      /\ \A j \in 1 .. Len(s) : j \in 1 .. Len(h)
      /\ Len(s) + 1 \in 1 .. Len(h)
  BY <1>1
<1> QED
  BY <1>1, <1>2, <1>3 DEF h

-----------------------------------------------------------------------------
(* Types of the parts.                                                     *)

AtWork == call \in Calls /\ current \in 1 .. Len(methods)

\* The annotations are numbered.
LEMMA CallFacts ==
  Calls = 1 .. Len(Injections) /\ Len(Injections) \in Nat /\ Calls \subseteq Nat
BY GeneratorAssumption DEF Calls

\* The method at work and its lists.
LEMMA MethodType ==
  ASSUME TypeOK, AtWork
  PROVE  /\ method \in Method
         /\ \A place \in {"template", "params"} :
              ItemsOf(method, place) \in Seq(Items)
<1>1. methods \in Seq(Method)
  BY GeneratorAssumption DEF TypeOK
<1>2. method \in Method
  BY <1>1 DEF AtWork, method
<1> QED
  BY <1>2 DEF Method, ItemsOf

\* What the printers emit are tokens.
LEMMA Tokens ==
  /\ Items \subseteq Token /\ MethodNames \subseteq Token
  /\ Qualifiers \subseteq Token /\ Interface \in Token
  /\ "template<" \in Token /\ ">" \in Token /\ "::" \in Token
  /\ "(" \in Token /\ Comma \in Token /\ ")" \in Token
  /\ "{" \in Token /\ "return impl_->" \in Token /\ ";" \in Token
  /\ "}" \in Token
BY DEF Token, Words, Punctuation, Comma

\* A separator is one comma or nothing.
LEMMA SeparatorType ==
  ASSUME NEW printed, NEW size
  PROVE  /\ Separator(printed, size) \in Seq(Token)
         /\ Len(Separator(printed, size)) = IF printed # size THEN 1 ELSE 0
         /\ printed # size => Separator(printed, size)[1] = Comma
<1>1. CASE printed = size
  BY <1>1, EmptyType DEF Separator
<1>2. CASE printed # size
  <2>1. Separator(printed, size) = <<Comma>>
    BY <1>2 DEF Separator
  <2>2. /\ <<Comma>> \in Seq(Token) /\ Len(<<Comma>>) = 1
        /\ <<Comma>>[1] = Comma
    BY Tuple1, Tokens
  <2> QED
    BY <1>2, <2>1, <2>2
<1> QED
  BY <1>1, <1>2

\* Whatever is printed, the texts stay sequences of tokens.
LEMMA PrintType ==
  ASSUME TypeOK, call \in Calls, NEW text \in Seq(Token), Emit(text)
  PROVE  replacer' \in [Calls -> Seq(Token)]
<1>1. replacer[call] \o text \in Seq(Token)
  BY ConcatType DEF TypeOK
<1> QED
  BY <1>1 DEF Emit, TypeOK

-----------------------------------------------------------------------------
(* The inductive invariant.                                                *)

\* The counter that decides the separators counts the items.
CounterInStep == Printing => paramIter = item

LoopInv == TypeOK /\ ListsAlternate /\ CounterInStep

\* An iteration of an inner loop keeps counter, result and separator in step.
LEMMA Iteration ==
  ASSUME NEW items \in Seq(Items), NEW k \in Nat, k < Len(items),
         NEW o \in Seq(Token), Alternates(items, k, o)
  PROVE  LET r == o \o <<items[k + 1]>> \o Separator(k + 1, Len(items))
         IN r \in Seq(Token) /\ Alternates(items, k + 1, r)
<1>1. PICK comma \in Seq(Token) :
        /\ comma = Separator(k + 1, Len(items))
        /\ Len(comma) = IF k + 1 # Len(items) THEN 1 ELSE 0
        /\ k + 1 # Len(items) => comma[1] = Comma
  BY SeparatorType, Zenon
<1>2. Comma \in Token
  BY Tokens
<1>3. items[k + 1] \in Token /\ Len(items) \in Nat
  <2>1. items[k + 1] \in Items /\ Len(items) \in Nat
    OBVIOUS
  <2> QED
    BY <2>1, Tokens, Zenon
<1>4. /\ Len(o) = 2 * k
      /\ \A j \in 1 .. k : o[2 * j - 1] = items[j] /\ o[2 * j] = Comma
  BY <1>3 DEF Alternates
<1>5. PICK r : r = o \o <<items[k + 1]>> \o comma
  OBVIOUS
<1>6. /\ r \in Seq(Token)
      /\ Len(r) = Len(o) + 1 + Len(comma)
      /\ \A j \in 1 .. Len(o) : r[j] = o[j]
      /\ r[Len(o) + 1] = items[k + 1]
      /\ Len(comma) = 1 => r[Len(o) + 2] = comma[1]
  BY <1>1, <1>3, <1>5, OneMore
<1>7. Alternates(items, k + 1, r)
  <2>1. Len(r) = IF k + 1 = Len(items) THEN 2 * (k + 1) - 1 ELSE 2 * (k + 1)
    BY <1>1, <1>3, <1>4, <1>6
  <2>2. ASSUME NEW j \in 1 .. k + 1
        PROVE  /\ r[2 * j - 1] = items[j]
               /\ 2 * j <= Len(r) => r[2 * j] = Comma
    <3>1. CASE j \in 1 .. k
      BY <1>3, <1>4, <1>6, <3>1
    <3>2. CASE j = k + 1
      <4>1. 2 * j - 1 = Len(o) + 1 /\ 2 * j = Len(o) + 2
        BY <1>4, <3>2
      <4>2. ASSUME 2 * j <= Len(r) PROVE k + 1 # Len(items)
        <5>1. Len(r) = Len(o) + 1 + Len(comma) /\ Len(o) \in Nat
          BY <1>4, <1>6
        <5>2. k + 1 = Len(items) => Len(comma) = 0
          BY <1>1
        <5> QED
          BY <4>1, <4>2, <5>1, <5>2
      <4> QED
        BY <1>1, <1>3, <1>6, <3>2, <4>1, <4>2
    <3> QED
      BY <3>1, <3>2
  <2> QED
    BY <1>3, <2>1, <2>2 DEF Alternates
<1> QED
  BY <1>1, <1>5, <1>6, <1>7

\* An iteration of an inner loop keeps types and separators.
LEMMA ItemStep ==
  ASSUME LoopInv, PrintItem
  PROVE  LoopInv'
<1>1. AtWork /\ pc \in {"template", "params"} /\ TypeOK
  BY DEF PrintItem, Printing, AtWork, LoopInv, TypeOK
<1>2. PICK items \in Seq(Items) : items = ItemsOf(method, pc)
  BY <1>1, MethodType
<1>3. /\ item \in Nat /\ item < Len(items) /\ item' = item + 1
      /\ paramIter \in Nat /\ paramIter = item /\ paramIter' = item'
      /\ out \in Seq(Token) /\ Alternates(items, item, out)
      /\ out' = out \o <<items[item + 1]>> \o Separator(item + 1, Len(items))
  BY <1>1, <1>2
  DEF PrintItem, TypeOK, LoopInv, ListsAlternate, CounterInStep
<1>4. out' \in Seq(Token) /\ Alternates(items, item', out')
  BY <1>3, Iteration
<1>5. TypeOK'
  BY <1>1, <1>3, <1>4 DEF TypeOK, PrintItem, AtWork
<1>6. ItemsOf(method, pc)' = items
  BY <1>2 DEF PrintItem, method, ItemsOf
<1> QED
  BY <1>3, <1>4, <1>5, <1>6 DEF LoopInv, ListsAlternate, CounterInStep

\* A loop that is entered has printed nothing.
LEMMA EnterStep ==
  ASSUME TypeOK', NEW place \in {"template", "params"}, EnterLoop(place)
  PROVE  ListsAlternate' /\ CounterInStep'
<1>1. pc' = place /\ item' = 0 /\ paramIter' = 0 /\ out' = <<>>
  BY DEF EnterLoop
<1>2. call' \in Calls /\ current' \in 1 .. Len(methods')
  BY <1>1 DEF TypeOK
<1>3. methods' \in Seq(Method)
  BY GeneratorAssumption DEF TypeOK
<1>4. methods'[current'] \in Method
  BY <1>2, <1>3
<1>5. ItemsOf(method, pc)' \in Seq(Items)
  BY <1>4 DEF Method, ItemsOf, method
<1>6. Len(ItemsOf(method, pc)') \in Nat
  BY <1>5
<1> QED
  BY <1>1, <1>6 DEF ListsAlternate, Alternates, CounterInStep

\* Outside the inner loops the claim about them is void.
LEMMA Outside ==
  ASSUME pc' \notin {"template", "params"}
  PROVE  ListsAlternate' /\ CounterInStep'
BY DEF ListsAlternate, CounterInStep, Printing

-----------------------------------------------------------------------------
(* The other steps.                                                        *)

\* The loop over the methods keeps the types.
LEMMA SkipStep ==
  ASSUME LoopInv, SkipMethod
  PROVE  LoopInv'
<1>1. methods \in Seq(Method)
  BY GeneratorAssumption DEF LoopInv, TypeOK
<1>2. TypeOK'
  BY <1>1 DEF SkipMethod, LoopInv, TypeOK
<1> QED
  BY <1>2, Outside DEF SkipMethod, LoopInv

\* A method begins with an inner loop or with its declarator.
LEMMA BeginStep ==
  ASSUME LoopInv, BeginMethod
  PROVE  LoopInv'
<1>1. methods \in Seq(Method) /\ TypeOK /\ call \in Calls
  BY GeneratorAssumption DEF LoopInv, TypeOK, BeginMethod
<1>2. CASE method.isTemplate
  <2>1. replacer' \in [Calls -> Seq(Token)]
    <3>1. <<"template<">> \in Seq(Token)
      BY Tuple1, Tokens, Zenon
    <3>2. Emit(<<"template<">>)
      BY <1>2 DEF BeginMethod
    <3> QED
      BY <1>1, <3>1, <3>2, PrintType, Zenon
  <2>2. TypeOK' /\ EnterLoop("template")
    BY <1>1, <1>2, <2>1 DEF BeginMethod, EnterLoop, TypeOK
  <2> QED
    BY <2>2, EnterStep DEF LoopInv
<1>3. CASE ~method.isTemplate
  <2>1. TypeOK'
    BY <1>1, <1>3 DEF BeginMethod, TypeOK
  <2> QED
    BY <1>3, <2>1, Outside DEF BeginMethod, LoopInv
<1> QED
  BY <1>2, <1>3

\* What is printed between the inner loops are texts.
LEMMA EndTemplateStep ==
  ASSUME LoopInv, EndTemplate
  PROVE  LoopInv'
<1>1. TypeOK /\ call \in Calls /\ out \in Seq(Token)
  BY DEF LoopInv, TypeOK, EndTemplate
<1>2. replacer' \in [Calls -> Seq(Token)]
  <2>1. <<">">> \in Seq(Token)
    BY Tuple1, Tokens, Zenon
  <2>2. out \o <<">">> \in Seq(Token)
    BY <1>1, <2>1, ConcatType, Zenon
  <2>3. Emit(out \o <<">">>)
    BY DEF EndTemplate
  <2> QED
    BY <1>1, <2>2, <2>3, PrintType, Zenon
<1>3. TypeOK'
  BY <1>1, <1>2 DEF EndTemplate, TypeOK
<1> QED
  BY <1>3, Outside DEF EndTemplate, LoopInv

\* So is the declarator,
LEMMA SignatureStep ==
  ASSUME LoopInv, PrintSignature
  PROVE  LoopInv'
<1>1. TypeOK /\ AtWork
  BY DEF LoopInv, TypeOK, PrintSignature, AtWork
<1>2. SignatureText(method, kind) \in Seq(Token)
  BY <1>1, MethodType, PieceTypes
<1>3. Emit(SignatureText(method, kind))
  BY DEF PrintSignature, SignatureText
<1>4. replacer' \in [Calls -> Seq(Token)]
  BY <1>1, <1>2, <1>3, PrintType DEF AtWork
<1>5. TypeOK' /\ EnterLoop("params")
  BY <1>1, <1>4 DEF PrintSignature, EnterLoop, TypeOK, AtWork
<1> QED
  BY <1>5, EnterStep DEF LoopInv

\* and what ends a method.
LEMMA EndMethodStep ==
  ASSUME LoopInv, EndMethod
  PROVE  LoopInv'
<1>1. TypeOK /\ AtWork /\ out \in Seq(Token)
  BY DEF LoopInv, TypeOK, EndMethod, AtWork
<1>2. method.trailing \in Seq(Token) /\ Body(method, kind) \in Seq(Token)
  BY <1>1, MethodType, MethodParts, PieceTypes
<1>3. out \o <<")">> \o method.trailing \o Body(method, kind) \in Seq(Token)
  <2>1. <<")">> \in Seq(Token)
    BY Tuple1, Tokens, Zenon
  <2>2. out \o <<")">> \in Seq(Token)
    BY <1>1, <2>1, ConcatType, Zenon
  <2>3. out \o <<")">> \o method.trailing \in Seq(Token)
    BY <1>2, <2>2, ConcatType, Zenon
  <2> QED
    BY <1>2, <2>3, ConcatType, Zenon
<1>4. replacer' \in [Calls -> Seq(Token)]
  BY <1>1, <1>3, PrintType DEF EndMethod, AtWork
<1>5. methods \in Seq(Method)
  BY <1>1, GeneratorAssumption DEF TypeOK
<1>6. TypeOK'
  BY <1>1, <1>4, <1>5 DEF EndMethod, TypeOK, AtWork
<1> QED
  BY <1>6, Outside DEF EndMethod, LoopInv

\* The next text begins with the first method.
LEMMA EndCallStep ==
  ASSUME LoopInv, EndCall
  PROVE  LoopInv'
<1>1. methods \in Seq(Method)
  BY GeneratorAssumption DEF LoopInv, TypeOK
<1>2. TypeOK'
  BY <1>1, CallFacts DEF EndCall, LoopInv, TypeOK
<1> QED
  BY <1>2, Outside DEF EndCall, LoopInv

-----------------------------------------------------------------------------
(* What is printed when the loops stand where they stand.                  *)

\* From cut[1] on, text holds the wrappers of the first n methods of ms, each
\* ending where the next begins.
PrintedUpTo(ms, text, k, n, cut) ==
  /\ cut[1] = 1
  /\ \A j \in 1 .. n :
       IF ms[j].isPimplMethod
         THEN /\ Holds(text, cut[j], WrapperText(ms[j], k))
              /\ cut[j + 1] = cut[j] + Len(WrapperText(ms[j], k))
         ELSE cut[j + 1] = cut[j]

\* Behind them it holds the given part, and nothing else.
Holding(ms, text, k, n, part) ==
  \E cut \in [1 .. n + 1 -> Cuts(text)] :
    /\ PrintedUpTo(ms, text, k, n, cut)
    /\ Holds(text, cut[n + 1], part)
    /\ cut[n + 1] + Len(part) = Len(text) + 1

\* The part of the wrapper of m that is printed when its loop stands at place.
Part(m, k, place) ==
  IF place = "method" THEN <<>>
  ELSE IF place = "template" THEN <<"template<">>
  ELSE IF place = "signature" THEN TemplateText(m)
  ELSE TemplateText(m) \o SignatureText(m, k)

\* The texts that are not at work are complete or not begun.
OtherTexts ==
  \A c \in Calls :
    /\ c < call =>
         Holding(methods, replacer[c], Injections[c], Len(methods), <<>>)
    /\ c > call => replacer[c] = <<>>

TextsPrinted ==
  /\ call \in Calls =>
       Holding(methods, replacer[call], kind, current - 1,
               Part(method, kind, pc))
  /\ OtherTexts

\* The loops work on ordinary methods, the template loop on templates.
MethodAtWork ==
  pc # "method" =>
    method.isPimplMethod /\ (pc = "template" => method.isTemplate)

Ends == {";", "}"}

\* Cuts are positions, and stay cuts while the text grows.
LEMMA CutFacts ==
  ASSUME NEW text \in Seq(Token)
  PROVE  /\ 1 \in Cuts(text) /\ Cuts(text) \subseteq Nat \ {0}
         /\ \A q \in DOMAIN text : text[q] \in Ends => q + 1 \in Cuts(text)
         /\ \A w \in Seq(Token) : Cuts(text) \subseteq Cuts(text \o w)
<1> DEFINE At1(t) == {1} \cup {q + 1 : q \in {i \in DOMAIN t : t[i] \in Ends}}
<1>1. \A t : Cuts(t) = At1(t)
  BY Zenon DEF Cuts, Ends
<1>2. DOMAIN text = 1 .. Len(text) /\ Len(text) \in Nat
  OBVIOUS
<1>3. 1 \in At1(text) /\ At1(text) \subseteq Nat \ {0}
  BY <1>2
<1>4. \A q \in DOMAIN text : text[q] \in Ends => q + 1 \in At1(text)
  OBVIOUS
<1>5. ASSUME NEW w \in Seq(Token) PROVE At1(text) \subseteq At1(text \o w)
  <2>1. \A i \in DOMAIN text :
          i \in DOMAIN (text \o w) /\ (text \o w)[i] = text[i]
    OBVIOUS
  <2> QED
    BY <2>1
<1> HIDE DEF At1
<1> QED
  BY <1>1, <1>3, <1>4, <1>5

\* A wrapper ends with one of the tokens behind which the next may begin.
LEMMA WrapperEnds ==
  ASSUME NEW m \in Method, NEW k, NEW text \in Seq(Token),
         NEW p \in Nat \ {0}, Holds(text, p, WrapperText(m, k))
  PROVE  p + Len(WrapperText(m, k)) \in Cuts(text)
<1> DEFINE e == BodyAt(m, k, p)
<1>1. /\ e \in Nat \ {0} /\ Holds(text, e, Body(m, k))
      /\ p + Len(WrapperText(m, k)) = e + Len(Body(m, k))
  <2>1. /\ e \in Nat /\ CloseAt(m, k, p) \in Nat /\ CloseAt(m, k, p) < e
        /\ Holds(text, e, Body(m, k))
        /\ p + Len(WrapperText(m, k)) = e + Len(Body(m, k))
    BY Layout, Zenon
  <2> QED
    BY <2>1
<1> HIDE DEF e
<1>2. DOMAIN text = 1 .. Len(text) /\ Len(text) \in Nat
  OBVIOUS
<1>3. PICK q \in DOMAIN text : text[q] \in Ends /\ e + Len(Body(m, k)) = q + 1
  <2>1. CASE k.withoutMethodBody
    <3>1. Body(m, k) = <<";">> /\ Len(<<";">>) = 1 /\ <<";">>[1] = ";"
      <4>1. \A x : Len(<<x>>) = 1 /\ <<x>>[1] = x
        OBVIOUS
      <4> QED
        BY <2>1, <4>1, Zenon DEF Body
    <3> DEFINE w == Body(m, k)
    <3>2. Len(w) = 1 /\ w[1] = ";"
      BY <3>1, Zenon
    <3> HIDE DEF w
    <3>3. Holds(text, e, w) /\ Len(w) = 1
      BY <1>1, <3>2, Zenon DEF w
    <3>4. text[e] = w[1] /\ e <= Len(text)
      BY <1>1, <3>3, HoldsFirst
    <3>5. e \in DOMAIN text
      BY <1>1, <1>2, <3>4
    <3>6. e + Len(Body(m, k)) = e + 1
      BY <3>3, Zenon DEF w
    <3> QED
      BY <3>2, <3>4, <3>5, <3>6, Zenon DEF Ends
  <2>2. CASE ~k.withoutMethodBody
    <3> DEFINE n == ArgsLength(m)
    <3>1. Holds(text, e, Body(m, k))
      BY <1>1, <2>2, Zenon
    <3>2. /\ n \in Nat /\ Len(Body(m, k)) = n + 7
          /\ e + n + 6 <= Len(text) /\ text[e + n + 6] = CloseBrace
      BY <1>1, <2>2, <3>1, BodyIsRead
    <3> HIDE DEF n
    <3>3. e + n + 6 \in DOMAIN text /\ e + (n + 7) = e + n + 6 + 1
      BY <1>1, <1>2, <3>2
    <3>4. e + Len(Body(m, k)) = e + n + 6 + 1
      BY <2>2, <3>2, <3>3, Zenon
    <3> QED
      BY <3>2, <3>3, <3>4, Zenon DEF Ends, CloseBrace
  <2> QED
    BY <2>1, <2>2
<1> QED
  BY <1>1, <1>3, CutFacts, Zenon

\* An empty text holds no wrapper.
LEMMA HoldingStarts ==
  ASSUME NEW ms, NEW k
  PROVE  Holding(ms, <<>>, k, 0, <<>>)
<1> DEFINE cut == [j \in 1 .. 0 + 1 |-> 1]
<1>1. cut \in [1 .. 0 + 1 -> Cuts(<<>>)]
  <2>1. <<>> \in Seq(Token)
    OBVIOUS
  <2>2. 1 \in Cuts(<<>>)
    BY <2>1, CutFacts
  <2> QED
    BY <2>2
<1>2. cut[1] = 1 /\ cut[0 + 1] = 1
  OBVIOUS
<1>3. PrintedUpTo(ms, <<>>, k, 0, cut)
  <2>1. 1 .. 0 = {}
    OBVIOUS
  <2> QED
    BY <1>2, <2>1, Zenon DEF PrintedUpTo
<1>4. Holds(<<>>, cut[0 + 1], <<>>) /\ cut[0 + 1] + Len(<<>>) = Len(<<>>) + 1
  <2>1. Len(<<>>) = 0
    OBVIOUS
  <2> QED
    BY <1>2, <2>1 DEF Holds
<1> QED
  BY <1>1, <1>3, <1>4, Zenon DEF Holding

\* What is appended is appended to the part at work.
LEMMA HoldingGrows ==
  ASSUME NEW ms \in Seq(Method), NEW text \in Seq(Token), NEW k,
         NEW n \in 0 .. Len(ms), NEW part \in Seq(Token), NEW w \in Seq(Token),
         Holding(ms, text, k, n, part)
  PROVE  Holding(ms, text \o w, k, n, part \o w)
<1>1. PICK cut \in [1 .. n + 1 -> Cuts(text)] :
        /\ PrintedUpTo(ms, text, k, n, cut)
        /\ Holds(text, cut[n + 1], part)
        /\ cut[n + 1] + Len(part) = Len(text) + 1
  BY Zenon DEF Holding
<1>2. \A j \in 1 .. n + 1 : cut[j] \in Nat \ {0}
  BY CutFacts
<1>3. /\ n + 1 \in 1 .. n + 1
      /\ \A j \in 1 .. n : j \in 1 .. n + 1 /\ j \in 1 .. Len(ms)
  OBVIOUS
<1>4. cut \in [1 .. n + 1 -> Cuts(text \o w)]
  BY CutFacts
<1>5. /\ Holds(text \o w, cut[n + 1], part \o w)
      /\ cut[n + 1] + Len(part \o w) = Len(text \o w) + 1
  BY <1>1, <1>2, <1>3, HoldsJoins
<1>6. ASSUME NEW j \in 1 .. n, ms[j].isPimplMethod
      PROVE  Holds(text \o w, cut[j], WrapperText(ms[j], k))
  <2>1. ms[j] \in Method
    BY <1>3
  <2>2. WrapperText(ms[j], k) \in Seq(Token)
    BY <2>1, PieceTypes
  <2>3. Holds(text, cut[j], WrapperText(ms[j], k))
    BY <1>1, <1>6, Zenon DEF PrintedUpTo
  <2>4. cut[j] \in Nat \ {0}
    BY <1>2, <1>3, Zenon
  <2> QED
    BY <2>2, <2>3, <2>4, HoldsGrows
<1>7. PrintedUpTo(ms, text \o w, k, n, cut)
  BY <1>1, <1>6, Zenon DEF PrintedUpTo
<1> QED
  BY <1>4, <1>5, <1>7, Zenon DEF Holding

\* A method is done when it is skipped or when its wrapper is complete.
LEMMA HoldingEnds ==
  ASSUME NEW ms \in Seq(Method), NEW text \in Seq(Token), NEW k,
         NEW n \in Nat, n + 1 <= Len(ms), NEW part \in Seq(Token),
         part = IF ms[n + 1].isPimplMethod THEN WrapperText(ms[n + 1], k)
                                           ELSE <<>>,
         Holding(ms, text, k, n, part)
  PROVE  Holding(ms, text, k, n + 1, <<>>)
<1>1. PICK cut \in [1 .. n + 1 -> Cuts(text)] :
        /\ PrintedUpTo(ms, text, k, n, cut)
        /\ Holds(text, cut[n + 1], part)
        /\ cut[n + 1] + Len(part) = Len(text) + 1
  BY Zenon DEF Holding
<1> DEFINE last == cut[n + 1] + Len(part)
           cut2 ==
             [j \in 1 .. (n + 1) + 1 |-> IF j = n + 2 THEN last ELSE cut[j]]
<1>2. ms[n + 1] \in Method /\ cut[n + 1] \in Cuts(text)
  OBVIOUS
<1>3. cut[n + 1] \in Nat \ {0}
  BY <1>2, CutFacts
<1>4. last \in Cuts(text)
  <2>1. CASE ms[n + 1].isPimplMethod
    BY <1>1, <1>2, <1>3, <2>1, WrapperEnds
  <2>2. CASE ~ms[n + 1].isPimplMethod
    <3>1. part = <<>> /\ Len(<<>>) = 0
      BY <2>2
    <3>2. last = cut[n + 1]
      BY <1>3, <3>1
    <3> QED
      BY <1>2, <3>2, Zenon
  <2> QED
    BY <2>1, <2>2
<1>5. /\ cut2 \in [1 .. (n + 1) + 1 -> Cuts(text)]
      /\ cut2[(n + 1) + 1] = last
      /\ \A j \in 1 .. n + 1 : cut2[j] = cut[j]
  <2> HIDE DEF last
  <2>1. (n + 1) + 1 = n + 2 /\ n + 2 \in 1 .. (n + 1) + 1
    OBVIOUS
  <2>2. \A j \in 1 .. (n + 1) + 1 : j # n + 2 => j \in 1 .. n + 1
    OBVIOUS
  <2>3. \A j \in 1 .. n + 1 : j \in 1 .. (n + 1) + 1 /\ j # n + 2
    OBVIOUS
  <2>4. cut2 \in [1 .. (n + 1) + 1 -> Cuts(text)]
    BY <1>4, <2>2
  <2>5. cut2[n + 2] = last
    BY <2>1
  <2>6. \A j \in 1 .. n + 1 : cut2[j] = cut[j]
    BY <2>3
  <2> QED
    BY <2>1, <2>4, <2>5, <2>6, Zenon
<1> HIDE DEF cut2
<1>6. PrintedUpTo(ms, text, k, n + 1, cut2)
  <2>1. 1 \in 1 .. n + 1 /\ cut[1] = 1
    BY <1>1 DEF PrintedUpTo
  <2>2. ASSUME NEW j \in 1 .. n + 1
        PROVE  IF ms[j].isPimplMethod
                 THEN /\ Holds(text, cut2[j], WrapperText(ms[j], k))
                      /\ cut2[j + 1] = cut2[j] + Len(WrapperText(ms[j], k))
                 ELSE cut2[j + 1] = cut2[j]
    <3>1. CASE j = n + 1
      <4>1. cut2[j] = cut[n + 1] /\ cut2[j + 1] = last
        BY <1>5, <3>1
      <4>2. CASE ms[j].isPimplMethod
        <5>1. part = WrapperText(ms[j], k)
          BY <3>1, <4>2, Zenon
        <5> QED
          BY <1>1, <4>1, <4>2, <5>1, Zenon
      <4>3. CASE ~ms[j].isPimplMethod
        <5>1. part = <<>> /\ Len(<<>>) = 0
          BY <3>1, <4>3
        <5>2. last = cut[n + 1]
          BY <1>3, <5>1
        <5> QED
          BY <4>1, <4>3, <5>2, Zenon
      <4> QED
        BY <4>2, <4>3
    <3>2. CASE j # n + 1
      <4>1. j \in 1 .. n /\ j + 1 \in 1 .. n + 1
        BY <3>2
      <4>2. cut2[j] = cut[j] /\ cut2[j + 1] = cut[j + 1]
        BY <1>5, <4>1, Zenon
      <4> QED
        BY <1>1, <4>1, <4>2, Zenon DEF PrintedUpTo
    <3> QED
      BY <3>1, <3>2
  <2>3. cut2[1] = 1
    BY <1>5, <2>1, Zenon
  <2> QED
    BY <2>2, <2>3, Zenon DEF PrintedUpTo
<1>7. Holds(text, last, <<>>) /\ last + Len(<<>>) = Len(text) + 1
  <2>1. Len(<<>>) = 0 /\ 1 .. 0 = {} /\ Len(text) \in Nat
    OBVIOUS
  <2>2. last = Len(text) + 1
    BY <1>1
  <2> HIDE DEF last
  <2> QED
    BY <2>1, <2>2 DEF Holds
<1> QED
  BY <1>5, <1>6, <1>7, Zenon DEF Holding

\* Once all methods are done the text reads back.
LEMMA HoldingReads ==
  ASSUME NEW k, NEW text \in Seq(Token), methods \in Seq(Method),
         Holding(methods, text, k, Len(methods), <<>>)
  PROVE  \E cut \in [1 .. Len(methods) + 1 -> Cuts(text)] :
           ReadsAs(text, k, Len(methods), cut)
<1> DEFINE n == Len(methods)
<1>1. PICK cut \in [1 .. n + 1 -> Cuts(text)] :
        /\ PrintedUpTo(methods, text, k, n, cut)
        /\ cut[n + 1] + Len(<<>>) = Len(text) + 1
  BY Zenon DEF Holding
<1>2. n \in Nat
  OBVIOUS
<1> HIDE DEF n
<1>3. cut[n + 1] = Len(text) + 1
  <2>1. Len(<<>>) = 0 /\ n + 1 \in 1 .. n + 1
    BY <1>2
  <2>2. cut[n + 1] \in Nat
    BY <2>1, CutFacts
  <2> QED
    BY <1>1, <2>1, <2>2
<1>4. ASSUME NEW j \in 1 .. n, methods[j].isPimplMethod
      PROVE  FunctionAt(text, cut[j]) =
               [function |-> Wrapper(methods[j], k), next |-> cut[j + 1]]
  <2>1. methods[j] \in Method
    BY DEF n
  <2>2. j \in 1 .. n + 1
    BY <1>2
  <2>3. cut[j] \in Nat \ {0}
    BY <2>2, CutFacts
  <2>4. /\ Holds(text, cut[j], WrapperText(methods[j], k))
        /\ cut[j + 1] = cut[j] + Len(WrapperText(methods[j], k))
    BY <1>1, <1>4, Zenon DEF PrintedUpTo
  <2>5. FunctionAt(text, cut[j]) =
          [ function |-> Wrapper(methods[j], k),
            next |-> cut[j] + Len(WrapperText(methods[j], k)) ]
    BY <2>1, <2>3, <2>4, WrapperIsRead
  <2> QED
    BY <2>4, <2>5, Zenon
<1>5. ReadsAs(text, k, n, cut)
  BY <1>1, <1>3, <1>4, Zenon DEF ReadsAs, PrintedUpTo
<1> QED
  BY <1>5, Zenon DEF n

\* A complete list alternates in one way only.
LEMMA AllPrinted ==
  ASSUME NEW items \in Seq(Items), NEW o \in Seq(Token),
         Alternates(items, Len(items), o)
  PROVE  o = Listed(items)
<1> DEFINE n == Len(items)
           L == Listed(items)
<1>1. /\ L \in Seq(Token) /\ n \in Nat
      /\ Len(L) = IF n = 0 THEN 0 ELSE 2 * n - 1
      /\ \A j \in 1 .. n : L[2 * j - 1] = items[j]
      /\ \A j \in 1 .. n - 1 : L[2 * j] = Comma
  <2>1. items \in Seq(Token)
    BY Tokens, SubsetType
  <2> QED
    BY <2>1, ListedFacts, Tokens
<1>2. /\ Len(o) = IF 0 < n THEN 2 * n - 1 ELSE 2 * n
      /\ \A j \in 1 .. n : /\ o[2 * j - 1] = items[j]
                           /\ 2 * j <= Len(o) => o[2 * j] = Comma
  BY DEF Alternates
<1> HIDE DEF n, L
<1>3. Len(o) = Len(L)
  BY <1>1, <1>2
<1>4. ASSUME NEW i \in 1 .. Len(o) PROVE o[i] = L[i]
  <2>1. i \in Int /\ Len(o) \in Int
    OBVIOUS
  <2>2. \E j \in Int : i = 2 * j - 1 \/ i = 2 * j
    <3> DEFINE h == i \div 2
    <3>1. h \in Int /\ h + 1 \in Int /\ (i = 2 * h \/ i = 2 * (h + 1) - 1)
      BY <2>1
    <3> HIDE DEF h
    <3> QED
      BY <3>1
  <2>3. PICK j \in Int : i = 2 * j - 1 \/ i = 2 * j
    BY <2>2
  <2>4. CASE i = 2 * j - 1
    <3>1. j \in 1 .. n
      BY <1>1, <1>2, <2>4
    <3> QED
      BY <1>1, <1>2, <2>4, <3>1
  <2>5. CASE i = 2 * j
    <3>1. j \in 1 .. n /\ j \in 1 .. n - 1 /\ 2 * j <= Len(o)
      BY <1>1, <1>2, <2>5
    <3> QED
      BY <1>1, <1>2, <2>5, <3>1
  <2> QED
    BY <2>3, <2>4, <2>5
<1>5. o = L
  BY <1>1, <1>3, <1>4
<1> QED
  BY <1>5 DEF L

\* The invariant of the whole: the inner loops, and the texts around them.
IInv == LoopInv /\ MethodAtWork /\ TextsPrinted

\* Emitting adds to the part at work, and to no other text.
LEMMA EmitText ==
  ASSUME IInv, AtWork, NEW w \in Seq(Token), Emit(w), methods' = methods,
         call' = call, NEW part \in Seq(Token), part = Part(method, kind, pc)
  PROVE  /\ Holding(methods, replacer'[call], kind, current - 1, part \o w)
         /\ replacer'[call] \in Seq(Token)
         /\ OtherTexts'
<1>1. /\ methods \in Seq(Method) /\ replacer \in [Calls -> Seq(Token)]
      /\ call \in Calls /\ current - 1 \in 0 .. Len(methods)
  BY GeneratorAssumption DEF IInv, LoopInv, TypeOK, AtWork
<1>2. replacer'[call] = replacer[call] \o w
  BY <1>1 DEF Emit
<1>3. \A c \in Calls : c # call => replacer'[c] = replacer[c]
  BY <1>1 DEF Emit
<1>4. Holding(methods, replacer[call], kind, current - 1, part)
  BY <1>1, Zenon DEF IInv, TextsPrinted
<1>5. replacer[call] \in Seq(Token)
  BY <1>1
<1>6. Holding(methods, replacer'[call], kind, current - 1, part \o w)
  BY <1>1, <1>2, <1>4, <1>5, HoldingGrows
<1>7. replacer'[call] \in Seq(Token)
  BY <1>2, <1>5, ConcatType, Zenon
<1>8. ASSUME NEW c \in Calls
      PROVE  /\ c < call' => Holding(methods', replacer'[c], Injections[c],
                                     Len(methods'), <<>>)
             /\ c > call' => replacer'[c] = <<>>
  <2>1. CASE c = call
    <3>1. ~(c < call) /\ ~(c > call)
      BY <1>1, <2>1, CallFacts
    <3> QED
      BY <3>1, Zenon
  <2>2. CASE c # call
    <3>1. replacer'[c] = replacer[c]
      BY <1>3, <2>2
    <3> QED
      BY <3>1, Zenon DEF IInv, TextsPrinted, OtherTexts
  <2> QED
    BY <2>1, <2>2
<1> QED
  BY <1>6, <1>7, <1>8, Zenon DEF OtherTexts

TextInv == MethodAtWork /\ TextsPrinted

\* Steps and texts: a method that is skipped leaves no trace.
LEMMA SkipText ==
  ASSUME IInv, SkipMethod
  PROVE  TextInv'
<1>1. /\ methods \in Seq(Method) /\ replacer[call] \in Seq(Token)
      /\ call \in Calls /\ current \in 1 .. Len(methods)
      /\ pc = "method" /\ ~methods[current].isPimplMethod
  BY GeneratorAssumption DEF IInv, LoopInv, TypeOK, SkipMethod, method
<1>2. Holding(methods, replacer[call], kind, current - 1, <<>>)
  <2>1. Part(method, kind, pc) = <<>>
    BY <1>1, Zenon DEF Part
  <2> QED
    BY <1>1, <2>1, Zenon DEF IInv, TextsPrinted
<1>3. /\ current - 1 \in Nat /\ (current - 1) + 1 <= Len(methods)
      /\ (current - 1) + 1 = current
  BY <1>1
<1>4. Holding(methods, replacer[call], kind, (current - 1) + 1, <<>>)
  <2>1. <<>> \in Seq(Token)
    OBVIOUS
  <2>2. <<>> = IF methods[(current - 1) + 1].isPimplMethod
                 THEN WrapperText(methods[(current - 1) + 1], kind) ELSE <<>>
    BY <1>1, <1>3, Zenon
  <2> QED
    BY <1>1, <1>2, <1>3, <2>1, <2>2, HoldingEnds
<1>5. /\ methods' = methods /\ call' = call /\ replacer' = replacer
      /\ pc' = "method" /\ current' = current + 1
  BY <1>1 DEF SkipMethod
<1>6. current' - 1 = (current - 1) + 1
  BY <1>1, <1>5
<1>7. TextsPrinted'
  <2>1. Part(method', kind', pc') = <<>>
    BY <1>5, Zenon DEF Part
  <2>2. kind' = kind
    BY <1>5, Zenon DEF kind
  <2> QED
    BY <1>4, <1>5, <1>6, <2>1, <2>2, Zenon
    DEF IInv, TextsPrinted, OtherTexts
<1> QED
  BY <1>5, <1>7, Zenon DEF TextInv, MethodAtWork

\* The part at work is always a text.
LEMMA PartType ==
  ASSUME TypeOK, AtWork, NEW place
  PROVE  Part(method, kind, place) \in Seq(Token)
<1>1. method \in Method
  BY MethodType
<1>2. /\ TemplateText(method) \in Seq(Token)
      /\ SignatureText(method, kind) \in Seq(Token)
  BY <1>1, PieceTypes
<1>3. TemplateText(method) \o SignatureText(method, kind) \in Seq(Token)
  BY <1>2, ConcatType
<1>4. <<>> \in Seq(Token) /\ <<"template<">> \in Seq(Token)
  BY Tuple1, EmptyType, Tokens, Zenon
<1> QED
  BY <1>2, <1>3, <1>4, Zenon DEF Part

\* A wrapper begins behind the last one.
LEMMA BeginText ==
  ASSUME IInv, BeginMethod
  PROVE  TextInv'
<1>1. TypeOK /\ AtWork /\ pc = "method" /\ method.isPimplMethod
  BY DEF IInv, LoopInv, TypeOK, BeginMethod, AtWork
<1>2. methods' = methods /\ call' = call /\ current' = current
  BY DEF BeginMethod
<1>3. method' = method /\ kind' = kind
  BY <1>2, Zenon DEF method, kind
<1>4. Part(method, kind, pc) = <<>>
  BY <1>1, Zenon DEF Part
<1>5. CASE method.isTemplate
  <2> DEFINE w == <<"template<">>
  <2>1. w \in Seq(Token) /\ <<>> \in Seq(Token) /\ <<>> \o w = w
    <3>1. w \in Seq(Token)
      BY Tuple1, Tokens, Zenon
    <3> HIDE DEF w
    <3>2. <<>> \in Seq(Token) /\ <<>> \o w = w
      BY <3>1
    <3> QED
      BY <3>1, <3>2
  <2>2. Emit(w) /\ pc' = "template"
    BY <1>5 DEF BeginMethod, EnterLoop
  <2> HIDE DEF w
  <2>3. /\ Holding(methods, replacer'[call], kind, current - 1, <<>> \o w)
        /\ OtherTexts'
    BY <1>1, <1>2, <1>4, <2>1, <2>2, EmitText, Zenon
  <2>4. Part(method', kind', pc') = w
    BY <2>2, Zenon DEF Part, w
  <2>5. Holding(methods', replacer'[call'], kind', current' - 1,
                Part(method', kind', pc'))
    BY <1>2, <1>3, <2>1, <2>3, <2>4, Zenon
  <2>6. TextsPrinted'
    BY <2>3, <2>5, Zenon DEF TextsPrinted
  <2> QED
    BY <1>1, <1>3, <1>5, <2>2, <2>6, Zenon DEF TextInv, MethodAtWork
<1>6. CASE ~method.isTemplate
  <2>1. pc' = "signature" /\ replacer' = replacer
    BY <1>6 DEF BeginMethod
  <2>2. Part(method', kind', pc') = <<>>
    BY <1>3, <1>6, <2>1, Zenon DEF Part, TemplateText
  <2>3. TextsPrinted'
    BY <1>1, <1>2, <1>3, <1>4, <2>1, <2>2, Zenon
    DEF IInv, TextsPrinted, OtherTexts
  <2> QED
    BY <1>1, <1>3, <2>1, <2>3, Zenon DEF TextInv, MethodAtWork
<1> QED
  BY <1>5, <1>6

\* The inner loops print into a text of their own.
LEMMA ItemText ==
  ASSUME IInv, PrintItem
  PROVE  TextInv'
<1>1. /\ methods' = methods /\ call' = call /\ current' = current
      /\ pc' = pc /\ replacer' = replacer
  BY DEF PrintItem
<1>2. method' = method /\ kind' = kind
  BY <1>1, Zenon DEF method, kind
<1> QED
  BY <1>1, <1>2, Zenon
  DEF IInv, TextInv, MethodAtWork, TextsPrinted, OtherTexts

\* A loop that is done has printed its list.
LEMMA LoopDone ==
  ASSUME IInv, AtWork, Printed
  PROVE  /\ pc = "template" => out = Listed(method.tplParams)
         /\ pc = "params" => out = Listed(method.params)
<1>1. /\ pc \in {"template", "params"} /\ out \in Seq(Token)
      /\ ItemsOf(method, pc) \in Seq(Items)
      /\ Alternates(ItemsOf(method, pc), Len(ItemsOf(method, pc)), out)
  <2>1. TypeOK /\ pc \in {"template", "params"}
    BY DEF IInv, LoopInv, Printed, Printing
  <2>2. ItemsOf(method, pc) \in Seq(Items)
    BY <2>1, MethodType
  <2> QED
    BY <2>1, <2>2 DEF IInv, LoopInv, TypeOK, ListsAlternate, Printed
<1>2. out = Listed(ItemsOf(method, pc))
  BY <1>1, AllPrinted
<1> QED
  BY <1>2, Zenon DEF ItemsOf

\* The template names complete the first piece.
LEMMA EndTemplateText ==
  ASSUME IInv, EndTemplate
  PROVE  TextInv'
<1>1. TypeOK /\ AtWork /\ pc = "template" /\ Printed
  BY DEF IInv, LoopInv, TypeOK, EndTemplate, AtWork
<1>2. /\ methods' = methods /\ call' = call /\ current' = current
      /\ pc' = "signature"
  BY DEF EndTemplate
<1>3. method' = method /\ kind' = kind /\ method.isPimplMethod /\ method.isTemplate
  BY <1>1, <1>2, Zenon DEF method, kind, IInv, MethodAtWork
<1> DEFINE part == <<"template<">>
           w == Listed(method.tplParams) \o <<">">>
<1>4. part \in Seq(Token) /\ part = Part(method, kind, pc)
  BY <1>1, Tuple1, Tokens, Zenon DEF Part
<1>5. w \in Seq(Token) /\ Emit(w)
  <2>1. out = Listed(method.tplParams) /\ out \in Seq(Token)
    BY <1>1, LoopDone DEF TypeOK
  <2>2. <<">">> \in Seq(Token)
    BY Tuple1, Tokens, Zenon
  <2>3. Emit(out \o <<">">>)
    BY DEF EndTemplate
  <2> QED
    BY <2>1, <2>2, <2>3, ConcatType, Zenon
<1>6. Part(method', kind', pc') = part \o w
  BY <1>2, <1>3, Zenon DEF Part, TemplateText
<1> HIDE DEF part, w
<1>7. /\ Holding(methods, replacer'[call], kind, current - 1, part \o w)
      /\ OtherTexts'
  BY <1>1, <1>2, <1>4, <1>5, EmitText, Zenon
<1>8. TextsPrinted'
  BY <1>2, <1>3, <1>6, <1>7, Zenon DEF TextsPrinted
<1> QED
  BY <1>2, <1>3, <1>8, Zenon DEF TextInv, MethodAtWork

\* The declarator follows.
LEMMA SignatureStepText ==
  ASSUME IInv, PrintSignature
  PROVE  TextInv'
<1>1. TypeOK /\ AtWork /\ pc = "signature"
  BY DEF IInv, LoopInv, TypeOK, PrintSignature, AtWork
<1>2. /\ methods' = methods /\ call' = call /\ current' = current
      /\ pc' = "params"
  BY DEF PrintSignature, EnterLoop
<1>3. method' = method /\ kind' = kind /\ method.isPimplMethod
  BY <1>1, <1>2, Zenon DEF method, kind, IInv, MethodAtWork
<1> DEFINE part == TemplateText(method)
           w == SignatureText(method, kind)
<1>4. part \in Seq(Token) /\ w \in Seq(Token)
  BY <1>1, MethodType, PieceTypes
<1>5. part = Part(method, kind, pc) /\ Part(method', kind', pc') = part \o w
  BY <1>1, <1>2, <1>3, Zenon DEF Part
<1>6. Emit(w)
  BY DEF PrintSignature, SignatureText
<1> HIDE DEF part, w
<1>7. /\ Holding(methods, replacer'[call], kind, current - 1, part \o w)
      /\ OtherTexts'
  BY <1>1, <1>2, <1>4, <1>5, <1>6, EmitText, Zenon
<1>8. TextsPrinted'
  BY <1>2, <1>3, <1>5, <1>7, Zenon DEF TextsPrinted
<1> QED
  BY <1>2, <1>3, <1>8, Zenon DEF TextInv, MethodAtWork

\* Parameters, qualifiers and body complete the wrapper.
LEMMA EndMethodText ==
  ASSUME IInv, EndMethod
  PROVE  TextInv'
<1>1. TypeOK /\ AtWork /\ pc = "params" /\ Printed
  BY DEF IInv, LoopInv, TypeOK, EndMethod, AtWork
<1>2. /\ methods' = methods /\ call' = call /\ current' = current + 1
      /\ pc' = "method"
  BY DEF EndMethod
<1>3. method \in Method /\ method.isPimplMethod
  BY <1>1, MethodType DEF IInv, MethodAtWork
<1> DEFINE part == TemplateText(method) \o SignatureText(method, kind)
           w == RestText(method, kind)
<1>4. part \in Seq(Token) /\ w \in Seq(Token)
  BY <1>3, PieceTypes, ConcatType
<1>5. part = Part(method, kind, pc) /\ part \o w = WrapperText(method, kind)
  BY <1>1, Zenon DEF Part, WrapperText
<1>6. Emit(w)
  <2>1. out = Listed(method.params)
    BY <1>1, LoopDone
  <2> QED
    BY <2>1, Zenon DEF EndMethod, RestText
<1> HIDE DEF part, w
<1>7. /\ Holding(methods, replacer'[call], kind, current - 1, part \o w)
      /\ replacer'[call] \in Seq(Token)
      /\ OtherTexts'
  BY <1>1, <1>2, <1>4, <1>5, <1>6, EmitText, Zenon
<1>8. /\ methods \in Seq(Method) /\ call \in Calls
      /\ current \in 1 .. Len(methods)
  BY <1>1, GeneratorAssumption DEF TypeOK, AtWork
<1>9. /\ current - 1 \in Nat /\ (current - 1) + 1 <= Len(methods)
      /\ (current - 1) + 1 = current /\ current' - 1 = (current - 1) + 1
  BY <1>2, <1>8
<1>10. WrapperText(method, kind) =
         IF methods[(current - 1) + 1].isPimplMethod
           THEN WrapperText(methods[(current - 1) + 1], kind) ELSE <<>>
  BY <1>3, <1>9, Zenon DEF method
<1>11. WrapperText(method, kind) \in Seq(Token)
  BY <1>3, PieceTypes
<1>12. Holding(methods, replacer'[call], kind, current - 1,
               WrapperText(method, kind))
  BY <1>5, <1>7, Zenon
<1>13. Holding(methods, replacer'[call], kind, (current - 1) + 1, <<>>)
  BY <1>7, <1>8, <1>9, <1>10, <1>11, <1>12, HoldingEnds
<1>14. Part(method', kind', pc') = <<>>
  BY <1>2, Zenon DEF Part
<1>15. TextsPrinted'
  <2>1. kind' = kind
    BY <1>2, Zenon DEF kind
  <2> QED
    BY <1>2, <1>7, <1>9, <1>13, <1>14, <2>1, Zenon DEF TextsPrinted
<1> QED
  BY <1>2, <1>15, Zenon DEF TextInv, MethodAtWork

\* The second text starts from nothing.
LEMMA EndCallText ==
  ASSUME IInv, EndCall
  PROVE  TextInv'
<1>1. /\ methods \in Seq(Method) /\ call \in Calls /\ pc = "method"
      /\ current = Len(methods) + 1 /\ Len(methods) \in Nat
  BY GeneratorAssumption DEF IInv, LoopInv, TypeOK, EndCall
<1>2. /\ methods' = methods /\ replacer' = replacer /\ pc' = "method"
      /\ current' = 1
      /\ call' = call + 1
  BY <1>1 DEF EndCall
<1>3. Holding(methods, replacer[call], kind, Len(methods), <<>>)
  <2>1. Part(method, kind, pc) = <<>>
    BY <1>1, Zenon DEF Part
  <2>2. current - 1 = Len(methods)
    BY <1>1
  <2> QED
    BY <1>1, <2>1, <2>2, Zenon DEF IInv, TextsPrinted
<1>4. ASSUME call' \in Calls
      PROVE  Holding(methods', replacer'[call'], kind', current' - 1,
                     Part(method', kind', pc'))
  <2>1. replacer'[call'] = <<>>
    <3>1. call' > call
      BY <1>1, <1>2, CallFacts
    <3>2. replacer[call'] = <<>>
      BY <1>4, <3>1, Zenon DEF IInv, TextsPrinted, OtherTexts
    <3> QED
      BY <1>2, <3>2, Zenon
  <2>2. Part(method', kind', pc') = <<>>
    BY <1>2, Zenon DEF Part
  <2>3. current' - 1 = 0
    BY <1>2
  <2> QED
    BY <2>1, <2>2, <2>3, HoldingStarts, Zenon
<1>5. OtherTexts'
  <2> SUFFICES ASSUME NEW c \in Calls
               PROVE  /\ c < call' => Holding(methods', replacer'[c],
                                              Injections[c], Len(methods'), <<>>)
                      /\ c > call' => replacer'[c] = <<>>
    BY Zenon DEF OtherTexts
  <2>1. CASE c = call
    <3>1. Holding(methods', replacer'[c], Injections[c], Len(methods'), <<>>)
      BY <1>2, <1>3, <2>1, Zenon DEF kind
    <3>2. ~(c > call')
      BY <1>1, <1>2, <2>1, CallFacts
    <3> QED
      BY <3>1, <3>2
  <2>2. CASE c # call
    <3>1. /\ c < call =>
               Holding(methods, replacer[c], Injections[c], Len(methods), <<>>)
          /\ c > call => replacer[c] = <<>>
      BY Zenon DEF IInv, TextsPrinted, OtherTexts
    <3>2. (c < call' => c < call) /\ (c > call' => c > call)
      BY <1>1, <1>2, <2>2, CallFacts
    <3>3. methods' = methods /\ replacer' = replacer
      BY <1>2
    <3>4. ASSUME c < call'
          PROVE  Holding(methods', replacer'[c], Injections[c], Len(methods'), <<>>)
      <4>1. c < call
        BY <3>2, <3>4
      <4> QED
        BY <3>1, <3>3, <4>1, Zenon
    <3>5. ASSUME c > call' PROVE replacer'[c] = <<>>
      <4>1. c > call
        BY <3>2, <3>5
      <4> QED
        BY <3>1, <3>3, <4>1
    <3> QED
      BY <3>4, <3>5
  <2> QED
    BY <2>1, <2>2
<1>6. TextsPrinted'
  BY <1>4, <1>5, Zenon DEF TextsPrinted
<1> QED
  BY <1>2, <1>6, Zenon DEF TextInv, MethodAtWork

-----------------------------------------------------------------------------
(* Theorems.                                                               *)

\* The conjunction of what is printed and what is typed is inductive.
THEOREM Invariance == Spec => []IInv
<1>1. Init => IInv
  <2> SUFFICES ASSUME Init PROVE IInv
    OBVIOUS
  <2>1. methods \in Seq(Method)
    BY GeneratorAssumption DEF Init
  <2>2. TypeOK
    <3>1. Len(methods) \in Nat /\ Len(Injections) \in Nat
      BY <2>1, CallFacts
    <3>2. call \in 1 .. Len(Injections) + 1 /\ current \in 1 .. Len(methods) + 1
      BY <3>1 DEF Init
    <3>3. <<>> \in Seq(Token)
      OBVIOUS
    <3>4. replacer \in [Calls -> Seq(Token)]
      BY <3>3, Zenon DEF Init
    <3> QED
      BY <3>2, <3>3, <3>4 DEF Init, TypeOK
  <2>3. LoopInv /\ MethodAtWork
    BY <2>2
    DEF Init, LoopInv, ListsAlternate, CounterInStep, Printing, MethodAtWork
  <2>4. TextsPrinted
    <3>1. /\ call = 1 /\ pc = "method" /\ current - 1 = 0
          /\ \A c \in Calls : replacer[c] = <<>>
      BY DEF Init
    <3>2. Part(method, kind, pc) = <<>>
      BY <3>1, Zenon DEF Part
    <3>3. \A c \in Calls : ~(c < call)
      BY <3>1, CallFacts
    <3> QED
      BY <3>1, <3>2, <3>3, HoldingStarts, Zenon
      DEF TextsPrinted, OtherTexts, Calls
  <2> QED
    BY <2>3, <2>4 DEF IInv
<1>2. IInv /\ [Next]_vars => IInv'
  <2> SUFFICES ASSUME IInv, [Next]_vars PROVE IInv'
    OBVIOUS
  <2>1. LoopInv'
    <3>1. CASE UNCHANGED vars
      BY <3>1
      DEF vars, IInv, LoopInv, TypeOK, ListsAlternate, CounterInStep, Printing,
          method, ItemsOf
    <3>2. LoopInv
      BY DEF IInv
    <3> QED
      BY <3>1, <3>2, SkipStep, BeginStep, ItemStep, EndTemplateStep,
         SignatureStep, EndMethodStep, EndCallStep
      DEF Next
  <2>2. TextInv'
    <3>1. CASE UNCHANGED vars
      <4>1. /\ methods' = methods /\ call' = call /\ current' = current
            /\ pc' = pc /\ replacer' = replacer
        BY <3>1 DEF vars
      <4>2. method' = method /\ kind' = kind
        BY <4>1, Zenon DEF method, kind
      <4> QED
        BY <4>1, <4>2, Zenon
        DEF IInv, TextInv, MethodAtWork, TextsPrinted, OtherTexts
    <3> QED
      BY <3>1, SkipText, BeginText, ItemText, EndTemplateText,
         SignatureStepText, EndMethodText, EndCallText
      DEF Next
  <2> QED
    BY <2>1, <2>2 DEF IInv, TextInv
<1> QED
  BY <1>1, <1>2, PTL DEF Spec

\* The texts are sequences of tokens and no position of the loops is off its
\* list, for classes and lists of any length.
THEOREM TypeCorrect == Spec => []TypeOK
<1>1. IInv => TypeOK
  BY DEF IInv, LoopInv
<1> QED
  BY <1>1, Invariance, PTL

\* Both helpers print "a, b, c", whatever the number of items.
THEOREM ListsArePrinted == Spec => []ListsAlternate
<1>1. IInv => ListsAlternate
  BY DEF IInv, LoopInv
<1> QED
  BY <1>1, Invariance, PTL

\* Whatever the class and the annotations, the texts read back as its ordinary methods, each with
\* its own names, parameters and qualifiers, and every definition forwards to
\* the method of its own name.
THEOREM TextsReadBack == Spec => []TextReadsBack
<1>1. IInv => TextReadsBack
  <2> SUFFICES ASSUME IInv, NEW c \in Calls, Complete(c)
               PROVE  \E cut \in [1 .. Len(methods) + 1 -> Cuts(replacer[c])] :
                        ReadsAs(replacer[c], Injections[c], Len(methods), cut)
    BY Zenon DEF TextReadsBack
  <2>1. methods \in Seq(Method) /\ replacer[c] \in Seq(Token)
    BY GeneratorAssumption DEF IInv, LoopInv, TypeOK
  <2>2. Holding(methods, replacer[c], Injections[c], Len(methods), <<>>)
    BY Zenon DEF IInv, TextsPrinted, OtherTexts, Complete
  <2> QED
    BY <2>1, <2>2, HoldingReads
<1> QED
  BY <1>1, Invariance, PTL

=============================================================================
