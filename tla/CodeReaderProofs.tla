--------------------------- MODULE CodeReaderProofs ---------------------------
(***************************************************************************)
(* Reading back what CodeGenerator prints: the text of a wrapper, wherever *)
(* it stands, is read by FunctionAt as the function it was printed for,    *)
(* for parameter lists of any length.                                      *)
(***************************************************************************)
EXTENDS CodeGenerator, TLAPS

-----------------------------------------------------------------------------
(* Texts that hold a sequence of tokens at a position.                     *)

\* Text contains w from position p on.
Holds(text, p, w) ==
  /\ p + Len(w) <= Len(text) + 1
  /\ \A i \in 1 .. Len(w) : text[p + i - 1] = w[i]

\* What \o does, element by element.
LEMMA ConcatFacts ==
  ASSUME NEW S, NEW v \in Seq(S), NEW w \in Seq(S)
  PROVE  /\ v \o w \in Seq(S)
         /\ Len(v) \in Nat /\ Len(w) \in Nat
         /\ Len(v \o w) = Len(v) + Len(w)
         /\ \A i \in 1 .. Len(v) : (v \o w)[i] = v[i]
         /\ \A i \in 1 .. Len(w) : (v \o w)[Len(v) + i] = w[i]
OBVIOUS

\* A text that holds two sequences in a row holds each of them.
LEMMA HoldsParts ==
  ASSUME NEW S, NEW v \in Seq(S), NEW w \in Seq(S),
         NEW text \in Seq(S), NEW p \in Nat, Holds(text, p, v \o w)
  PROVE  Holds(text, p, v) /\ Holds(text, p + Len(v), w)
<1>1. /\ Len(v) \in Nat /\ Len(w) \in Nat /\ Len(text) \in Nat
      /\ Len(v \o w) = Len(v) + Len(w)
      /\ \A i \in 1 .. Len(v) : (v \o w)[i] = v[i]
      /\ \A i \in 1 .. Len(w) : (v \o w)[Len(v) + i] = w[i]
  BY ConcatFacts
<1> DEFINE vw == v \o w
<1>2. /\ p + Len(vw) <= Len(text) + 1
      /\ \A i \in 1 .. Len(vw) : text[p + i - 1] = vw[i]
  BY DEF Holds
<1> HIDE DEF vw
<1>3. ASSUME NEW i \in 1 .. Len(v) PROVE text[p + i - 1] = v[i]
  <2>1. i \in 1 .. Len(vw) /\ vw[i] = v[i]
    BY <1>1 DEF vw
  <2> QED
    BY <1>2, <2>1
<1>4. ASSUME NEW i \in 1 .. Len(w) PROVE text[p + Len(v) + i - 1] = w[i]
  <2>1. Len(v) + i \in 1 .. Len(vw) /\ vw[Len(v) + i] = w[i]
    BY <1>1 DEF vw
  <2>2. p + (Len(v) + i) - 1 = p + Len(v) + i - 1
    BY <1>1
  <2> QED
    BY <1>2, <2>1, <2>2
<1>5. Len(vw) = Len(v) + Len(w)
  BY <1>1 DEF vw
<1> QED
  BY <1>1, <1>2, <1>3, <1>4, <1>5 DEF Holds

\* What is appended to a text does not touch what it holds.
LEMMA HoldsGrows ==
  ASSUME NEW S, NEW text \in Seq(S), NEW more \in Seq(S),
         NEW w \in Seq(S), NEW p \in Nat \ {0}, Holds(text, p, w)
  PROVE  Holds(text \o more, p, w)
<1>1. /\ Len(text) \in Nat /\ Len(more) \in Nat /\ Len(w) \in Nat
      /\ Len(text \o more) = Len(text) + Len(more)
      /\ \A i \in 1 .. Len(text) : (text \o more)[i] = text[i]
  BY ConcatFacts
<1>2. \A i \in 1 .. Len(w) : p + i - 1 \in 1 .. Len(text)
  BY <1>1 DEF Holds
<1> QED
  BY <1>1, <1>2 DEF Holds

\* Appending to a text that ends with v appends to v.
LEMMA HoldsJoins ==
  ASSUME NEW S, NEW text \in Seq(S), NEW v \in Seq(S), NEW w \in Seq(S),
         NEW p \in Nat \ {0}, Holds(text, p, v), p + Len(v) = Len(text) + 1
  PROVE  /\ Holds(text \o w, p, v \o w)
         /\ p + Len(v \o w) = Len(text \o w) + 1
<1>1. /\ Len(text) \in Nat /\ Len(v) \in Nat /\ Len(w) \in Nat
      /\ Len(v \o w) = Len(v) + Len(w)
      /\ \A i \in 1 .. Len(v) : (v \o w)[i] = v[i]
      /\ \A i \in 1 .. Len(w) : (v \o w)[Len(v) + i] = w[i]
      /\ Len(text \o w) = Len(text) + Len(w)
      /\ \A i \in 1 .. Len(w) : (text \o w)[Len(text) + i] = w[i]
  BY ConcatFacts
<1>2. Holds(text \o w, p, v)
  BY HoldsGrows
<1>3. 1 .. Len(v \o w) \subseteq Int
  BY <1>1
<1>4. ASSUME NEW i \in 1 .. Len(v \o w)
      PROVE  (text \o w)[p + i - 1] = (v \o w)[i]
  <2>1. CASE i \in 1 .. Len(v)
    BY <1>1, <1>2, <2>1 DEF Holds
  <2>2. CASE i \notin 1 .. Len(v)
    <3>1. i - Len(v) \in 1 .. Len(w)
      BY <1>1, <2>2
    <3>2. /\ (v \o w)[Len(v) + (i - Len(v))] = w[i - Len(v)]
          /\ (text \o w)[Len(text) + (i - Len(v))] = w[i - Len(v)]
      BY <1>1, <3>1
    <3>3. /\ Len(v) + (i - Len(v)) = i
          /\ Len(text) + (i - Len(v)) = p + i - 1
      <4>1. i \in Int /\ Len(text) = p + Len(v) - 1
        BY <1>1
      <4> QED
        BY <1>1, <4>1
    <3> QED
      BY <3>2, <3>3
  <2> QED
    BY <2>1, <2>2
<1> QED
  <2>1. p + Len(v \o w) = Len(text \o w) + 1
    BY <1>1
  <2>2. p + Len(v \o w) <= Len(text \o w) + 1
    <3>1. Len(text \o w) \in Nat
      BY <1>1
    <3> QED
      BY <2>1, <3>1
  <2>3. Holds(text \o w, p, v \o w)
    BY <1>4, <2>2, Zenon DEF Holds
  <2> QED
    BY <2>1, <2>3

\* A text that holds a single token holds it there.
LEMMA HoldsFirst ==
  ASSUME NEW S, NEW text \in Seq(S), NEW p \in Nat, NEW w, Len(w) = 1,
         Holds(text, p, w)
  PROVE  text[p] = w[1] /\ p <= Len(text)
<1>1. text[p + 1 - 1] = w[1] /\ p + 1 <= Len(text) + 1
  BY DEF Holds
<1>2. p + 1 - 1 = p /\ Len(text) \in Nat
  OBVIOUS
<1> QED
  BY <1>1, <1>2

\* Find returns the first position that fits.
LEMMA FindFirst ==
  ASSUME NEW S, NEW text \in Seq(S), NEW tokens, NEW p \in Nat, NEW q \in Nat,
         p <= q, q <= Len(text), text[q] \in tokens,
         \A i \in p .. q - 1 : text[i] \notin tokens
  PROVE  Find(text, p, tokens) = q
<1> DEFINE found == {i \in p .. Len(text) : text[i] \in tokens}
<1>1. q \in found /\ \A i \in found : q <= i
  OBVIOUS
<1>2. Min(found) = q
  <2>1. found \subseteq Int
    OBVIOUS
  <2> HIDE DEF found
  <2>2. \A x \in found : (\A y \in found : x <= y) => x = q
    BY <1>1, <2>1
  <2>3. \E x \in found : \A y \in found : x <= y
    BY <1>1
  <2> QED
    BY <2>2, <2>3 DEF Min
<1> QED
  BY <1>1, <1>2 DEF Find

\* Find passes over what holds none of the tokens.
LEMMA FindAfter ==
  ASSUME NEW text \in Seq(Token), NEW v \in Seq(Token), NEW p \in Nat \ {0},
         Holds(text, p, v), NEW tokens,
         \A i \in 1 .. Len(v) : v[i] \notin tokens,
         NEW q, q = p + Len(v), q <= Len(text), text[q] \in tokens
  PROVE  Find(text, p, tokens) = q
<1>1. Len(v) \in Nat /\ q \in Nat /\ p <= q
  OBVIOUS
<1>2. ASSUME NEW i \in p .. q - 1 PROVE text[i] \notin tokens
  <2>1. i - p + 1 \in 1 .. Len(v) /\ p + (i - p + 1) - 1 = i
    BY <1>1
  <2> QED
    BY <2>1 DEF Holds
<1> QED
  BY <1>1, <1>2, FindFirst

\* What a text holds can be cut out of it.
LEMMA HoldsRead ==
  ASSUME NEW S, NEW text \in Seq(S), NEW w \in Seq(S), NEW p \in Nat \ {0},
         Holds(text, p, w)
  PROVE  SubSeq(text, p, p + Len(w) - 1) = w
<1>1. Len(w) \in Nat /\ Len(text) \in Nat
  OBVIOUS
<1> DEFINE t == SubSeq(text, p, p + Len(w) - 1)
<1>2. t \in Seq(S) /\ Len(t) = Len(w)
  BY <1>1 DEF Holds
<1>3. ASSUME NEW i \in 1 .. Len(w) PROVE t[i] = w[i]
  <2>1. t[i] = text[p + i - 1]
    BY <1>1 DEF Holds
  <2> QED
    BY <2>1 DEF Holds
<1> HIDE DEF t
<1>4. t = w
  BY <1>2, <1>3
<1> QED
  BY <1>4 DEF t

-----------------------------------------------------------------------------
(* Lists with commas.                                                      *)

\* Where Listed puts the items and the commas.
LEMMA ListedFacts ==
  ASSUME NEW S, Comma \in S, NEW items \in Seq(S)
  PROVE  /\ Listed(items) \in Seq(S)
         /\ Len(items) \in Nat
         /\ Len(Listed(items)) =
              IF Len(items) = 0 THEN 0 ELSE 2 * Len(items) - 1
         /\ \A j \in 1 .. Len(items) : Listed(items)[2 * j - 1] = items[j]
         /\ \A j \in 1 .. Len(items) - 1 : Listed(items)[2 * j] = Comma
<1> DEFINE n == Len(items)
           size == IF items = <<>> THEN 0 ELSE 2 * n - 1
           token(j) == IF j % 2 = 1 THEN items[(j + 1) \div 2] ELSE Comma
<1>1. n \in Nat /\ (items = <<>> <=> n = 0)
  OBVIOUS
<1>2. size \in Nat
  BY <1>1
<1>3. ASSUME NEW j \in 1 .. size PROVE token(j) \in S
  <2>1. CASE j % 2 = 1
    <3>1. (j + 1) \div 2 \in 1 .. n
      BY <1>1, <2>1
    <3> QED
      BY <2>1, <3>1
  <2>2. CASE j % 2 # 1
    BY <2>2
  <2> QED
    BY <2>1, <2>2
<1>4. Listed(items) = [j \in 1 .. size |-> token(j)]
  BY DEF Listed
<1>5. /\ Listed(items) \in Seq(S)
      /\ Len(Listed(items)) = size
      /\ \A j \in 1 .. size : Listed(items)[j] = token(j)
  <2> HIDE DEF size, token
  <2> QED
    BY <1>2, <1>3, <1>4
<1>6. ASSUME NEW j \in 1 .. n PROVE Listed(items)[2 * j - 1] = items[j]
  <2>1. /\ 2 * j - 1 \in 1 .. size /\ (2 * j - 1) % 2 = 1
        /\ ((2 * j - 1) + 1) \div 2 = j
    BY <1>1
  <2> QED
    BY <1>5, <2>1
<1>7. ASSUME NEW j \in 1 .. n - 1 PROVE Listed(items)[2 * j] = Comma
  <2>1. 2 * j \in 1 .. size /\ (2 * j) % 2 # 1
    BY <1>1
  <2> QED
    BY <1>5, <2>1
<1> QED
  BY <1>1, <1>5, <1>6, <1>7

\* The tokens by which the reader finds its way.
Marks == {"template<", ">", "(", ")", "{", ";", "}"}

\* No name, type or qualifier is punctuation.
LEMMA WordsDiffer ==
  \A x \in Words : x \notin {"template<", ">", "::", "(", ",", ")", "{",
                             "return impl_->", ";", "}"}
BY GeneratorAssumption DEF Punctuation

\* The only punctuation of a list is the comma.
LEMMA ListedTokens ==
  ASSUME NEW items \in Seq(Items)
  PROVE  /\ Listed(items) \in Seq(Token)
         /\ \A i \in 1 .. Len(Listed(items)) :
              Listed(items)[i] \notin Marks
<1> DEFINE S == Items \cup {Comma}
<1>1. items \in Seq(S)
  OBVIOUS
<1>2. Listed(items) \in Seq(S)
  BY <1>1, ListedFacts
<1>3. \A x \in S : x \notin Marks
  BY WordsDiffer DEF Words, Comma, Marks
<1>4. S \subseteq Token
  BY DEF Token, Words, Punctuation, Comma
<1> HIDE DEF S
<1>5. \A i \in 1 .. Len(Listed(items)) : Listed(items)[i] \in S
  BY <1>2
<1>6. Listed(items) \in Seq(Token)
  BY <1>2, <1>4
<1> QED
  BY <1>3, <1>5, <1>6

\* A list that is printed with commas is read back, whatever its length.
LEMMA ListIsRead ==
  ASSUME NEW items \in Seq(Items), NEW text \in Seq(Token),
         NEW p \in Nat \ {0}, Holds(text, p, Listed(items)),
         NEW q, q = p + Len(Listed(items)) - 1
  PROVE  ListAt(text, p, q) = items
<1> DEFINE n == Len(items)
           L == Listed(items)
           size == IF q < p THEN 0 ELSE q - p + 1
<1>1. /\ n \in Nat
      /\ Len(L) = IF n = 0 THEN 0 ELSE 2 * n - 1
      /\ \A j \in 1 .. n : L[2 * j - 1] = items[j]
      /\ \A j \in 1 .. n - 1 : L[2 * j] = Comma
  <2>1. items \in Seq(Items \cup {Comma})
    OBVIOUS
  <2> QED
    BY <2>1, ListedFacts
<1>2. \A i \in 1 .. Len(L) : text[p + i - 1] = L[i]
  BY DEF Holds
<1> HIDE DEF L
<1>3. size = Len(L) /\ q \in Int
  BY <1>1 DEF L
<1>4. (size = 0 \/ size % 2 = 1) /\ (size + 1) \div 2 = n
  <2>1. n # 0 => (2 * n - 1) % 2 = 1 /\ ((2 * n - 1) + 1) \div 2 = n
    BY <1>1
  <2>2. (0 + 1) \div 2 = 0
    OBVIOUS
  <2>3. size = IF n = 0 THEN 0 ELSE 2 * n - 1
    BY <1>1, <1>3
  <2> HIDE DEF size
  <2> QED
    BY <2>1, <2>2, <2>3
<1>5. ASSUME NEW j \in p .. q
      PROVE  IF (j - p) % 2 = 1 THEN text[j] = Comma ELSE text[j] \in Items
  <2>1. j - p + 1 \in 1 .. Len(L) /\ p + (j - p + 1) - 1 = j /\ j - p \in Nat
    BY <1>1, <1>3
  <2>2. text[j] = L[j - p + 1]
    BY <1>2, <2>1
  <2>3. CASE (j - p) % 2 = 1
    <3>1. PICK k \in Nat : j - p + 1 = 2 * k
      <4>1. (j - p + 1) \div 2 \in Nat /\ j - p + 1 = 2 * ((j - p + 1) \div 2)
        BY <2>1, <2>3
      <4> QED
        BY <4>1
    <3>2. k \in 1 .. n - 1
      BY <1>1, <2>1, <3>1
    <3> QED
      BY <1>1, <2>2, <2>3, <3>1, <3>2
  <2>4. CASE (j - p) % 2 # 1
    <3>1. PICK k \in Nat : j - p + 1 = 2 * k - 1
      <4>1. /\ (j - p + 2) \div 2 \in Nat
            /\ j - p + 1 = 2 * ((j - p + 2) \div 2) - 1
        BY <2>1, <2>4
      <4> QED
        BY <4>1
    <3>2. k \in 1 .. n
      BY <1>1, <2>1, <3>1
    <3>3. items[k] \in Items
      BY <3>2
    <3> QED
      BY <1>1, <2>2, <2>4, <3>1, <3>2, <3>3
  <2> QED
    BY <2>3, <2>4
<1>6. ASSUME NEW j \in 1 .. n PROVE text[p + 2 * j - 2] = items[j]
  <2>1. 2 * j - 1 \in 1 .. Len(L) /\ p + (2 * j - 1) - 1 = p + 2 * j - 2
    BY <1>1
  <2> QED
    BY <1>1, <1>2, <2>1
<1>7. [j \in 1 .. (size + 1) \div 2 |-> text[p + 2 * j - 2]] = items
  <2>1. items = [j \in 1 .. n |-> items[j]]
    OBVIOUS
  <2> QED
    BY <1>4, <1>6, <2>1
<1> HIDE DEF n
<1> QED
  BY <1>4, <1>5, <1>7, Zenon DEF ListAt, Comma

-----------------------------------------------------------------------------
(* The pieces of a wrapper.                                                *)

\* The text of a wrapper, piece by piece: the template names, the declarator
\* with its parenthesis, and parameters, qualifiers and body.
TemplateText(m) ==
  IF m.isTemplate THEN <<"template<">> \o (Listed(m.tplParams) \o <<">">>)
                  ELSE <<>>

SignatureText(m, k) == Declarator(m, k) \o <<"(">>

RestText(m, k) ==
  ((Listed(m.params) \o <<")">>) \o m.trailing) \o Body(m, k)

WrapperText(m, k) == (TemplateText(m) \o SignatureText(m, k)) \o RestText(m, k)

\* One token is a text.
LEMMA Single ==
  ASSUME NEW x \in Token
  PROVE  <<x>> \in Seq(Token) /\ Len(<<x>>) = 1 /\ <<x>>[1] = x
OBVIOUS

\* Punctuation marks are tokens.
LEMMA PunctuationTokens ==
  \A x \in Punctuation : x \in Token /\ <<x>> \in Seq(Token)
BY DEF Token

\* A declarator is not empty and holds none of the marks.
LEMMA DeclaratorFacts ==
  ASSUME NEW m \in Method, NEW k
  PROVE  /\ Declarator(m, k) \in Seq(Token)
         /\ Len(Declarator(m, k)) \in Nat \ {0}
         /\ \A i \in 1 .. Len(Declarator(m, k)) :
              Declarator(m, k)[i] \notin Marks
<1> DEFINE S == Words \cup {"::"}
<1>1. m.forwarding \in S /\ m.name \in S /\ Interface \in S /\ "::" \in S
  BY DEF Method, Words
<1>2. S \subseteq Token /\ S \cap Marks = {}
  BY GeneratorAssumption DEF Token, Punctuation, Marks
<1> HIDE DEF S
<1>3. /\ <<m.forwarding>> \in Seq(S) /\ <<m.name>> \in Seq(S)
      /\ Len(<<m.forwarding>>) = 1
      /\ <<Interface, "::">> \in Seq(S) /\ <<>> \in Seq(S)
  <2>1. \A x, y \in S :
          <<x>> \in Seq(S) /\ Len(<<x>>) = 1 /\ <<x, y>> \in Seq(S)
    OBVIOUS
  <2>2. <<>> \in Seq(S)
    OBVIOUS
  <2> QED
    BY <1>1, <2>1, <2>2, Zenon
<1>4. PICK q \in Seq(S) :
        q = IF k.interface THEN <<Interface, "::">> ELSE <<>>
  BY <1>3, Zenon
<1>5. Declarator(m, k) = (<<m.forwarding>> \o q) \o <<m.name>>
  BY <1>4 DEF Declarator
<1>6. Declarator(m, k) \in Seq(S) /\ Len(Declarator(m, k)) > 0
  <2> DEFINE f == <<m.forwarding>>
             g == <<m.name>>
  <2>1. f \in Seq(S) /\ g \in Seq(S) /\ Len(f) = 1
    BY <1>3
  <2>2. Declarator(m, k) = (f \o q) \o g
    BY <1>5
  <2> HIDE DEF f, g
  <2> QED
    BY <2>1, <2>2
<1> QED
  BY <1>2, <1>6

\* The arguments of a forwarding call are as many as the parameters.
LEMMA ForwardedType ==
  ASSUME NEW m \in Method
  PROVE  Forwarded(m) \in Seq(Items) /\ Len(Forwarded(m)) = Len(m.params)
<1>1. m.params \in Seq(Items)
  BY DEF Method
<1>2. \A j \in DOMAIN m.params : NameOf[m.params[j]] \in Items
  BY <1>1, GeneratorAssumption
<1> QED
  BY <1>1, <1>2 DEF Forwarded

\* The parts of a method.
LEMMA MethodParts ==
  ASSUME NEW m \in Method
  PROVE  /\ m.isTemplate \in BOOLEAN
         /\ m.tplParams \in Seq(Items) /\ m.params \in Seq(Items)
         /\ m.name \in Words
         /\ m.trailing \in Seq(Words) /\ m.trailing \in Seq(Token)
         /\ \A i \in 1 .. Len(m.trailing) : m.trailing[i] \notin Marks
<1>1. m.trailing \in Seq(Qualifiers)
  BY DEF Method
<1>2. m.trailing \in Seq(Words) /\ m.trailing \in Seq(Token)
  BY <1>1 DEF Words, Token
<1>3. \A i \in 1 .. Len(m.trailing) : m.trailing[i] \in Words
  BY <1>2
<1>4. \A x \in Words : x \notin Marks
  BY GeneratorAssumption DEF Punctuation, Marks
<1> QED
  BY <1>2, <1>3, <1>4 DEF Method, Words

\* Every piece of a wrapper is a sequence of tokens.
LEMMA PieceTypes ==
  ASSUME NEW m \in Method, NEW k
  PROVE  /\ TemplateText(m) \in Seq(Token)
         /\ SignatureText(m, k) \in Seq(Token)
         /\ Listed(m.params) \o <<")">> \in Seq(Token)
         /\ (Listed(m.params) \o <<")">>) \o m.trailing \in Seq(Token)
         /\ <<"{", "return impl_->", m.name, "(">> \in Seq(Token)
         /\ <<")", ";", "}">> \in Seq(Token)
         /\ <<"{", "return impl_->", m.name, "(">> \o Listed(Forwarded(m))
              \in Seq(Token)
         /\ Body(m, k) \in Seq(Token)
         /\ RestText(m, k) \in Seq(Token)
         /\ WrapperText(m, k) \in Seq(Token)
<1> DEFINE S == Seq(Token)
<1>1. \A v, w \in S : v \o w \in S
  BY ConcatFacts
<1>2. /\ <<"template<">> \in S /\ <<">">> \in S /\ <<"(">> \in S
      /\ <<")">> \in S /\ <<";">> \in S /\ <<>> \in S
  <2>1. \A x \in {"template<", ">", "(", ")", ";"} : <<x>> \in S
    BY PunctuationTokens DEF Punctuation
  <2>2. <<>> \in S
    OBVIOUS
  <2> QED
    BY <2>1, <2>2, Zenon
<1>3. Listed(m.tplParams) \in S /\ Listed(m.params) \in S
      /\ Listed(Forwarded(m)) \in S /\ m.trailing \in S
      /\ Declarator(m, k) \in S
  BY MethodParts, ListedTokens, ForwardedType, DeclaratorFacts
<1>4. /\ <<"{", "return impl_->", m.name, "(">> \in S
      /\ <<")", ";", "}">> \in S
  <2>1. m.name \in Token
    BY MethodParts DEF Token
  <2>2. \A x \in {"{", "return impl_->", "(", ")", ";", "}"} : x \in Token
    BY PunctuationTokens DEF Punctuation
  <2>3. \A x, y, z \in Token : <<x, y, z>> \in S
    OBVIOUS
  <2>4. \A x, y, z, u \in Token : <<x, y, z, u>> \in S
    OBVIOUS
  <2> QED
    BY <2>1, <2>2, <2>3, <2>4, Zenon
<1> HIDE DEF S
<1>5. TemplateText(m) \in S
  <2>1. <<"template<">> \o (Listed(m.tplParams) \o <<">">>) \in S
    BY <1>1, <1>2, <1>3, Zenon
  <2> QED
    BY <1>2, <2>1, Zenon DEF TemplateText
<1>6. SignatureText(m, k) \in S
  BY <1>1, <1>2, <1>3, Zenon DEF SignatureText
<1>7. Listed(m.params) \o <<")">> \in S
  BY <1>1, <1>2, <1>3, Zenon
<1>8. (Listed(m.params) \o <<")">>) \o m.trailing \in S
  BY <1>1, <1>3, <1>7, Zenon
<1>9. <<"{", "return impl_->", m.name, "(">> \o Listed(Forwarded(m)) \in S
  BY <1>1, <1>3, <1>4, Zenon
<1>10. Body(m, k) \in S
  <2>1. (<<"{", "return impl_->", m.name, "(">> \o Listed(Forwarded(m)))
           \o <<")", ";", "}">> \in S
    BY <1>1, <1>4, <1>9, Zenon
  <2> QED
    BY <1>2, <2>1, Zenon DEF Body
<1>11. RestText(m, k) \in S
  BY <1>1, <1>8, <1>10, Zenon DEF RestText
<1>12. WrapperText(m, k) \in S
  BY <1>1, <1>5, <1>6, <1>11, Zenon DEF WrapperText
<1> QED
  BY <1>4, <1>5, <1>6, <1>7, <1>8, <1>9, <1>10, <1>11, <1>12 DEF S

-----------------------------------------------------------------------------
(* Reading a wrapper.                                                      *)

\* Where the pieces of a wrapper from position p on lie: its declarator, its
\* parentheses and its body.
NameAt(m, p) == p + Len(TemplateText(m))
OpenAt(m, k, p) == NameAt(m, p) + Len(Declarator(m, k))
CloseAt(m, k, p) == OpenAt(m, k, p) + 1 + Len(Listed(m.params))
BodyAt(m, k, p) == CloseAt(m, k, p) + 1 + Len(m.trailing)

\* A text that holds a wrapper holds its pieces at these positions.
LEMMA Layout ==
  ASSUME NEW m \in Method, NEW k, NEW text \in Seq(Token), NEW p \in Nat \ {0},
         Holds(text, p, WrapperText(m, k))
  PROVE  LET a == NameAt(m, p)
             b == OpenAt(m, k, p)
             d == CloseAt(m, k, p)
             e == BodyAt(m, k, p)
         IN /\ a \in Nat /\ b \in Nat /\ d \in Nat /\ e \in Nat
            /\ p <= a /\ a < b /\ b < d /\ d < e /\ d <= Len(text)
            /\ Holds(text, p, TemplateText(m))
            /\ Holds(text, a, Declarator(m, k))
            /\ text[b] = "(" /\ Holds(text, b + 1, Listed(m.params))
            /\ text[d] = ")" /\ Holds(text, d + 1, m.trailing)
            /\ Holds(text, e, Body(m, k))
            /\ p + Len(WrapperText(m, k)) = e + Len(Body(m, k))
<1> DEFINE T == Seq(Token)
           tt == TemplateText(m)
           dd == Declarator(m, k)
           o == <<"(">>
           ll == Listed(m.params)
           x == <<")">>
           rr == m.trailing
           bb == Body(m, k)
           w == WrapperText(m, k)
           a == NameAt(m, p)
           b == OpenAt(m, k, p)
           d == CloseAt(m, k, p)
           e == BodyAt(m, k, p)
<1>1. w = (tt \o (dd \o o)) \o (((ll \o x) \o rr) \o bb)
  BY DEF WrapperText, SignatureText, RestText
<1>2. /\ tt \in T /\ dd \in T /\ ll \in T /\ rr \in T /\ bb \in T
      /\ o \in T /\ x \in T
  BY PieceTypes, DeclaratorFacts, ListedTokens, MethodParts, PunctuationTokens
  DEF Punctuation
<1>3. Len(o) = 1 /\ Len(x) = 1
  BY Single, PunctuationTokens DEF Punctuation
<1>4. o[1] = "(" /\ x[1] = ")"
  BY Single, PunctuationTokens DEF Punctuation
<1>5. /\ a = p + Len(tt) /\ b = a + Len(dd) /\ d = b + 1 + Len(ll)
      /\ e = d + 1 + Len(rr)
  BY DEF NameAt, OpenAt, CloseAt, BodyAt
<1>6. Holds(text, p, w) /\ Len(dd) # 0
  BY DeclaratorFacts
<1> HIDE DEF tt, dd, o, ll, x, rr, bb, w, a, b, d, e
<1>7. \A u, v \in T : u \o v \in T /\ Len(u \o v) = Len(u) + Len(v)
  BY ConcatFacts
<1>8. \A u \in T : Len(u) \in Nat
  OBVIOUS
<1>9. \A u, v \in T : \A i \in Nat :
        Holds(text, i, u \o v) =>
          Holds(text, i, u) /\ Holds(text, i + Len(u), v)
  BY HoldsParts
<1> HIDE DEF T
<1>10. dd \o o \in T /\ Len(dd \o o) = Len(dd) + 1
  <2>1. dd \o o \in T /\ Len(dd \o o) = Len(dd) + Len(o)
    BY <1>2, <1>7, Zenon
  <2> QED
    BY <1>3, <2>1
<1>11. ll \o x \in T /\ Len(ll \o x) = Len(ll) + 1
  <2>1. ll \o x \in T /\ Len(ll \o x) = Len(ll) + Len(x)
    BY <1>2, <1>7, Zenon
  <2> QED
    BY <1>3, <2>1
<1>12. tt \o (dd \o o) \in T /\ Len(tt \o (dd \o o)) = Len(tt) + (Len(dd) + 1)
  <2>1. /\ tt \o (dd \o o) \in T
        /\ Len(tt \o (dd \o o)) = Len(tt) + Len(dd \o o)
    BY <1>2, <1>7, <1>10, Zenon
  <2> QED
    BY <1>10, <2>1, Zenon
<1>13. (ll \o x) \o rr \in T /\ Len((ll \o x) \o rr) = (Len(ll) + 1) + Len(rr)
  BY <1>2, <1>7, <1>11, Zenon
<1>14. /\ ((ll \o x) \o rr) \o bb \in T
      /\ Len(((ll \o x) \o rr) \o bb) = ((Len(ll) + 1) + Len(rr)) + Len(bb)
  BY <1>2, <1>7, <1>13, Zenon
<1>15. Len(w) = (Len(tt) + (Len(dd) + 1))
                  + (((Len(ll) + 1) + Len(rr)) + Len(bb))
  BY <1>1, <1>7, <1>12, <1>14, Zenon
<1>16. /\ Len(tt) \in Nat /\ Len(dd) \in Nat /\ Len(ll) \in Nat
       /\ Len(rr) \in Nat /\ Len(bb) \in Nat
  BY <1>2, <1>8
<1>17. /\ a \in Nat /\ b \in Nat /\ d \in Nat /\ e \in Nat
       /\ b + 1 \in Nat /\ d + 1 \in Nat
       /\ b + 1 = p + (Len(tt) + (Len(dd) + 1))
       /\ e = b + 1 + ((Len(ll) + 1) + Len(rr))
       /\ d + 1 = b + 1 + (Len(ll) + 1)
       /\ p <= a /\ a < b /\ b < d /\ d < e
       /\ p + Len(w) = e + Len(bb)
  BY <1>5, <1>6, <1>15, <1>16
<1>18. /\ Holds(text, p, tt \o (dd \o o))
       /\ Holds(text, b + 1, ((ll \o x) \o rr) \o bb)
  <2>1. p \in Nat /\ p + Len(tt \o (dd \o o)) = b + 1
    BY <1>12, <1>17
  <2>2. /\ Holds(text, p, tt \o (dd \o o))
        /\ Holds(text, p + Len(tt \o (dd \o o)), ((ll \o x) \o rr) \o bb)
    BY <1>1, <1>6, <1>9, <1>12, <1>14, <2>1, Zenon
  <2> QED
    BY <2>1, <2>2, Zenon
<1>19. Holds(text, p, tt) /\ Holds(text, a, dd \o o)
  <2>1. p \in Nat
    OBVIOUS
  <2> QED
    BY <1>2, <1>5, <1>9, <1>10, <1>18, <2>1, Zenon
<1>20. Holds(text, a, dd) /\ Holds(text, b, o)
  BY <1>2, <1>5, <1>9, <1>17, <1>19, Zenon
<1>21. Holds(text, b + 1, (ll \o x) \o rr) /\ Holds(text, e, bb)
  <2>1. b + 1 + Len((ll \o x) \o rr) = e
    BY <1>13, <1>17
  <2>2. /\ Holds(text, b + 1, (ll \o x) \o rr)
        /\ Holds(text, b + 1 + Len((ll \o x) \o rr), bb)
    BY <1>2, <1>9, <1>13, <1>17, <1>18, Zenon
  <2> QED
    BY <2>1, <2>2, Zenon
<1>22. Holds(text, b + 1, ll \o x) /\ Holds(text, d + 1, rr)
  <2>1. b + 1 + Len(ll \o x) = d + 1
    BY <1>11, <1>17
  <2>2. Holds(text, b + 1, ll \o x) /\ Holds(text, b + 1 + Len(ll \o x), rr)
    BY <1>2, <1>9, <1>11, <1>17, <1>21, Zenon
  <2> QED
    BY <2>1, <2>2, Zenon
<1>23. Holds(text, b + 1, ll) /\ Holds(text, d, x)
  BY <1>2, <1>5, <1>9, <1>17, <1>22, Zenon
<1>24. text[b] = o[1] /\ text[d] = x[1] /\ d <= Len(text)
  BY <1>2, <1>3, <1>17, <1>20, <1>23, HoldsFirst DEF T
<1> QED
  BY <1>4, <1>17, <1>19, <1>20, <1>21, <1>22, <1>23, <1>24
  DEF tt, dd, ll, rr, bb, w, a, b, d, e

\* The template head of a wrapper is read to its end.
LEMMA HeadIsRead ==
  ASSUME NEW m \in Method, NEW text \in Seq(Token), NEW p \in Nat \ {0},
         Holds(text, p, TemplateText(m)), NameAt(m, p) <= Len(text),
         ~m.isTemplate => text[p] # "template<"
  PROVE  /\ At(text, p) = "template<" <=> m.isTemplate
         /\ m.isTemplate =>
              /\ Find(text, p, {">"}) + 1 = NameAt(m, p)
              /\ ListAt(text, p + 1, NameAt(m, p) - 2) = m.tplParams
         /\ ~m.isTemplate => NameAt(m, p) = p
<1> DEFINE a == NameAt(m, p)
<1>1. /\ m.isTemplate \in BOOLEAN /\ m.tplParams \in Seq(Items)
      /\ a = p + Len(TemplateText(m)) /\ a <= Len(text)
  BY MethodParts DEF NameAt
<1>2. Len(text) \in Nat /\ DOMAIN text = 1 .. Len(text)
  OBVIOUS
<1> HIDE DEF a
<1>3. CASE ~m.isTemplate
  <2>1. TemplateText(m) = <<>>
    BY <1>3 DEF TemplateText
  <2>2. Len(TemplateText(m)) = 0
    BY <2>1
  <2>3. a = p
    BY <1>1, <2>2
  <2>4. p \in DOMAIN text
    BY <1>1, <1>2, <2>3
  <2>5. At(text, p) = text[p]
    BY <2>4, Zenon DEF At
  <2> QED
    BY <1>3, <2>3, <2>5, Zenon DEF a
<1>4. CASE m.isTemplate
  <2> DEFINE t == <<"template<">>
             l == Listed(m.tplParams)
             g == <<">">>
             T == Seq(Token)
  <2>1. t \in T /\ g \in T
    BY PunctuationTokens DEF Punctuation
  <2>2. Len(t) = 1 /\ Len(g) = 1
    BY Single, PunctuationTokens DEF Punctuation
  <2>3. t[1] = "template<" /\ g[1] = ">"
    BY Single, PunctuationTokens DEF Punctuation
  <2>4. TemplateText(m) = t \o (l \o g)
    BY <1>4 DEF TemplateText
  <2>5. l \in T /\ \A i \in 1 .. Len(l) : l[i] \notin {">"}
    BY <1>1, ListedTokens DEF Marks
  <2> HIDE DEF t, l, g, T
  <2>6. /\ \A u, v \in T : u \o v \in T /\ Len(u \o v) = Len(u) + Len(v)
        /\ \A u \in T : Len(u) \in Nat
        /\ \A u, v \in T : \A i \in Nat :
             Holds(text, i, u \o v) =>
               Holds(text, i, u) /\ Holds(text, i + Len(u), v)
    BY ConcatFacts, HoldsParts DEF T
  <2>7. l \o g \in T /\ Len(l \o g) = Len(l) + Len(g) /\ Len(l) \in Nat
    BY <2>1, <2>5, <2>6, Zenon
  <2>8. Len(TemplateText(m)) = Len(t) + Len(l \o g)
    BY <2>1, <2>4, <2>6, <2>7, Zenon
  <2>9. a = p + 1 + Len(l) + 1
    BY <1>1, <2>2, <2>7, <2>8
  <2>10. p \in Nat /\ p + 1 \in Nat /\ p + 1 + Len(l) \in Nat
    BY <2>7
  <2>11. Holds(text, p, t) /\ Holds(text, p + 1, l \o g)
    <3>1. Holds(text, p, t) /\ Holds(text, p + Len(t), l \o g)
      BY <2>1, <2>4, <2>6, <2>7, <2>10, Zenon
    <3> QED
      BY <2>2, <3>1, Zenon
  <2>12. Holds(text, p + 1, l) /\ Holds(text, p + 1 + Len(l), g)
    BY <2>1, <2>5, <2>6, <2>10, <2>11, Zenon
  <2>13. text[p] = t[1] /\ text[p + 1 + Len(l)] = g[1]
    BY <2>1, <2>2, <2>10, <2>11, <2>12, HoldsFirst DEF T
  <2>14. p + 1 + Len(l) = a - 1 /\ a - 1 \in Nat /\ p <= a - 1
         /\ a - 1 <= Len(text) /\ p \in 1 .. Len(text)
    BY <1>1, <1>2, <2>7, <2>9
  <2>15. text[p] = "template<" /\ text[a - 1] = ">"
    BY <2>3, <2>13, <2>14, Zenon
  <2>16. At(text, p) = "template<"
    BY <1>2, <2>14, <2>15, Zenon DEF At
  <2>17. ListAt(text, p + 1, a - 2) = m.tplParams
    <3>1. a - 2 = p + 1 + Len(l) - 1 /\ p + 1 \in Nat \ {0}
      BY <2>7, <2>9
    <3> QED
      BY <1>1, <2>12, <3>1, ListIsRead DEF l
  <2>18. Find(text, p, {">"}) = a - 1
    <3>1. ASSUME NEW i \in p .. (a - 1) - 1 PROVE text[i] \notin {">"}
      <4>1. CASE i = p
        BY <2>15, <4>1
      <4>2. CASE i # p
        <5>1. i - p \in 1 .. Len(l) /\ p + 1 + (i - p) - 1 = i
          BY <2>7, <2>9, <4>2
        <5> QED
          BY <2>5, <2>12, <5>1 DEF Holds
      <4> QED
        BY <4>1, <4>2
    <3>2. text[a - 1] \in {">"}
      BY <2>15
    <3> QED
      BY <2>10, <2>14, <3>1, <3>2, FindFirst
  <2>19. Find(text, p, {">"}) + 1 = a
    BY <2>7, <2>9, <2>18
  <2> QED
    BY <1>4, <2>16, <2>17, <2>19, Zenon DEF a
<1> QED
  BY <1>1, <1>3, <1>4, Zenon

\* (Names for the tokens that the arithmetic prover cannot read.)
OpenBrace == "{"
CloseBrace == "}"

\* The call that a body makes and the length of its argument list.
CallText(m) == <<"return impl_->", m.name>>
ArgsLength(m) == Len(Listed(Forwarded(m)))

\* Where a body is read: its opening parenthesis, its
\* arguments, its closing parenthesis and its end.
LEMMA BodyIsRead ==
  ASSUME NEW m \in Method, NEW k, ~k.withoutMethodBody,
         NEW text \in Seq(Token), NEW p \in Nat \ {0}, Holds(text, p, Body(m, k))
  PROVE  /\ ArgsLength(m) \in Nat
         /\ Len(Body(m, k)) = ArgsLength(m) + 7
         /\ p + ArgsLength(m) + 6 <= Len(text)
         /\ text[p] = OpenBrace /\ text[p + ArgsLength(m) + 6] = CloseBrace
         /\ Find(text, p, {"("}) = p + 3
         /\ Find(text, p, {")"}) = p + ArgsLength(m) + 4
         /\ Find(text, p, {CloseBrace}) = p + ArgsLength(m) + 6
         /\ SubSeq(text, p + 1, p + 2) = CallText(m)
         /\ ListAt(text, p + 4, p + ArgsLength(m) + 3) = Forwarded(m)
<1> USE DEF ArgsLength, OpenBrace, CloseBrace
<1> DEFINE T == Seq(Token)
           h == <<"{", "return impl_->", m.name, "(">>
           l == Listed(Forwarded(m))
           g == <<")", ";", "}">>
           n == Len(l)
<1>1. h \in T /\ g \in T /\ h \o l \in T
  BY PieceTypes
<1>2. Len(h) = 4 /\ Len(g) = 3
  OBVIOUS
<1>3. /\ h[1] = "{" /\ h[2] = "return impl_->" /\ h[3] = m.name /\ h[4] = "("
      /\ g[1] = ")" /\ g[2] = ";" /\ g[3] = "}"
  OBVIOUS
<1>4. Body(m, k) = (h \o l) \o g
  BY DEF Body
<1>5. /\ l \in T
      /\ \A i \in 1 .. n : l[i] \notin Marks
  BY ForwardedType, ListedTokens
<1>6. /\ m.name \notin {"(", ")", "}"}
  BY MethodParts, WordsDiffer
<1> HIDE DEF h, l, g, n, T
<1>7. /\ \A u, v \in T : u \o v \in T /\ Len(u \o v) = Len(u) + Len(v)
      /\ \A u \in T : Len(u) \in Nat
      /\ \A u, v \in T : \A i \in Nat :
           Holds(text, i, u \o v) =>
             Holds(text, i, u) /\ Holds(text, i + Len(u), v)
  BY ConcatFacts, HoldsParts DEF T
<1>8. n \in Nat /\ Len(h \o l) = 4 + n
  BY <1>1, <1>2, <1>5, <1>7, Zenon DEF n
<1>9. Len(Body(m, k)) = (4 + n) + 3
  BY <1>1, <1>2, <1>4, <1>7, <1>8, Zenon
<1>10. p \in Nat /\ p + (4 + n) \in Nat
  BY <1>8
<1>11. Holds(text, p, h \o l) /\ Holds(text, p + (4 + n), g)
  BY <1>1, <1>4, <1>7, <1>8, <1>10, Zenon
<1>12. Holds(text, p, h) /\ Holds(text, p + 4, l)
  BY <1>1, <1>2, <1>5, <1>7, <1>10, <1>11, Zenon
<1>13. /\ text[p] = h[1] /\ text[p + 1] = h[2] /\ text[p + 2] = h[3]
       /\ text[p + 3] = h[4]
  <2>1. \A i \in 1 .. 4 : text[p + i - 1] = h[i]
    BY <1>2, <1>12 DEF Holds
  <2>2. /\ p + 1 - 1 = p /\ p + 2 - 1 = p + 1 /\ p + 3 - 1 = p + 2
        /\ p + 4 - 1 = p + 3
    OBVIOUS
  <2> QED
    BY <2>1, <2>2
<1>14. /\ text[p + n + 4] = g[1] /\ text[p + n + 5] = g[2]
       /\ text[p + n + 6] = g[3] /\ p + n + 6 <= Len(text)
  <2>1. /\ \A i \in 1 .. 3 : text[p + (4 + n) + i - 1] = g[i]
        /\ p + (4 + n) + 3 <= Len(text) + 1
    BY <1>2, <1>11 DEF Holds
  <2>2. /\ p + (4 + n) + 1 - 1 = p + n + 4 /\ p + (4 + n) + 2 - 1 = p + n + 5
        /\ p + (4 + n) + 3 - 1 = p + n + 6 /\ Len(text) \in Nat
    BY <1>8
  <2> QED
    BY <1>8, <2>1, <2>2
<1>15. /\ text[p] = "{" /\ text[p + 1] = "return impl_->"
       /\ text[p + 2] = m.name /\ text[p + 3] = "("
       /\ text[p + n + 4] = ")" /\ text[p + n + 5] = ";"
       /\ text[p + n + 6] = "}"
  BY <1>3, <1>13, <1>14, Zenon
<1>16. ASSUME NEW i \in p + 4 .. p + n + 3
       PROVE  text[i] \notin Marks
  <2>1. i - (p + 4) + 1 \in 1 .. n /\ (p + 4) + (i - (p + 4) + 1) - 1 = i
    BY <1>8
  <2>2. text[i] = l[i - (p + 4) + 1]
    BY <1>12, <2>1 DEF Holds, n
  <2> QED
    BY <1>5, <2>1, <2>2, Zenon
<1>17. Len(text) \in Nat
  OBVIOUS
<1>18. Find(text, p, {"("}) = p + 3
  <2>1. ASSUME NEW i \in p .. (p + 3) - 1 PROVE text[i] \notin {"("}
    <3>1. i = p \/ i = p + 1 \/ i = p + 2
      OBVIOUS
    <3> QED
      BY <1>6, <1>15, <3>1
  <2>2. p + 3 \in Nat /\ p <= p + 3 /\ p + 3 <= Len(text)
    BY <1>8, <1>14, <1>17
  <2>3. text[p + 3] \in {"("}
    BY <1>15
  <2> QED
    BY <1>10, <2>1, <2>2, <2>3, FindFirst
<1>19. Find(text, p, {")"}) = p + n + 4
  <2>1. ASSUME NEW i \in p .. (p + n + 4) - 1 PROVE text[i] \notin {")"}
    <3>1. \/ i = p \/ i = p + 1 \/ i = p + 2 \/ i = p + 3
          \/ i \in p + 4 .. p + n + 3
      BY <1>8
    <3> QED
      BY <1>6, <1>15, <1>16, <3>1 DEF Marks
  <2>2. p + n + 4 \in Nat /\ p <= p + n + 4 /\ p + n + 4 <= Len(text)
    BY <1>8, <1>14, <1>17
  <2>3. text[p + n + 4] \in {")"}
    BY <1>15
  <2> QED
    BY <1>10, <2>1, <2>2, <2>3, FindFirst
<1>20. Find(text, p, {"}"}) = p + n + 6
  <2>1. ASSUME NEW i \in p .. (p + n + 6) - 1 PROVE text[i] \notin {"}"}
    <3>1. \/ i = p \/ i = p + 1 \/ i = p + 2 \/ i = p + 3
          \/ i \in p + 4 .. p + n + 3
          \/ i = p + n + 4 \/ i = p + n + 5
      BY <1>8
    <3> QED
      BY <1>6, <1>15, <1>16, <3>1 DEF Marks
  <2>2. p + n + 6 \in Nat /\ p <= p + n + 6 /\ p + n + 6 <= Len(text)
    BY <1>8, <1>14, <1>17
  <2>3. text[p + n + 6] \in {"}"}
    BY <1>15
  <2> QED
    BY <1>10, <2>1, <2>2, <2>3, FindFirst
<1>21. SubSeq(text, p + 1, p + 2) = CallText(m)
  <2> DEFINE w == <<"return impl_->", m.name>>
  <2>1. w \in Seq(Token)
    <3>1. \A x, y \in Token : <<x, y>> \in Seq(Token)
      OBVIOUS
    <3>2. "return impl_->" \in Token /\ m.name \in Token
      BY PunctuationTokens, MethodParts DEF Token, Punctuation
    <3> QED
      BY <3>1, <3>2, Zenon
  <2>2. w[1] = "return impl_->" /\ w[2] = m.name
    OBVIOUS
  <2>3. Len(w) = 2
    OBVIOUS
  <2> HIDE DEF w
  <2>4. ASSUME NEW i \in 1 .. 2 PROVE text[p + 1 + i - 1] = w[i]
    <3>1. p + 1 + 1 - 1 = p + 1 /\ p + 1 + 2 - 1 = p + 2 /\ (i = 1 \/ i = 2)
      OBVIOUS
    <3> QED
      BY <1>15, <2>2, <3>1
  <2>5. p + 1 + 2 <= Len(text) + 1
    BY <1>8, <1>14, <1>17
  <2>6. Holds(text, p + 1, w)
    BY <2>3, <2>4, <2>5 DEF Holds
  <2>7. SubSeq(text, p + 1, p + 1 + Len(w) - 1) = w
    BY <2>1, <2>6, HoldsRead
  <2>8. p + 1 + Len(w) - 1 = p + 2
    BY <2>3
  <2> QED
    BY <2>7, <2>8, Zenon DEF w, CallText
<1>22. ListAt(text, p + 4, p + n + 3) = Forwarded(m)
  <2>1. p + n + 3 = p + 4 + n - 1 /\ p + 4 \in Nat \ {0}
    BY <1>8
  <2>2. Forwarded(m) \in Seq(Items)
    BY ForwardedType
  <2> QED
    BY <1>12, <2>1, <2>2, ListIsRead DEF l, n
<1>23. (4 + n) + 3 = n + 7
  BY <1>8
<1> QED
  BY <1>8, <1>9, <1>14, <1>15, <1>18, <1>19, <1>20, <1>21, <1>22, <1>23
  DEF l, n

\* A wrapper is read as the function it was printed for, and the reader stands
\* behind it.
LEMMA WrapperIsRead ==
  ASSUME NEW m \in Method, NEW k, NEW text \in Seq(Token),
         NEW p \in Nat \ {0}, Holds(text, p, WrapperText(m, k))
  PROVE  FunctionAt(text, p) = [ function |-> Wrapper(m, k),
                                 next |-> p + Len(WrapperText(m, k)) ]
<1> DEFINE a == NameAt(m, p)
           b == OpenAt(m, k, p)
           d == CloseAt(m, k, p)
           e == BodyAt(m, k, p)
           last == e + Len(Body(m, k)) - 1
<1>1. /\ a \in Nat /\ b \in Nat /\ d \in Nat /\ e \in Nat
      /\ p <= a /\ a < b /\ b < d /\ d < e /\ d <= Len(text)
      /\ Holds(text, p, TemplateText(m)) /\ Holds(text, a, Declarator(m, k))
      /\ text[b] = "(" /\ Holds(text, b + 1, Listed(m.params))
      /\ text[d] = ")" /\ Holds(text, d + 1, m.trailing)
      /\ Holds(text, e, Body(m, k))
      /\ p + Len(WrapperText(m, k)) = e + Len(Body(m, k))
  BY Layout
<1>2. /\ b = a + Len(Declarator(m, k)) /\ d = b + 1 + Len(Listed(m.params))
      /\ e = d + 1 + Len(m.trailing)
  BY DEF OpenAt, CloseAt, BodyAt
<1>3. /\ Declarator(m, k) \in Seq(Token) /\ m.params \in Seq(Items)
      /\ m.trailing \in Seq(Token) /\ Listed(m.params) \in Seq(Token)
      /\ m.isTemplate \in BOOLEAN
      /\ \A i \in 1 .. Len(Declarator(m, k)) : Declarator(m, k)[i] \notin Marks
      /\ \A i \in 1 .. Len(Listed(m.params)) :
           Listed(m.params)[i] \notin Marks
      /\ \A i \in 1 .. Len(m.trailing) : m.trailing[i] \notin Marks
  BY DeclaratorFacts, MethodParts, ListedTokens
<1>4. Len(m.trailing) \in Nat /\ Len(Listed(m.params)) \in Nat
  <2>1. m.trailing \in Seq(Token) /\ Listed(m.params) \in Seq(Token)
    BY <1>3
  <2> QED
    BY <2>1
<1>5. DOMAIN text = 1 .. Len(text)
  OBVIOUS
<1> HIDE DEF a, b, d, e
<1>6. /\ a <= Len(text) /\ b <= Len(text) /\ Len(text) \in Nat
      /\ a \in Nat \ {0} /\ b + 1 \in Nat \ {0} /\ d + 1 \in Nat \ {0}
      /\ b \in Nat \ {0} /\ d \in Nat \ {0} /\ e \in Nat \ {0}
  BY <1>1
<1>7. /\ At(text, p) = "template<" <=> m.isTemplate
      /\ m.isTemplate =>
           /\ Find(text, p, {">"}) + 1 = a
           /\ ListAt(text, p + 1, a - 2) = m.tplParams
      /\ ~m.isTemplate => a = p
  <2>1. ASSUME ~m.isTemplate PROVE text[p] # "template<"
    <3>1. TemplateText(m) = <<>> /\ Len(<<>>) = 0
      BY <2>1 DEF TemplateText
    <3>2. a = p
      BY <3>1 DEF a, NameAt
    <3>3. /\ text[a + 1 - 1] = Declarator(m, k)[1]
          /\ 1 \in 1 .. Len(Declarator(m, k))
      BY <1>1, DeclaratorFacts DEF Holds
    <3>4. a + 1 - 1 = p
      BY <3>2
    <3> QED
      BY <1>3, <3>3, <3>4 DEF Marks
  <2> QED
    BY <1>1, <1>6, <2>1, HeadIsRead DEF a
<1>8. Find(text, a, {"("}) = b
  <2>1. \A i \in 1 .. Len(Declarator(m, k)) : Declarator(m, k)[i] \notin {"("}
    BY <1>3 DEF Marks
  <2>2. Declarator(m, k) \in Seq(Token) /\ Holds(text, a, Declarator(m, k))
    BY <1>1, <1>3
  <2>3. text[b] \in {"("}
    BY <1>1
  <2> QED
    BY <1>2, <1>6, <2>1, <2>2, <2>3, FindAfter
<1>9. Find(text, b, {")"}) = d
  <2>1. ASSUME NEW i \in b .. d - 1 PROVE text[i] \notin {")"}
    <3>1. CASE i = b
      BY <1>1, <3>1
    <3>2. CASE i # b
      <4>1. i - b \in 1 .. Len(Listed(m.params)) /\ b + 1 + (i - b) - 1 = i
        BY <1>1, <1>2, <3>2
      <4>2. text[i] = Listed(m.params)[i - b]
        BY <1>1, <4>1 DEF Holds
      <4> QED
        BY <1>3, <4>1, <4>2, Zenon DEF Marks
    <3> QED
      BY <3>1, <3>2
  <2>2. text[d] \in {")"}
    BY <1>1
  <2>3. b <= d
    BY <1>1
  <2> QED
    BY <1>1, <2>1, <2>2, <2>3, FindFirst
<1>10. /\ text[e] = IF k.withoutMethodBody THEN ";" ELSE "{"
      /\ e <= Len(text)
  <2>1. CASE k.withoutMethodBody
    <3>1. Body(m, k) = <<";">>
      BY <2>1 DEF Body
    <3>2. Len(<<";">>) = 1 /\ <<";">>[1] = ";"
      OBVIOUS
    <3> QED
      <4>1. Holds(text, e, <<";">>)
        BY <1>1, <3>1, Zenon
      <4>2. text[e] = <<";">>[1] /\ e <= Len(text)
        BY <1>6, <3>2, <4>1, HoldsFirst
      <4> QED
        BY <2>1, <3>2, <4>2
  <2>2. CASE ~k.withoutMethodBody
    <3>1. Holds(text, e, Body(m, k))
      BY <1>1, Zenon
    <3>2. PICK n \in Nat : e + n + 6 <= Len(text)
      BY <1>6, <2>2, <3>1, BodyIsRead
    <3>3. text[e] = "{"
      BY <1>6, <2>2, <3>1, BodyIsRead, Zenon DEF OpenBrace
    <3>4. e <= Len(text)
      BY <1>6, <3>2
    <3> QED
      BY <2>2, <3>3, <3>4, Zenon
  <2> QED
    BY <2>1, <2>2
<1>11. Find(text, d, {";", "{"}) = e
  <2>1. ASSUME NEW i \in d .. e - 1 PROVE text[i] \notin {";", "{"}
    <3>1. CASE i = d
      BY <1>1, <3>1
    <3>2. CASE i # d
      <4>1. i - d \in 1 .. Len(m.trailing) /\ d + 1 + (i - d) - 1 = i
        <5>1. i \in d .. d + Len(m.trailing)
          <6>1. e - 1 = d + Len(m.trailing)
            <7>1. PICK n \in Nat : n = Len(m.trailing)
              BY <1>4
            <7>2. e = d + 1 + n
              BY <1>2, <7>1, Zenon
            <7>3. e - 1 = d + n
              BY <1>6, <7>2
            <7> QED
              BY <7>1, <7>3, Zenon
          <6> QED
            BY <6>1
        <5> QED
          BY <1>4, <1>6, <3>2, <5>1
      <4>2. text[i] = m.trailing[i - d]
        BY <1>1, <4>1 DEF Holds
      <4>3. m.trailing[i - d] \notin Marks
        BY <1>3, <4>1, Zenon
      <4> QED
        BY <4>2, <4>3 DEF Marks
    <3> QED
      BY <3>1, <3>2
  <2>2. text[e] \in {";", "{"}
    BY <1>10
  <2>3. d <= e
    BY <1>1
  <2> QED
    BY <1>1, <1>10, <2>1, <2>2, <2>3, FindFirst
<1>12. SubSeq(text, a, b - 1) = Declarator(m, k)
  <2> DEFINE v == Declarator(m, k)
  <2>1. v \in Seq(Token) /\ Holds(text, a, v) /\ b = a + Len(v)
    BY <1>1, <1>2, <1>3
  <2> HIDE DEF v
  <2>2. SubSeq(text, a, a + Len(v) - 1) = v
    BY <1>6, <2>1, HoldsRead
  <2>3. a + Len(v) - 1 = b - 1
    BY <1>6, <2>1
  <2> QED
    BY <2>2, <2>3, Zenon DEF v
<1>13. ListAt(text, b + 1, d - 1) = m.params
  <2> DEFINE v == m.params
  <2>1. v \in Seq(Items) /\ Holds(text, b + 1, Listed(v))
        /\ d = b + 1 + Len(Listed(v))
    BY <1>1, <1>2, <1>3
  <2> HIDE DEF v
  <2>2. Len(Listed(v)) \in Nat
    BY <1>4 DEF v
  <2>3. b + 1 + Len(Listed(v)) - 1 = d - 1
    BY <1>6, <2>1, <2>2
  <2> QED
    BY <1>6, <2>1, <2>3, ListIsRead DEF v
<1>14. SubSeq(text, d + 1, e - 1) = m.trailing
  <2> DEFINE v == m.trailing
  <2>1. v \in Seq(Token) /\ Holds(text, d + 1, v) /\ e = d + 1 + Len(v)
    BY <1>1, <1>2, <1>3
  <2> HIDE DEF v
  <2>2. SubSeq(text, d + 1, d + 1 + Len(v) - 1) = v
    BY <1>6, <2>1, HoldsRead
  <2>3. d + 1 + Len(v) - 1 = e - 1
    BY <1>6, <2>1
  <2> QED
    BY <2>2, <2>3, Zenon DEF v
<1>15. At(text, e) = text[e]
  <2>1. e \in DOMAIN text
    <3>1. e <= Len(text)
      BY <1>10
    <3> QED
      BY <1>5, <1>6, <3>1
  <2> QED
    BY <2>1, Zenon DEF At
<1> DEFINE templated == At(text, p) = "template<"
           start == IF templated THEN Find(text, p, {">"}) + 1 ELSE p
           open == Find(text, start, {"("})
           close == Find(text, open, {")"})
           stop == Find(text, close, {";", "{"})
           hasBody == At(text, stop) = "{"
           final == IF hasBody THEN Find(text, stop, {"}"}) ELSE stop
           tplParams ==
             IF templated THEN ListAt(text, p + 1, start - 2) ELSE <<>>
           calls ==
             IF hasBody
               THEN SubSeq(text, stop + 1, Find(text, stop, {"("}) - 1)
               ELSE <<>>
           args ==
             IF hasBody THEN ListAt(text, Find(text, stop, {"("}) + 1,
                                    Find(text, stop, {")"}) - 1)
                        ELSE <<>>
<1>16. FunctionAt(text, p) =
         [ function |->
             [ tplParams |-> tplParams,
               isTemplate |-> templated,
               declarator |-> SubSeq(text, start, open - 1),
               params |-> ListAt(text, open + 1, close - 1),
               trailing |-> SubSeq(text, close + 1, stop - 1),
               calls |-> calls,
               args |-> args,
               end |-> At(text, final) ],
           next |-> final + 1 ]
  BY DEF FunctionAt
<1>17. start = a
  BY <1>7, Zenon
<1>18. open = b
  BY <1>8, <1>17, Zenon
<1>19. close = d
  BY <1>9, <1>18, Zenon
<1>20. stop = e
  BY <1>11, <1>19, Zenon
<1>21. tplParams = IF m.isTemplate THEN m.tplParams ELSE <<>>
  BY <1>7, <1>17, Zenon
<1>22. templated = m.isTemplate
  BY <1>3, <1>7
<1>23. Wrapper(m, k) =
         [ tplParams |-> tplParams,
           isTemplate |-> templated,
           declarator |-> SubSeq(text, start, open - 1),
           params |-> ListAt(text, open + 1, close - 1),
           trailing |-> SubSeq(text, close + 1, stop - 1),
           calls |-> IF k.withoutMethodBody THEN <<>> ELSE CallText(m),
           args |-> IF k.withoutMethodBody THEN <<>> ELSE Forwarded(m),
           end |-> IF k.withoutMethodBody THEN ";" ELSE "}" ]
  <2> HIDE DEF templated, start, open, close, stop, tplParams
  <2>1. SubSeq(text, start, open - 1) = Declarator(m, k)
    BY <1>12, <1>17, <1>18, Zenon
  <2>2. ListAt(text, open + 1, close - 1) = m.params
    BY <1>13, <1>18, <1>19, Zenon
  <2>3. SubSeq(text, close + 1, stop - 1) = m.trailing
    BY <1>14, <1>19, <1>20, Zenon
  <2> QED
    BY <1>21, <1>22, <2>1, <2>2, <2>3 DEF Wrapper, CallText
<1> HIDE DEF templated, start, open, close, stop, tplParams
<1>24. /\ calls = IF k.withoutMethodBody THEN <<>> ELSE CallText(m)
       /\ args = IF k.withoutMethodBody THEN <<>> ELSE Forwarded(m)
       /\ At(text, final) = IF k.withoutMethodBody THEN ";" ELSE "}"
       /\ final + 1 = p + Len(WrapperText(m, k))
  <2>1. CASE k.withoutMethodBody
    <3>1. ~hasBody
      BY <1>10, <1>15, <1>20, <2>1
    <3>2. final = e
      BY <1>20, <3>1, Zenon
    <3>3. Len(Body(m, k)) = 1
      <4>1. Body(m, k) = <<";">>
        BY <2>1 DEF Body
      <4>2. Len(<<";">>) = 1
        OBVIOUS
      <4> QED
        BY <4>1, <4>2, Zenon
    <3>4. final + 1 = p + Len(WrapperText(m, k))
      BY <1>1, <3>2, <3>3, Zenon
    <3>5. At(text, final) = ";"
      BY <1>10, <1>15, <2>1, <3>2, Zenon
    <3> QED
      BY <2>1, <3>1, <3>4, <3>5, Zenon
  <2>2. CASE ~k.withoutMethodBody
    <3>1. hasBody /\ ~k.withoutMethodBody
      BY <1>10, <1>15, <1>20, <2>2
    <3>2. Holds(text, e, Body(m, k))
      BY <1>1, <2>2, Zenon
    <3> DEFINE n == ArgsLength(m)
    <3> HIDE DEF n
    <3>3. /\ n \in Nat /\ Len(Body(m, k)) = n + 7
          /\ e + n + 6 <= Len(text)
          /\ text[e + n + 6] = CloseBrace
          /\ Find(text, e, {"("}) = e + 3
          /\ Find(text, e, {")"}) = e + n + 4
          /\ Find(text, e, {CloseBrace}) = e + n + 6
          /\ SubSeq(text, e + 1, e + 2) = CallText(m)
          /\ ListAt(text, e + 4, e + n + 3) = Forwarded(m)
      <4>1. e \in Nat \ {0}
        BY <1>6
      <4> QED
        BY <2>2, <3>2, <4>1, BodyIsRead DEF n
    <3>4. /\ e + 3 - 1 = e + 2 /\ e + 3 + 1 = e + 4
          /\ e + n + 4 - 1 = e + n + 3
          /\ e + n + 6 + 1 = e + (n + 7) /\ e + n + 6 \in 1 .. Len(text)
      <4>1. n \in Nat /\ e + n + 6 <= Len(text)
        BY <3>3
      <4> QED
        BY <1>6, <4>1
    <3>5. final = e + n + 6
      BY <1>20, <3>1, <3>3, Zenon DEF CloseBrace
    <3>6. At(text, final) = "}"
      <4>1. e + n + 6 \in DOMAIN text
        BY <1>5, <3>4
      <4> QED
        BY <3>3, <3>5, <4>1, Zenon DEF At, CloseBrace
    <3>7. final + 1 = p + Len(WrapperText(m, k))
      BY <1>1, <2>2, <3>3, <3>4, <3>5, Zenon
    <3>8. calls = CallText(m)
      <4>1. calls = SubSeq(text, e + 1, Find(text, e, {"("}) - 1)
        BY <1>20, <3>1, Zenon
      <4>2. Find(text, e, {"("}) - 1 = e + 2
        <5>1. Find(text, e, {"("}) = e + 3
          BY <3>3
        <5> QED
          BY <1>6, <5>1
      <4> QED
        BY <3>3, <4>1, <4>2, Zenon
    <3>9. args = Forwarded(m)
      <4>1. args = ListAt(text, Find(text, e, {"("}) + 1,
                          Find(text, e, {")"}) - 1)
        BY <1>20, <3>1, Zenon
      <4>2. /\ Find(text, e, {"("}) + 1 = e + 4
            /\ Find(text, e, {")"}) - 1 = e + n + 3
        <5>1. Find(text, e, {"("}) = e + 3 /\ Find(text, e, {")"}) = e + n + 4
          BY <3>3
        <5>2. n \in Nat
          BY <3>3
        <5> QED
          BY <1>6, <5>1, <5>2
      <4> QED
        BY <3>3, <4>1, <4>2, Zenon
    <3> QED
      BY <3>1, <3>6, <3>7, <3>8, <3>9, Zenon
  <2> QED
    BY <2>1, <2>2
<1> HIDE DEF calls, args, final
<1> QED
  BY <1>16, <1>23, <1>24, Zenon DEF CallText

=============================================================================
