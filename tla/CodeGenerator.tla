---------------------------- MODULE CodeGenerator ----------------------------
(***************************************************************************)
(* How the wrappers of a class are printed: the loop over the reflected    *)
(* methods in pimplTooling::injectPimplMethodCalls (src/src/Tooling.cc)    *)
(* and the loops of expandTemplateNames and methodParamDecls               *)
(* (src/src/CodeGenerator.cc) that it calls.                               *)
(*                                                                         *)
(* The annotations of one class are printed one after the other from the   *)
(* same list of methods.  Two conditions of the annotation, independent of *)
(* each other, decide what is printed: whether it names an interface, and  *)
(* whether it wants bodies.  A text is a sequence of tokens; a token is    *)
(* what the printers of flexlib deliver in one piece, or punctuation.      *)
(* White space is left out.                                                *)
(***************************************************************************)
EXTENDS Integers, Sequences, FiniteSetsExt

CONSTANTS
  MethodLists,  \* values of reflectedClass->methods
  Items,        \* MethodParamInfo.fullDecl and TemplateParamInfo.tplDeclName
  NameOf,       \* parameter declaration |-> the name of the parameter
  MethodNames,
  Qualifiers,   \* what may come before and after a declarator: types, const
  Interface,    \* interfaceParameterQualType, where there is one
  Injections    \* the annotations of the class, in the order of the handlers

Punctuation ==
  {"template<", ">", "::", "(", ",", ")", "{", "return impl_->", ";", "}"}

\* What injectPimplMethodCalls asks of the annotation.
Kind ==
  [ interface : BOOLEAN,             \* interfaceParameterQualType is not empty
    withoutMethodBody : BOOLEAN ]    \* without_method_body

Calls == DOMAIN Injections

Method ==
  [ name : MethodNames,
    isPimplMethod : BOOLEAN,
    isTemplate : BOOLEAN,
    tplParams : Seq(Items),
    params : Seq(Items),
    forwarding : Qualifiers,       \* printMethodForwarding
    trailing : Seq(Qualifiers) ]   \* printMethodTrailing

Words == Items \cup MethodNames \cup Qualifiers \cup {Interface}

ASSUME GeneratorAssumption ==
  /\ MethodLists \subseteq Seq(Method)
  /\ Injections \in Seq(Kind)
  /\ NameOf \in [Items -> Items]
  /\ Punctuation \cap Words = {}

Token == Punctuation \cup Words

VARIABLES
  methods,    \* reflectedClass->methods
  call,       \* the injection at work, or the end of Injections
  pc,         \* where the loop over the methods stands
  current,    \* position of the method at work
  item,       \* items that the range-for of the inner loop has visited
  paramIter,  \* the local counter that the separator is decided by
  out,        \* the result of the inner loop so far
  replacer    \* call |-> the text that replaces the annotation

vars == <<methods, call, pc, current, item, paramIter, out, replacer>>

TypeOK ==
  /\ methods \in MethodLists
  /\ call \in 1 .. Len(Injections) + 1
  /\ pc \in {"method", "template", "signature", "params"}
  /\ current \in 1 .. Len(methods) + 1
  /\ pc # "method" => call \in Calls /\ current <= Len(methods)
  /\ item \in Nat
  /\ paramIter \in Nat
  /\ out \in Seq(Token)
  /\ replacer \in [Calls -> Seq(Token)]

Init ==
  /\ methods \in MethodLists
  /\ call = 1
  /\ pc = "method"
  /\ current = 1
  /\ item = 0
  /\ paramIter = 0
  /\ out = <<>>
  /\ replacer = [c \in Calls |-> <<>>]

-----------------------------------------------------------------------------
(* expandTemplateNames and methodParamDecls: one loop, over tplParams or   *)
(* over params.                                                            *)

method == methods[current]
kind == Injections[call]

\* The argument of the inner loop.
ItemsOf(m, place) == IF place = "template" THEN m.tplParams ELSE m.params

Printing == pc \in {"template", "params"}

EnterLoop(place) ==
  /\ pc' = place
  /\ item' = 0
  /\ paramIter' = 0
  /\ out' = <<>>

\* clang_utils::kSeparatorCommaAndWhitespace
Comma == ","

\* Mutant of Separator: the counter is compared before it is incremented.
SeparatorEarly(printed, size) ==
  IF printed - 1 # size THEN <<Comma>> ELSE <<>>

\* It goes after all items but the last.
Separator(printed, size) == IF printed # size THEN <<Comma>> ELSE <<>>

PrintItem ==
  LET items == ItemsOf(method, pc)
  IN /\ Printing
     /\ item < Len(items)
     /\ item' = item + 1
     /\ paramIter' = paramIter + 1
     /\ out' = out \o <<items[item']>> \o Separator(paramIter', Len(items))
     /\ UNCHANGED <<methods, call, pc, current, replacer>>

Printed == Printing /\ item = Len(ItemsOf(method, pc))

-----------------------------------------------------------------------------
(* The loop of injectPimplMethodCalls.                                     *)

Emit(text) == replacer' = [replacer EXCEPT ![call] = @ \o text]

\* Mutant of SkipMethod: the position is advanced twice.
SkipMethodTwice ==
  /\ pc = "method" /\ call \in Calls /\ current <= Len(methods)
  /\ ~method.isPimplMethod
  /\ current' = current + 2
  /\ UNCHANGED <<methods, call, pc, item, paramIter, out, replacer>>

SkipMethod ==
  /\ pc = "method" /\ call \in Calls /\ current <= Len(methods)
  /\ ~method.isPimplMethod
  /\ current' = current + 1
  /\ UNCHANGED <<methods, call, pc, item, paramIter, out, replacer>>

BeginMethod ==
  /\ pc = "method" /\ call \in Calls /\ current <= Len(methods)
  /\ method.isPimplMethod
  /\ IF method.isTemplate
       THEN Emit(<<"template<">>) /\ EnterLoop("template")
       ELSE pc' = "signature" /\ UNCHANGED <<item, paramIter, out, replacer>>
  /\ UNCHANGED <<methods, call, current>>

EndTemplate ==
  /\ pc = "template" /\ Printed
  /\ Emit(out \o <<">">>)
  /\ pc' = "signature"
  /\ UNCHANGED <<methods, call, current, item, paramIter, out>>

Declarator(m, k) ==
  <<m.forwarding>> \o (IF k.interface THEN <<Interface, "::">> ELSE <<>>)
    \o <<m.name>>

PrintSignature ==
  /\ pc = "signature"
  /\ Emit(Declarator(method, kind) \o <<"(">>)
  /\ EnterLoop("params")
  /\ UNCHANGED <<methods, call, current>>

\* The items with commas between them.
Listed(items) ==
  [ j \in 1 .. (IF items = <<>> THEN 0 ELSE 2 * Len(items) - 1) |->
      IF j % 2 = 1 THEN items[(j + 1) \div 2] ELSE Comma ]

\* clang_utils::forwardMethodParamNames
Forwarded(m) == [j \in DOMAIN m.params |-> NameOf[m.params[j]]]

\* Mutant of Body: a declaration ends without its semicolon.
BodyUnterminated(m, k) ==
  IF k.withoutMethodBody
    THEN <<>>
    ELSE <<"{", "return impl_->", m.name, "(">> \o Listed(Forwarded(m))
           \o <<")", ";", "}">>

Body(m, k) ==
  IF k.withoutMethodBody
    THEN <<";">>
    ELSE <<"{", "return impl_->", m.name, "(">> \o Listed(Forwarded(m))
           \o <<")", ";", "}">>

EndMethod ==
  /\ pc = "params" /\ Printed
  /\ Emit(out \o <<")">> \o method.trailing \o Body(method, kind))
  /\ pc' = "method"
  /\ current' = current + 1
  /\ UNCHANGED <<methods, call, item, paramIter, out>>

\* replaceWith; the next injection starts over with the same methods.
EndCall ==
  /\ pc = "method" /\ call \in Calls /\ current = Len(methods) + 1
  /\ call' = call + 1
  /\ current' = 1
  /\ UNCHANGED <<methods, pc, item, paramIter, out, replacer>>

Next ==
  \/ SkipMethod \/ BeginMethod \/ PrintItem \/ EndTemplate
  \/ PrintSignature \/ EndMethod \/ EndCall

Spec == Init /\ [][Next]_vars

-----------------------------------------------------------------------------
(* What a reader of the text sees who knows only the grammar of C++.       *)

At(text, p) == IF p \in DOMAIN text THEN text[p] ELSE "end of text"

\* The first position from p on that holds one of the given tokens.
Find(text, p, tokens) ==
  LET found == {q \in p .. Len(text) : text[q] \in tokens}
  IN IF found = {} THEN Len(text) + 1 ELSE Min(found)

\* The items of a list with commas between them, from position p to q.
ListAt(text, p, q) ==
  LET size == IF q < p THEN 0 ELSE q - p + 1
      wellFormed ==
        /\ size = 0 \/ size % 2 = 1
        /\ \A j \in p .. q :
             IF (j - p) % 2 = 1 THEN text[j] = "," ELSE text[j] \in Items
  IN IF wellFormed
       THEN [j \in 1 .. (size + 1) \div 2 |-> text[p + 2 * j - 2]]
       ELSE <<"malformed">>

\* The member function that is declared or defined from position p on.
FunctionAt(text, p) ==
  LET templated == At(text, p) = "template<"
      start == IF templated THEN Find(text, p, {">"}) + 1 ELSE p
      open == Find(text, start, {"("})
      close == Find(text, open, {")"})
      stop == Find(text, close, {";", "{"})
      hasBody == At(text, stop) = "{"
      last == IF hasBody THEN Find(text, stop, {"}"}) ELSE stop
  IN [ function |->
         [ tplParams |->
             IF templated THEN ListAt(text, p + 1, start - 2) ELSE <<>>,
           isTemplate |-> templated,
           declarator |-> SubSeq(text, start, open - 1),
           params |-> ListAt(text, open + 1, close - 1),
           trailing |-> SubSeq(text, close + 1, stop - 1),
           calls |->
             IF hasBody THEN SubSeq(text, stop + 1, Find(text, stop, {"("}) - 1)
                        ELSE <<>>,
           args |->
             IF hasBody THEN ListAt(text, Find(text, stop, {"("}) + 1,
                                    Find(text, stop, {")"}) - 1)
                        ELSE <<>>,
           end |-> At(text, last) ],
       next |-> last + 1 ]

\* Where the text of a function may begin.
Cuts(text) ==
  {1} \cup {q + 1 : q \in {i \in DOMAIN text : text[i] \in {";", "}"}}}

-----------------------------------------------------------------------------
(* Properties.                                                             *)

\* What users of method m need to find in the text of an annotation of kind k.
Wrapper(m, k) ==
  [ isTemplate |-> m.isTemplate,
    tplParams |-> IF m.isTemplate THEN m.tplParams ELSE <<>>,
    declarator |-> Declarator(m, k),
    params |-> m.params,
    trailing |-> m.trailing,
    calls |-> IF k.withoutMethodBody THEN <<>> ELSE <<"return impl_->", m.name>>,
    args |-> IF k.withoutMethodBody THEN <<>> ELSE Forwarded(m),
    end |-> IF k.withoutMethodBody THEN ";" ELSE "}" ]

\* From cut[1] on the text reads as the wrappers of the first n methods, each
\* ending where the next begins.
ReadsAs(text, k, n, cut) ==
  /\ cut[1] = 1
  /\ cut[n + 1] = Len(text) + 1
  /\ \A j \in 1 .. n :
       IF methods[j].isPimplMethod
         THEN FunctionAt(text, cut[j]) =
                [function |-> Wrapper(methods[j], k), next |-> cut[j + 1]]
         ELSE cut[j + 1] = cut[j]

Complete(c) == c < call

\* Every text reads back as one function per ordinary method, in the order of
\* the class, with its own template names, parameters and qualifiers, and
\* every definition forwards to the method of its own name: nothing of one
\* method or of one inner loop leaks into the next (injectPimplMethodCalls).
TextReadsBack ==
  \A c \in Calls :
    Complete(c) =>
      \E cut \in [1 .. Len(methods) + 1 -> Cuts(replacer[c])] :
        ReadsAs(replacer[c], Injections[c], Len(methods), cut)

\* Text o holds the first k items, with separators between them and, as long
\* as the list is not complete, one at the end.
Alternates(items, k, o) ==
  /\ k <= Len(items)
  /\ Len(o) = IF 0 < k /\ k = Len(items) THEN 2 * k - 1 ELSE 2 * k
  /\ \A j \in 1 .. k :
       /\ o[2 * j - 1] = items[j]
       /\ 2 * j <= Len(o) => o[2 * j] = Comma

\* "input: vector<a, b, c> output: "a, b, c"": after every iteration the
\* items printed so far alternate with separators, and only a list that is
\* not complete ends with one (expandTemplateNames, methodParamDecls).
ListsAlternate == Printing => Alternates(ItemsOf(method, pc), item, out)

=============================================================================
