--------------------------- MODULE KdlWriterProofs ---------------------------
(***************************************************************************)
(* What the emitter keeps while its calls may come in any order and its    *)
(* sink may fail in any of them: for every set of strings, values and      *)
(* options, every capacity of the sink and every depth of nesting.  What   *)
(* ckdl-cat makes of it, for every event stream that keeps the promises    *)
(* of KdlEvents and every number of properties: the one Boolean and the    *)
(* emitter's depth are enough to know where the braces of every node are.  *)
(* And what the parser makes of the text: the events that went into it.    *)
(*                                                                         *)
(* Each function of the emitter is taken as a step from one state of the   *)
(* emitter to the next that keeps it in step with the text written so far  *)
(* (InStep); the proofs about ckdl-cat rest on the same lemmas.            *)
(*                                                                         *)
(* The round trip needs a third party, a reader that knows nothing of      *)
(* either program but where in a line it stands, in how many blocks, and   *)
(* which events it is owed (Places).  A function of the emitter writes a   *)
(* Path from one place to another; a lexeme that moves the reader          *)
(* moves the parser with it, which reports what the reader crosses off its *)
(* list (Stands, AsWritten).                                               *)
(***************************************************************************)
EXTENDS KdlRoundTrip, KdlProplistProofs

-----------------------------------------------------------------------------
(* Lexemes and how many braces are among them. *)

LexemeTypes == {"WORD", "STRING", "WHITESPACE", "NEWLINE", "EQUALS", "START_TYPE",
                "END_TYPE", "START_CHILDREN", "END_CHILDREN"}
LexemeClasses == {"none", "either", "keywordV1", "keywordV2", "onlyV1", "onlyV2", "number"}
Lexemes == [type : LexemeTypes, class : LexemeClasses]
Braces == {"START_CHILDREN", "END_CHILDREN"}

LEMMA CountIsNatural ==
    ASSUME NEW s \in Seq(Lexemes), NEW type
    PROVE  Count(type, s) \in Nat
<1> DEFINE at == {i \in 1..Len(s) : s[i].type = type}
<1>1. IsFiniteSet(1..Len(s)) BY LenProperties, FS_Interval
<1>2. IsFiniteSet(at) BY <1>1, FS_Subset
<1> HIDE DEF at
<1>3. Cardinality(at) \in Nat BY <1>2, FS_CardinalityType
<1> QED BY <1>3 DEF Count, at

LEMMA CountNone ==
    ASSUME NEW s, NEW type, \A i \in 1..Len(s) : s[i].type # type
    PROVE  Count(type, s) = 0
<1>1. {i \in 1..Len(s) : s[i].type = type} = {} OBVIOUS
<1> QED BY <1>1, FS_EmptySet DEF Count

LEMMA CountOne ==
    ASSUME NEW s, NEW type, NEW n \in 1..Len(s),
           \A i \in 1..Len(s) : s[i].type = type <=> i = n
    PROVE  Count(type, s) = 1
<1>1. {i \in 1..Len(s) : s[i].type = type} = {n} OBVIOUS
<1> QED BY <1>1, FS_Singleton DEF Count

LEMMA CountOfBoth ==
    ASSUME NEW s \in Seq(Lexemes), NEW t \in Seq(Lexemes), NEW type
    PROVE  Count(type, s \o t) = Count(type, s) + Count(type, t)
<1> DEFINE n == Len(s)
           m == Len(t)
           A == {i \in 1..n : s[i].type = type}
           B == {i \in 1..m : t[i].type = type}
           C == {i \in 1..(n + m) : (s \o t)[i].type = type}
           shifted == {n + i : i \in B}
<1>1. n \in Nat /\ m \in Nat BY LenProperties
<1>2. /\ Len(s \o t) = n + m
      /\ \A i \in 1..(n + m) : (s \o t)[i] = IF i <= n THEN s[i] ELSE t[i - n]
  BY ConcatProperties
<1>3. C = A \cup shifted
  <2>1. ASSUME NEW i \in C PROVE i \in A \cup shifted
    <3>1. CASE i <= n BY <1>1, <1>2, <3>1
    <3>2. CASE i > n
      <4>1. i - n \in 1..m /\ t[i - n].type = type /\ i = n + (i - n)
        BY <1>1, <1>2, <3>2
      <4> QED BY <4>1
    <3> QED BY <1>1, <3>1, <3>2
  <2>2. ASSUME NEW i \in A PROVE i \in C BY <1>1, <1>2
  <2>3. ASSUME NEW i \in B PROVE n + i \in C
    <3>1. n + i \in 1..(n + m) /\ ~(n + i <= n) /\ n + i - n = i BY <1>1
    <3> QED BY <1>2, <3>1
  <2> QED BY <2>1, <2>2, <2>3
<1>4. A \cap shifted = {} BY <1>1
<1>5. IsFiniteSet(A) /\ IsFiniteSet(B)
  <2>1. IsFiniteSet(1..n) /\ IsFiniteSet(1..m) BY <1>1, FS_Interval
  <2> QED BY <2>1, FS_Subset
<1>6. IsFiniteSet(shifted) /\ Cardinality(shifted) = Cardinality(B)
  <2> DEFINE f == [i \in B |-> n + i]
  <2>1. f \in [B -> shifted] OBVIOUS
  <2>2. \A i, j \in B : f[i] = f[j] => i = j BY <1>1
  <2>3. \A k \in shifted : \E i \in B : f[i] = k OBVIOUS
  <2>4. f \in Bijection(B, shifted)
    BY <2>1, <2>2, <2>3 DEF Bijection, Injection, Surjection, IsInjective
  <2>5. ExistsBijection(B, shifted) BY <2>4 DEF ExistsBijection
  <2> HIDE DEF B, shifted, f
  <2> QED BY <1>5, <2>5, FS_Bijection
<1>7. Count(type, s) = Cardinality(A) /\ Count(type, t) = Cardinality(B)
      /\ Count(type, s \o t) = Cardinality(C)
  BY <1>2 DEF Count
<1> HIDE DEF A, B, C, shifted
<1>8. Cardinality(C) = Cardinality(A) + Cardinality(shifted) - Cardinality({})
  BY <1>3, <1>4, <1>5, <1>6, FS_Union
<1>9. Cardinality(A) \in Nat /\ Cardinality(B) \in Nat BY <1>5, FS_CardinalityType
<1> QED BY <1>6, <1>7, <1>8, <1>9, FS_EmptySet

-----------------------------------------------------------------------------
(* What is written: only the texts of braces count, and what comes last. *)

\* No brace among them, and something other than a newline at the end.
Inline(s) ==
    /\ s \in Seq(Lexemes) /\ s # <<>>
    /\ \A i \in 1..Len(s) : s[i].type \notin Braces
    /\ s[Len(s)].type # "NEWLINE"

LEMMA MarkIsLexeme ==
    ASSUME NEW type \in LexemeTypes
    PROVE  Mark(type) \in Lexemes /\ Mark(type).type = type
BY DEF Mark, Lexeme, Lexemes, LexemeClasses

LEMMA BareStringIsInline ==
    ASSUME NEW string \in TextKinds, NEW opt
    PROVE  /\ BareString(string, opt) \in Lexemes
           /\ BareString(string, opt).type \in {"WORD", "STRING"}
<1>1. string # "spaced" => WordClass[string] \in LexemeClasses
  <2>1. /\ WordClass["plain"] = "either" /\ WordClass["unicode"] = "either"
        /\ WordClass["keyword"] = "keywordV1" /\ WordClass["special"] = "onlyV1"
        /\ WordClass["numeric"] = "number" /\ WordClass["hash"] = "onlyV1"
        /\ WordClass["newer"] = "onlyV2"
    BY DEF WordClass
  <2> QED BY <2>1 DEF TextKinds, LexemeClasses
<1>2. "either" \in LexemeClasses /\ "WORD" \in LexemeTypes /\ "STRING" \in LexemeTypes
  BY DEF LexemeClasses, LexemeTypes
<1>3. \A v : IsIdentifier(string, v) => string # "spaced" BY DEF IsIdentifier
<1> QED BY <1>1, <1>2, <1>3 DEF BareString, QuotedString, Lexeme, Lexemes

AllValues == [type : {"STRING", "NUMBER", "INFINITE", "KEYWORD"},
              text : TextKinds, type_annotation : TextKinds \cup {None}]

LEMMA ValueLexemeIsInline ==
    ASSUME NEW v \in AllValues, NEW opt \in Options
    PROVE  /\ ValueLexeme(v, opt) \in Lexemes
           /\ ValueLexeme(v, opt).type \in {"WORD", "STRING"}
<1>1. v.text \in TextKinds /\ v.type \in {"STRING", "NUMBER", "INFINITE", "KEYWORD"}
  BY DEF AllValues
<1>2. opt.version \in {"v1", "v2"} BY OptionsAssumption
<1>3. /\ BareString(v.text, opt) \in Lexemes
      /\ BareString(v.text, opt).type \in {"WORD", "STRING"}
  BY <1>1, BareStringIsInline
<1> QED BY <1>1, <1>2, <1>3
        DEF ValueLexeme, QuotedString, Lexeme, Lexemes, LexemeTypes, LexemeClasses

\* Sequences of one and of three lexemes, and one lexeme behind others.
LEMMA InlineOne ==
    ASSUME NEW x \in Lexemes, x.type \notin Braces \cup {"NEWLINE"}
    PROVE  Inline(<<x>>)
BY DEF Inline

LEMMA InlineBehind ==
    ASSUME NEW s \in Seq(Lexemes), \A i \in 1..Len(s) : s[i].type \notin Braces,
           NEW t, Inline(t)
    PROVE  Inline(s \o t)
<1>1. t \in Seq(Lexemes) /\ t # <<>> /\ t[Len(t)].type # "NEWLINE"
      /\ \A i \in 1..Len(t) : t[i].type \notin Braces
  BY DEF Inline
<1>2. Len(s) \in Nat /\ Len(t) \in Nat /\ Len(t) > 0
  BY <1>1, LenProperties, EmptySeq
<1>3. /\ s \o t \in Seq(Lexemes) /\ Len(s \o t) = Len(s) + Len(t)
      /\ \A i \in 1..Len(s) + Len(t) :
            (s \o t)[i] = IF i <= Len(s) THEN s[i] ELSE t[i - Len(s)]
  BY <1>1, ConcatProperties
<1>4. s \o t # <<>> BY <1>2, <1>3, EmptySeq
<1>5. \A i \in 1..Len(s \o t) : (s \o t)[i].type \notin Braces
  <2> SUFFICES ASSUME NEW i \in 1..Len(s) + Len(t) PROVE (s \o t)[i].type \notin Braces
    BY <1>3
  <2>1. CASE i <= Len(s) BY <1>2, <1>3, <2>1
  <2>2. CASE i > Len(s)
    <3>1. i - Len(s) \in 1..Len(t) BY <1>2, <2>2
    <3> QED BY <1>1, <1>2, <1>3, <2>2, <3>1
  <2> QED BY <1>2, <2>1, <2>2
<1>6. (s \o t)[Len(s \o t)] = t[Len(t)]
  <2>1. Len(s) + Len(t) \in 1..Len(s) + Len(t) /\ ~(Len(s) + Len(t) <= Len(s))
        /\ Len(s) + Len(t) - Len(s) = Len(t)
    BY <1>2
  <2> QED BY <1>3, <2>1
<1> QED BY <1>1, <1>3, <1>4, <1>5, <1>6 DEF Inline

LEMMA AnnotationIsInline ==
    ASSUME NEW string \in TextKinds \cup {None}, NEW opt
    PROVE  /\ Annotation(string, opt) \in Seq(Lexemes)
           /\ \A i \in 1..Len(Annotation(string, opt)) :
                  Annotation(string, opt)[i].type \notin Braces
<1>1. CASE string = None BY <1>1, EmptySeq DEF Annotation
<1>2. CASE string # None
  <2>1. /\ BareString(string, opt) \in Lexemes
        /\ BareString(string, opt).type \in {"WORD", "STRING"}
    BY <1>2, BareStringIsInline
  <2>2. /\ Mark("START_TYPE") \in Lexemes /\ Mark("START_TYPE").type = "START_TYPE"
        /\ Mark("END_TYPE") \in Lexemes /\ Mark("END_TYPE").type = "END_TYPE"
    BY MarkIsLexeme DEF LexemeTypes
  <2>3. Annotation(string, opt) = <<Mark("START_TYPE"), BareString(string, opt), Mark("END_TYPE")>>
    BY <1>2 DEF Annotation
  <2> QED BY <2>1, <2>2, <2>3 DEF Braces
<1> QED BY <1>1, <1>2

LEMMA ValueIsInline ==
    ASSUME NEW v \in AllValues, NEW opt \in Options
    PROVE  Inline(Value(v, opt))
<1>1. v.type_annotation \in TextKinds \cup {None} BY DEF AllValues
<1> DEFINE a == Annotation(v.type_annotation, opt)
           x == ValueLexeme(v, opt)
<1>2. a \in Seq(Lexemes) /\ \A i \in 1..Len(a) : a[i].type \notin Braces
  BY <1>1, AnnotationIsInline
<1>3. x \in Lexemes /\ x.type \in {"WORD", "STRING"} BY ValueLexemeIsInline
<1>4. Value(v, opt) = Append(a, x) BY DEF Value
<1> HIDE DEF a, x
<1>5. Value(v, opt) = a \o <<x>> BY <1>2, <1>3, <1>4, AppendIsConcat
<1>6. Inline(<<x>>) BY <1>3, InlineOne DEF Braces
<1> QED BY <1>2, <1>5, <1>6, InlineBehind

-----------------------------------------------------------------------------
(* The state of an emitter in the middle of a call. *)

EmitterRecords ==
    [opt : Options, depth : Nat, start_of_line : BOOLEAN, out : Seq(Lexemes),
     room : Nat, ok : BOOLEAN, broken : BOOLEAN]

\* The text so far, when n braces were open and f said whether it ended in a newline at
\* the start of the call.
Open(e, n) == n + Count("START_CHILDREN", e.out) - Count("END_CHILDREN", e.out)
EndsLine(e, f) == IF e.out = <<>> THEN f ELSE Last(e.out).type = "NEWLINE"

InStep(e, n, f) ==
    ~e.broken => e.depth = Open(e, n) /\ (e.start_of_line <=> EndsLine(e, f))

\* A function of the emitter makes w of e.
Makes(e, w) ==
    /\ w \in EmitterRecords /\ w.opt = e.opt
    /\ ~e.ok => w = e
    /\ e.broken => w.broken
    /\ w.ok => w.broken = e.broken

LEMMA LexemesWritten ==
    ASSUME NEW e \in EmitterRecords, NEW s \in Seq(Lexemes)
    PROVE  /\ Makes(e, Write(e, s))
           /\ Write(e, s).depth = e.depth /\ Write(e, s).start_of_line = e.start_of_line
           /\ e.ok /\ Write(e, s).ok =>
                  Write(e, s).out = e.out \o s /\ Write(e, s).broken = e.broken
           /\ e.ok /\ ~Write(e, s).ok => Write(e, s).broken
<1> DEFINE taken == IF Len(s) <= e.room THEN Len(s) ELSE e.room
           part == SubSeq(s, 1, taken)
<1>1. Len(s) \in Nat /\ e.room \in Nat /\ e.out \in Seq(Lexemes) /\ e.ok \in BOOLEAN
      /\ e.broken \in BOOLEAN
  BY LenProperties DEF EmitterRecords
<1>2. taken \in 0..Len(s) /\ e.room - taken \in Nat BY <1>1
<1>3. part \in Seq(Lexemes)
  <2>1. \A i \in 1..taken : s[i] \in Lexemes BY <1>1, <1>2, ElementOfSeq
  <2> HIDE DEF taken
  <2> QED BY <1>2, <2>1, SubSeqProperties
<1>4. taken = Len(s) => part = s BY SubSeqFull
<1>5. e.out \o part \in Seq(Lexemes) BY <1>1, <1>3, ConcatProperties
<1>6. Write(e, s) =
        IF e.ok THEN [e EXCEPT !.out = @ \o part, !.room = @ - taken,
                               !.ok = taken = Len(s), !.broken = @ \/ taken < Len(s)]
                ELSE e
  BY DEF Write
<1> HIDE DEF taken, part
<1>7. CASE ~e.ok BY <1>6, <1>7 DEF Makes
<1>8. CASE e.ok
  <2>1. (taken = Len(s)) \in BOOLEAN /\ (e.broken \/ taken < Len(s)) \in BOOLEAN OBVIOUS
  <2>2. /\ Write(e, s) \in EmitterRecords
        /\ Write(e, s).out = e.out \o part
        /\ Write(e, s).ok <=> taken = Len(s)
        /\ Write(e, s).broken <=> e.broken \/ taken < Len(s)
        /\ Write(e, s).opt = e.opt /\ Write(e, s).depth = e.depth
        /\ Write(e, s).start_of_line = e.start_of_line
    BY <1>1, <1>2, <1>5, <1>6, <1>8, <2>1 DEF EmitterRecords
  <2>3. Write(e, s).ok => Write(e, s).out = e.out \o s /\ Write(e, s).broken = e.broken
    BY SMTT(60), <1>1, <1>2, <1>4, <2>2 DEF EmitterRecords
  <2>4. ~Write(e, s).ok => Write(e, s).broken BY <1>2, <2>2
  <2> QED BY <1>8, <2>2, <2>3, <2>4 DEF Makes
<1> QED BY <1>1, <1>7, <1>8

-----------------------------------------------------------------------------
(* What the functions of the emitter make of its state. *)

LEMMA MakesInTurn ==
    ASSUME NEW e, NEW x, NEW w, Makes(e, x), Makes(x, w)
    PROVE  Makes(e, w)
BY DEF Makes

\* A write that goes through adds its braces to those that are open.
LEMMA TextWritten ==
    ASSUME NEW e \in EmitterRecords, NEW s \in Seq(Lexemes), NEW n \in Int,
           e.ok, ~Write(e, s).broken
    PROVE  /\ Write(e, s).ok /\ ~e.broken /\ Write(e, s).out = e.out \o s
           /\ Open(e, n) \in Int
           /\ Open(Write(e, s), n) =
                  Open(e, n) + Count("START_CHILDREN", s) - Count("END_CHILDREN", s)
<1> DEFINE w == Write(e, s)
<1>1. Makes(e, w) /\ w.ok /\ w.out = e.out \o s /\ w.broken = e.broken BY LexemesWritten
<1>2. e.out \in Seq(Lexemes) BY DEF EmitterRecords
<1>3. \A type : /\ Count(type, e.out \o s) = Count(type, e.out) + Count(type, s)
                /\ Count(type, e.out) \in Nat /\ Count(type, s) \in Nat
  BY <1>2, CountOfBoth, CountIsNatural
<1> HIDE DEF w
<1> QED BY <1>1, <1>3 DEF w, Open

\* What was written last decides how the text ends.
LEMMA EndWritten ==
    ASSUME NEW t \in Seq(Lexemes), NEW s \in Seq(Lexemes), s # <<>>, NEW e, e.out = t \o s,
           NEW f
    PROVE  EndsLine(e, f) <=> s[Len(s)].type = "NEWLINE"
<1>1. Len(t) \in Nat /\ Len(s) \in Nat /\ Len(s) > 0 BY LenProperties, EmptySeq
<1>2. /\ t \o s \in Seq(Lexemes) /\ Len(t \o s) = Len(t) + Len(s)
      /\ \A i \in 1..Len(t) + Len(s) :
            (t \o s)[i] = IF i <= Len(t) THEN t[i] ELSE s[i - Len(t)]
  BY ConcatProperties
<1>3. t \o s # <<>> BY <1>1, <1>2, EmptySeq
<1>4. Len(t) + Len(s) \in 1..Len(t) + Len(s) /\ ~(Len(t) + Len(s) <= Len(t))
      /\ Len(t) + Len(s) - Len(t) = Len(s)
  BY <1>1
<1>5. Last(t \o s) = s[Len(s)] BY <1>2, <1>4 DEF Last
<1> QED BY <1>3, <1>5 DEF EndsLine

\* The beginning of a line may be written; something that is not a newline comes next.
Ready(e, n, f) ==
    IF e.ok THEN ~e.broken => e.depth = Open(e, n) /\ ~e.start_of_line
            ELSE InStep(e, n, f)

LEMMA InlineWritten ==
    ASSUME NEW e \in EmitterRecords, NEW n \in Int, NEW f \in BOOLEAN, Ready(e, n, f),
           NEW s, Inline(s)
    PROVE  /\ Makes(e, Write(e, s)) /\ InStep(Write(e, s), n, f)
           /\ Write(e, s).depth = e.depth /\ Write(e, s).start_of_line = e.start_of_line
           /\ e.ok /\ ~Write(e, s).ok => Write(e, s).broken
<1> DEFINE w == Write(e, s)
<1>1. s \in Seq(Lexemes) /\ s # <<>> /\ s[Len(s)].type # "NEWLINE" BY DEF Inline
<1>2. Count("START_CHILDREN", s) = 0 /\ Count("END_CHILDREN", s) = 0
  BY CountNone DEF Inline, Braces
<1>3. /\ Makes(e, w) /\ w.depth = e.depth /\ w.start_of_line = e.start_of_line
      /\ e.ok /\ ~w.ok => w.broken
  BY <1>1, LexemesWritten
<1>4. InStep(w, n, f)
  <2>1. CASE ~e.ok BY <1>3, <2>1 DEF Ready, Makes
  <2>2. CASE e.ok
    <3> SUFFICES ASSUME ~w.broken
                 PROVE  w.depth = Open(w, n) /\ (w.start_of_line <=> EndsLine(w, f))
      BY DEF InStep
    <3>1. /\ w.ok /\ ~e.broken /\ w.out = e.out \o s /\ Open(e, n) \in Int
          /\ Open(w, n) = Open(e, n) + 0 - 0
      BY <1>1, <1>2, <2>2, TextWritten
    <3>2. e.out \in Seq(Lexemes) BY DEF EmitterRecords
    <3> HIDE DEF w
    <3>3. EndsLine(w, f) <=> s[Len(s)].type = "NEWLINE" BY <1>1, <3>1, <3>2, EndWritten
    <3>4. e.depth = Open(e, n) /\ ~e.start_of_line BY <2>2, <3>1 DEF Ready
    <3> QED BY <1>1, <1>3, <3>1, <3>3, <3>4
  <2> QED BY <2>1, <2>2
<1> QED BY <1>3, <1>4

\* _emit_node_preamble ends the line before, indents, and leaves the line begun.
LEMMA PreambleWritten ==
    ASSUME NEW e \in EmitterRecords, NEW n \in Int, NEW f \in BOOLEAN, InStep(e, n, f)
    PROVE  /\ Makes(e, Preamble(e)) /\ Ready(Preamble(e), n, f)
           /\ Preamble(e).depth = e.depth
           /\ e.ok /\ ~Preamble(e).ok => Preamble(e).broken
           /\ Preamble(e).ok => ~Preamble(e).start_of_line
<1> DEFINE before == IF e.start_of_line THEN <<>> ELSE <<Mark("NEWLINE")>>
           s == before \o Indentation(e)
           w == Write(e, s)
<1>1. /\ Mark("NEWLINE") \in Lexemes /\ Mark("NEWLINE").type = "NEWLINE"
      /\ Mark("WHITESPACE") \in Lexemes /\ Mark("WHITESPACE").type = "WHITESPACE"
  BY MarkIsLexeme DEF LexemeTypes
<1>2. before \in Seq(Lexemes) /\ Indentation(e) \in Seq(Lexemes)
  BY <1>1, EmptySeq DEF Indentation
<1>3. s \in Seq(Lexemes) BY <1>2, ConcatProperties
<1>4. /\ Count("START_CHILDREN", s) = 0 /\ Count("END_CHILDREN", s) = 0
  <2> SUFFICES ASSUME NEW type \in Braces PROVE Count(type, s) = 0 BY DEF Braces
  <2>1. \A i \in 1..Len(before) : before[i].type # type
    <3>1. CASE e.start_of_line BY <3>1
    <3>2. CASE ~e.start_of_line BY <1>1, <3>2 DEF Braces
    <3> QED BY <3>1, <3>2
  <2>2. \A i \in 1..Len(Indentation(e)) : Indentation(e)[i].type # type
    <3>1. CASE e.opt.indent /\ e.depth > 0 BY <1>1, <3>1 DEF Braces, Indentation
    <3>2. CASE ~(e.opt.indent /\ e.depth > 0) BY <3>2 DEF Indentation
    <3> QED BY <3>1, <3>2
  <2> HIDE DEF before
  <2>3. Count(type, before) = 0 BY <2>1, CountNone
  <2>4. Count(type, Indentation(e)) = 0 BY <2>2, CountNone
  <2>5. Count(type, s) = 0 + 0 BY <1>2, <2>3, <2>4, CountOfBoth
  <2> QED BY <2>5
<1> HIDE DEF s
<1>5. /\ Makes(e, w) /\ w.depth = e.depth /\ w.start_of_line = e.start_of_line
      /\ e.ok /\ ~w.ok => w.broken
  BY <1>3, LexemesWritten
<1>6. Preamble(e) = IF w.ok THEN [w EXCEPT !.start_of_line = FALSE] ELSE w
  BY DEF Preamble, s
<1>7. e.ok /\ ~w.broken => /\ w.ok /\ ~e.broken /\ Open(e, n) \in Int
                           /\ Open(w, n) = Open(e, n) + 0 - 0
  BY <1>3, <1>4, TextWritten
<1> HIDE DEF w
<1>8. CASE w.ok
  <2>1. /\ Preamble(e) \in EmitterRecords
        /\ Preamble(e).opt = w.opt /\ Preamble(e).depth = w.depth
        /\ Preamble(e).out = w.out /\ Preamble(e).ok = w.ok
        /\ Preamble(e).broken = w.broken /\ Preamble(e).start_of_line = FALSE
    BY <1>5, <1>6, <1>8 DEF Makes, EmitterRecords
  <2>2. e.ok BY <1>5, <1>8 DEF Makes
  <2>3. Open(Preamble(e), n) = Open(w, n) BY <2>1 DEF Open
  <2>4. Ready(Preamble(e), n, f)
    <3> SUFFICES ASSUME ~w.broken PROVE w.depth = Open(w, n)
      BY <1>8, <2>1, <2>3 DEF Ready
    <3>1. ~e.broken /\ Open(e, n) \in Int /\ Open(w, n) = Open(e, n) BY <1>7, <2>2
    <3> QED BY <1>5, <3>1 DEF InStep
  <2>5. Makes(e, Preamble(e)) BY <1>5, <2>1, <2>2 DEF Makes
  <2> QED BY <1>5, <1>8, <2>1, <2>4, <2>5
<1>9. CASE ~w.ok
  <2>1. InStep(w, n, f) BY <1>5, <1>9 DEF Makes, InStep
  <2> QED BY <1>5, <1>6, <1>9, <2>1 DEF Ready
<1> QED BY <1>8, <1>9

LEMMA NodeEmitted ==
    ASSUME NEW e \in EmitterRecords, NEW n \in Int, NEW f \in BOOLEAN, InStep(e, n, f),
           NEW type \in TextKinds \cup {None}, NEW name \in TextKinds
    PROVE  /\ Makes(e, EmitNode(e, type, name)) /\ InStep(EmitNode(e, type, name), n, f)
           /\ EmitNode(e, type, name).depth = e.depth
           /\ e.ok /\ ~EmitNode(e, type, name).ok => EmitNode(e, type, name).broken
           /\ EmitNode(e, type, name).ok => ~EmitNode(e, type, name).start_of_line
<1> DEFINE a == Annotation(type, e.opt)
           x == BareString(name, e.opt)
           p == Preamble(e)
           w == EmitNode(e, type, name)
<1>1. Inline(Append(a, x))
  <2>1. a \in Seq(Lexemes) /\ \A i \in 1..Len(a) : a[i].type \notin Braces
    BY AnnotationIsInline
  <2>2. x \in Lexemes /\ x.type \in {"WORD", "STRING"} BY BareStringIsInline
  <2> HIDE DEF a, x
  <2>3. Append(a, x) = a \o <<x>> BY <2>1, <2>2, AppendIsConcat
  <2>4. Inline(<<x>>) BY <2>2, InlineOne DEF Braces
  <2> QED BY <2>1, <2>3, <2>4, InlineBehind
<1>2. /\ Makes(e, p) /\ Ready(p, n, f) /\ p.depth = e.depth
      /\ e.ok /\ ~p.ok => p.broken
      /\ p.ok => ~p.start_of_line
  BY PreambleWritten
<1>3. w = Write(p, Append(a, x)) BY DEF EmitNode
<1> HIDE DEF a, x, p, w
<1>4. p \in EmitterRecords BY <1>2 DEF Makes
<1>5. /\ Makes(p, w) /\ InStep(w, n, f) /\ w.depth = p.depth
      /\ w.start_of_line = p.start_of_line
      /\ p.ok /\ ~w.ok => w.broken
  BY <1>1, <1>2, <1>3, <1>4, InlineWritten
<1>6. Makes(e, w) BY <1>2, <1>5, MakesInTurn
<1>7. ~p.ok => ~w.ok BY <1>5 DEF Makes
<1>8. p.broken => w.broken BY <1>5 DEF Makes
<1> QED BY <1>2, <1>5, <1>6, <1>7, <1>8 DEF w

\* An argument or a property: its text goes behind that of a node.
LEMMA EntryEmitted ==
    ASSUME NEW e \in EmitterRecords, NEW n \in Int, NEW f \in BOOLEAN, InStep(e, n, f),
           e.ok /\ ~e.broken => ~e.start_of_line, NEW s, Inline(s)
    PROVE  /\ Makes(e, Write(e, s)) /\ InStep(Write(e, s), n, f)
           /\ Write(e, s).depth = e.depth /\ Write(e, s).start_of_line = e.start_of_line
           /\ e.ok /\ ~Write(e, s).ok => Write(e, s).broken
<1>1. Ready(e, n, f) BY DEF Ready, InStep
<1> QED BY <1>1, InlineWritten

LEMMA ArgIsInline ==
    ASSUME NEW v \in AllValues, NEW opt \in Options
    PROVE  Inline(<<Mark("WHITESPACE")>> \o Value(v, opt))
<1> DEFINE m == Mark("WHITESPACE")
<1>1. m \in Lexemes /\ m.type = "WHITESPACE" BY MarkIsLexeme DEF LexemeTypes
<1>2. Inline(Value(v, opt)) BY ValueIsInline
<1> HIDE DEF m
<1>3. <<m>> \in Seq(Lexemes) /\ \A i \in 1..Len(<<m>>) : <<m>>[i].type \notin Braces
  BY <1>1 DEF Braces
<1> QED BY <1>2, <1>3, InlineBehind DEF m

LEMMA PropertyIsInline ==
    ASSUME NEW v \in AllValues, NEW opt \in Options, NEW name \in TextKinds
    PROVE  Inline(<<Mark("WHITESPACE"), BareString(name, opt), Mark("EQUALS")>>
                  \o Value(v, opt))
<1> DEFINE m == Mark("WHITESPACE")
           q == Mark("EQUALS")
           x == BareString(name, opt)
<1>1. m \in Lexemes /\ m.type = "WHITESPACE" /\ q \in Lexemes /\ q.type = "EQUALS"
  BY MarkIsLexeme DEF LexemeTypes
<1>2. x \in Lexemes /\ x.type \in {"WORD", "STRING"} BY BareStringIsInline
<1>3. Inline(Value(v, opt)) BY ValueIsInline
<1> HIDE DEF m, q, x
<1>4. /\ <<m, x, q>> \in Seq(Lexemes)
      /\ \A i \in 1..Len(<<m, x, q>>) : <<m, x, q>>[i].type \notin Braces
  BY <1>1, <1>2 DEF Braces
<1> QED BY <1>3, <1>4, InlineBehind DEF m, q, x

\* kdl_start_emitting_children counts the level as it writes the brace.
LEMMA ChildrenStarted ==
    ASSUME NEW e \in EmitterRecords, NEW n \in Int, NEW f \in BOOLEAN, InStep(e, n, f)
    PROVE  /\ Makes(e, StartEmittingChildren(e)) /\ InStep(StartEmittingChildren(e), n, f)
           /\ e.ok => /\ StartEmittingChildren(e).depth = e.depth + 1
                      /\ StartEmittingChildren(e).start_of_line
           /\ e.ok /\ ~StartEmittingChildren(e).ok => StartEmittingChildren(e).broken
<1> DEFINE d == [e EXCEPT !.start_of_line = TRUE, !.depth = @ + 1]
           s == <<Mark("WHITESPACE"), Mark("START_CHILDREN"), Mark("NEWLINE")>>
           w == StartEmittingChildren(e)
<1>1. CASE ~e.ok BY <1>1 DEF StartEmittingChildren, Makes
<1>2. CASE e.ok
  <2>1. w = Write(d, s) BY <1>2 DEF StartEmittingChildren
  <2>2. /\ d \in EmitterRecords /\ d.ok /\ d.opt = e.opt /\ d.out = e.out
        /\ d.broken = e.broken /\ d.depth = e.depth + 1 /\ d.start_of_line = TRUE
    <3>1. e.depth + 1 \in Nat BY DEF EmitterRecords
    <3>2. d \in EmitterRecords BY <3>1 DEF EmitterRecords
    <3> QED BY <1>2, <3>2 DEF EmitterRecords
  <2>3. /\ s \in Seq(Lexemes) /\ Len(s) = 3 /\ s[1].type = "WHITESPACE"
        /\ s[2].type = "START_CHILDREN" /\ s[3].type = "NEWLINE"
    BY MarkIsLexeme DEF LexemeTypes
  <2> HIDE DEF w, d, s
  <2>4. Count("START_CHILDREN", s) = 1 /\ Count("END_CHILDREN", s) = 0
    <3>1. \A i \in 1..Len(s) : s[i].type = "START_CHILDREN" <=> i = 2 BY <2>3
    <3>2. \A i \in 1..Len(s) : s[i].type # "END_CHILDREN" BY <2>3
    <3>3. 2 \in 1..Len(s) BY <2>3
    <3> QED BY <3>1, <3>2, <3>3, CountOne, CountNone
  <2>5. /\ Makes(d, w) /\ w.depth = d.depth /\ w.start_of_line = d.start_of_line
        /\ ~w.ok => w.broken
    BY <2>1, <2>2, <2>3, LexemesWritten
  <2>6. Makes(e, w) BY <1>2, <2>2, <2>5 DEF Makes
  <2>7. InStep(w, n, f)
    <3> SUFFICES ASSUME ~w.broken
                 PROVE  w.depth = Open(w, n) /\ (w.start_of_line <=> EndsLine(w, f))
      BY DEF InStep
    <3>1. /\ ~d.broken /\ w.out = d.out \o s /\ Open(d, n) \in Int
          /\ Open(w, n) = Open(d, n) + 1 - 0
      <4>1. d.ok /\ ~Write(d, s).broken BY <2>1, <2>2
      <4>2. /\ ~d.broken /\ Write(d, s).out = d.out \o s /\ Open(d, n) \in Int
            /\ Open(Write(d, s), n) = Open(d, n) + Count("START_CHILDREN", s)
                                                 - Count("END_CHILDREN", s)
        BY <2>2, <2>3, <4>1, TextWritten
      <4> QED BY <2>1, <2>4, <4>2
    <3>2. Open(d, n) = Open(e, n) BY <2>2 DEF Open
    <3>3. e.depth = Open(e, n) BY <2>2, <3>1 DEF InStep
    <3>4. d.out \in Seq(Lexemes) BY <2>2 DEF EmitterRecords
    <3>5. s # <<>> BY <2>3
    <3>6. EndsLine(w, f) <=> s[Len(s)].type = "NEWLINE"
      BY <2>3, <3>1, <3>4, <3>5, EndWritten
    <3> QED BY <2>2, <2>3, <2>5, <3>1, <3>2, <3>3, <3>6
  <2> QED BY <2>2, <2>5, <2>6, <2>7 DEF w
<1> QED BY <1>1, <1>2

\* kdl_finish_emitting_children gives the level back before it writes the brace.
LEMMA ChildrenFinished ==
    ASSUME NEW e \in EmitterRecords, NEW n \in Int, NEW f \in BOOLEAN, InStep(e, n, f)
    PROVE  /\ Makes(e, FinishEmittingChildren(e)) /\ InStep(FinishEmittingChildren(e), n, f)
           /\ FinishEmittingChildren(e).depth <= e.depth
           /\ FinishEmittingChildren(e).ok =>
                  /\ e.depth > 0 /\ FinishEmittingChildren(e).depth = e.depth - 1
                  /\ FinishEmittingChildren(e).start_of_line
           /\ e.ok /\ e.depth > 0 /\ ~FinishEmittingChildren(e).ok =>
                  FinishEmittingChildren(e).broken
<1> DEFINE d == [e EXCEPT !.depth = @ - 1]
           p == Preamble(d)
           q == [p EXCEPT !.start_of_line = TRUE]
           s == <<Mark("END_CHILDREN"), Mark("NEWLINE")>>
           w == FinishEmittingChildren(e)
<1>0. e.depth \in Nat /\ e.ok \in BOOLEAN BY DEF EmitterRecords
<1>1. CASE ~e.ok
  <2>1. w = e BY <1>1 DEF FinishEmittingChildren
  <2> QED BY <1>0, <1>1, <2>1 DEF Makes
<1>2. CASE e.ok /\ e.depth = 0
  <2>1. w = [e EXCEPT !.ok = FALSE] BY <1>2 DEF FinishEmittingChildren
  <2>2. /\ w \in EmitterRecords /\ w.opt = e.opt /\ w.out = e.out /\ w.broken = e.broken
        /\ w.depth = e.depth /\ w.start_of_line = e.start_of_line /\ w.ok = FALSE
    BY <2>1 DEF EmitterRecords
  <2> HIDE DEF w
  <2>3. InStep(w, n, f) BY <2>2 DEF InStep, Open, EndsLine
  <2>4. Makes(e, w) BY <1>2, <2>2 DEF Makes
  <2> QED BY <1>0, <1>2, <2>2, <2>3, <2>4 DEF w
<1>3. CASE e.ok /\ e.depth > 0
  <2>1. /\ d \in EmitterRecords /\ d.ok /\ d.opt = e.opt /\ d.out = e.out
        /\ d.broken = e.broken /\ d.depth = e.depth - 1
        /\ d.start_of_line = e.start_of_line
    <3>1. e.depth - 1 \in Nat BY <1>0, <1>3
    <3>2. d \in EmitterRecords BY <3>1 DEF EmitterRecords
    <3> QED BY <1>3, <3>2 DEF EmitterRecords
  <2>2. /\ s \in Seq(Lexemes) /\ Len(s) = 2 /\ s # <<>>
        /\ s[1].type = "END_CHILDREN" /\ s[2].type = "NEWLINE"
    BY MarkIsLexeme DEF LexemeTypes
  <2>3. w = IF p.ok THEN Write(q, s) ELSE p BY <1>3 DEF FinishEmittingChildren
  <2> HIDE DEF d, s, w
  <2>4. InStep(d, n - 1, f) /\ n - 1 \in Int
    <3>1. \A type : Count(type, e.out) \in Nat BY CountIsNatural DEF EmitterRecords
    <3>2. Open(d, n - 1) = Open(e, n) - 1 BY <2>1, <3>1 DEF Open
    <3>3. EndsLine(d, f) <=> EndsLine(e, f) BY <2>1 DEF EndsLine
    <3> QED BY <2>1, <3>2, <3>3 DEF InStep
  <2>5. /\ Makes(d, p) /\ Ready(p, n - 1, f) /\ p.depth = d.depth
        /\ ~p.ok => p.broken
    BY <2>1, <2>4, PreambleWritten
  <2> HIDE DEF p
  <2>6. CASE ~p.ok
    <3>1. w = p /\ p.broken BY <2>3, <2>5, <2>6
    <3>2. Makes(e, w) /\ InStep(w, n, f) BY <1>3, <2>1, <2>5, <3>1 DEF Makes, InStep
    <3> QED BY <1>0, <1>3, <2>1, <2>5, <2>6, <3>1, <3>2 DEF w
  <2>7. CASE p.ok
    <3>1. /\ q \in EmitterRecords /\ q.ok /\ q.opt = e.opt /\ q.out = p.out
          /\ q.broken = p.broken /\ q.depth = e.depth - 1 /\ q.start_of_line = TRUE
      <4>1. p \in EmitterRecords BY <2>5 DEF Makes
      <4>2. q \in EmitterRecords BY <4>1 DEF EmitterRecords
      <4> QED BY <2>1, <2>5, <2>7, <4>1, <4>2 DEF EmitterRecords, Makes
    <3> HIDE DEF q
    <3>2. w = Write(q, s) BY <2>3, <2>7 DEF q
    <3>3. /\ Makes(q, w) /\ w.depth = q.depth /\ w.start_of_line = q.start_of_line
          /\ ~w.ok => w.broken
      BY <2>2, <3>1, <3>2, LexemesWritten
    <3>4. Makes(e, w)
      <4>1. w \in EmitterRecords /\ w.opt = e.opt BY <3>1, <3>3 DEF Makes
      <4>2. p.broken = e.broken BY <2>1, <2>5, <2>7 DEF Makes
      <4>3. /\ q.broken => w.broken
            /\ w.ok => w.broken = q.broken
        BY <3>3 DEF Makes
      <4> QED BY <1>3, <3>1, <4>1, <4>2, <4>3 DEF Makes
    <3>5. InStep(w, n, f)
      <4> SUFFICES ASSUME ~w.broken
                   PROVE  w.depth = Open(w, n) /\ (w.start_of_line <=> EndsLine(w, f))
        BY DEF InStep
      <4>1. Count("END_CHILDREN", s) = 1 /\ Count("START_CHILDREN", s) = 0
        <5>1. \A i \in 1..Len(s) : s[i].type = "END_CHILDREN" <=> i = 1 BY <2>2
        <5>2. \A i \in 1..Len(s) : s[i].type # "START_CHILDREN" BY <2>2
        <5>3. 1 \in 1..Len(s) BY <2>2
        <5> QED BY <5>1, <5>2, <5>3, CountOne, CountNone
      <4>2. /\ ~q.broken /\ w.out = q.out \o s /\ Open(q, n) \in Int
            /\ Open(w, n) = Open(q, n) + 0 - 1
        <5>1. q.ok /\ ~Write(q, s).broken BY <3>1, <3>2
        <5>2. /\ ~q.broken /\ Write(q, s).out = q.out \o s /\ Open(q, n) \in Int
              /\ Open(Write(q, s), n) = Open(q, n) + Count("START_CHILDREN", s)
                                                   - Count("END_CHILDREN", s)
          BY <2>2, <3>1, <5>1, TextWritten
        <5> QED BY <3>2, <4>1, <5>2
      <4>3. q.out \in Seq(Lexemes) BY <3>1 DEF EmitterRecords
      <4>4. Open(q, n) = Open(p, n - 1) + 1
        <5>1. \A type : Count(type, q.out) \in Nat BY <4>3, CountIsNatural
        <5> QED BY <3>1, <5>1 DEF Open
      <4>5. p.depth = Open(p, n - 1) BY <2>5, <2>7, <3>1, <4>2 DEF Ready
      <4>6. EndsLine(w, f) <=> s[Len(s)].type = "NEWLINE" BY <2>2, <4>2, <4>3, EndWritten
      <4>7. w.depth = Open(w, n)
        BY <1>0, <2>1, <2>5, <3>1, <3>3, <4>2, <4>4, <4>5
      <4> QED BY <2>2, <3>1, <3>3, <4>6, <4>7
    <3> QED BY <1>0, <1>3, <3>1, <3>3, <3>4, <3>5 DEF w
  <2> QED BY <2>6, <2>7
<1> QED BY <1>0, <1>1, <1>2, <1>3

\* kdl_emit_end's loop: turn k finishes what turn k - 1 left.
LEMMA ClosingTurns ==
    ASSUME NEW e \in EmitterRecords, NEW n \in Int, NEW f \in BOOLEAN, InStep(e, n, f)
    PROVE  /\ Closing(e)[0] = e
           /\ \A k \in 1..e.depth :
                  Closing(e)[k] = FinishEmittingChildren(Closing(e)[k - 1])
<1>1. e.depth \in Nat BY DEF EmitterRecords
<1> DEFINE S == {x \in EmitterRecords : InStep(x, n, f)}
           finish == [x \in S |-> FinishEmittingChildren(x)]
           step == [k \in 1..e.depth |-> finish]
<1>2. \A x \in S : FinishEmittingChildren(x) \in S BY ChildrenFinished DEF Makes
<1>3. finish \in [S -> S] BY <1>2
<1> HIDE DEF finish
<1>4. step \in [1..e.depth -> [S -> S]] BY <1>3
<1>5. e \in S OBVIOUS
<1> HIDE DEF step, S
<1>6. PICK c : IsLoop(c, S, e.depth, e, step) BY <1>1, <1>4, <1>5, Loop
<1>7. /\ c \in [0..e.depth -> S] /\ c[0] = e
      /\ \A k \in 1..e.depth : c[k] = step[k][c[k - 1]]
  BY <1>6 DEF IsLoop
<1>8. \A k \in 1..e.depth : step[k][c[k - 1]] = FinishEmittingChildren(c[k - 1])
  <2> SUFFICES ASSUME NEW k \in 1..e.depth
               PROVE  step[k][c[k - 1]] = FinishEmittingChildren(c[k - 1])
    OBVIOUS
  <2>1. k - 1 \in 0..e.depth BY <1>1
  <2>2. c[k - 1] \in S BY <1>7, <2>1
  <2> QED BY <2>2 DEF step, finish
<1> DEFINE Turns(g) == [k \in 0..e.depth |->
                            IF k = 0 THEN e ELSE FinishEmittingChildren(g[k - 1])]
<1>9. c = Turns(c)
  <2>1. \A k \in 0..e.depth :
           c[k] = IF k = 0 THEN e ELSE FinishEmittingChildren(c[k - 1])
    <3> SUFFICES ASSUME NEW k \in 0..e.depth
                 PROVE  c[k] = IF k = 0 THEN e ELSE FinishEmittingChildren(c[k - 1])
      OBVIOUS
    <3>1. k # 0 => k \in 1..e.depth BY <1>1
    <3> QED BY <1>7, <1>8, <3>1
  <2>2. c = [k \in 0..e.depth |-> c[k]] BY <1>7
  <2> QED BY <2>1, <2>2
<1>10. Closing(e) = CHOOSE g : g = Turns(g) BY DEF Closing
<1> DEFINE g == Closing(e)
<1>11. g = Turns(g) BY <1>9, <1>10
<1> HIDE DEF g
<1>12. 0 \in 0..e.depth /\ \A k \in 1..e.depth : k \in 0..e.depth /\ k # 0 BY <1>1
<1>13. g[0] = e BY <1>11, <1>12
<1>14. \A k \in 1..e.depth : g[k] = FinishEmittingChildren(g[k - 1]) BY <1>11, <1>12
<1> QED BY <1>13, <1>14 DEF g

\* kdl_emit_end closes every level and ends the last line.
LEMMA EndEmitted ==
    ASSUME NEW e \in EmitterRecords, NEW n \in Int, NEW f \in BOOLEAN, InStep(e, n, f)
    PROVE  /\ Makes(e, EmitEnd(e)) /\ InStep(EmitEnd(e), n, f)
           /\ EmitEnd(e).depth <= e.depth
           /\ e.ok /\ ~EmitEnd(e).ok => EmitEnd(e).broken
           /\ EmitEnd(e).ok => EmitEnd(e).depth = 0 /\ EmitEnd(e).start_of_line
<1> DEFINE c == Closing(e)
           T == {k \in 0..e.depth :
                    /\ Makes(e, c[k]) /\ InStep(c[k], n, f) /\ c[k].depth <= e.depth
                    /\ e.ok /\ ~c[k].ok => c[k].broken
                    /\ c[k].ok => c[k].depth = e.depth - k}
           all == c[e.depth]
           s == <<Mark("NEWLINE")>>
           line == Write(all, s)
           w == EmitEnd(e)
<1>1. e.depth \in Nat BY DEF EmitterRecords
<1>2. c[0] = e /\ \A k \in 1..e.depth : c[k] = FinishEmittingChildren(c[k - 1])
  BY ClosingTurns
<1> HIDE DEF c
<1>3. 0 \in T
  <2>1. Makes(e, e) BY DEF Makes
  <2> QED BY <1>1, <1>2, <2>1
<1>4. ASSUME NEW k \in 1..e.depth, k - 1 \in T PROVE k \in T
  <2> DEFINE x == c[k - 1]
             y == c[k]
  <2>1. /\ Makes(e, x) /\ InStep(x, n, f) /\ x.depth <= e.depth
        /\ e.ok /\ ~x.ok => x.broken
        /\ x.ok => x.depth = e.depth - (k - 1)
    BY <1>4
  <2>2. y = FinishEmittingChildren(x) BY <1>2
  <2>3. k \in 0..e.depth BY <1>1
  <2> HIDE DEF x, y
  <2>4. x \in EmitterRecords BY <2>1 DEF Makes
  <2>5. /\ Makes(x, y) /\ InStep(y, n, f) /\ y.depth <= x.depth
        /\ y.ok => x.depth > 0 /\ y.depth = x.depth - 1
        /\ x.ok /\ x.depth > 0 /\ ~y.ok => y.broken
    BY <2>1, <2>2, <2>4, ChildrenFinished
  <2>6. Makes(e, y) BY <2>1, <2>5, MakesInTurn
  <2>7. x.depth \in Nat /\ y.depth \in Nat BY <2>4, <2>6 DEF Makes, EmitterRecords
  <2>8. y.ok => x.ok BY <2>5 DEF Makes
  <2>9. e.ok /\ ~y.ok => y.broken
    <3>1. CASE x.ok BY <1>1, <2>1, <2>5, <3>1
    <3>2. CASE ~x.ok BY <2>1, <2>5, <3>2 DEF Makes
    <3> QED BY <3>1, <3>2
  <2>10. y.depth <= e.depth BY <1>1, <2>1, <2>5, <2>7
  <2>11. y.ok => y.depth = e.depth - k BY <1>1, <2>1, <2>5, <2>7, <2>8
  <2> QED BY <2>3, <2>5, <2>6, <2>9, <2>10, <2>11 DEF y
<1> HIDE DEF T
<1>5. 0..e.depth \subseteq T BY <1>1, <1>3, <1>4, UpTo
<1>6. e.depth \in T BY <1>1, <1>5
<1>7. /\ Makes(e, all) /\ InStep(all, n, f) /\ all.depth <= e.depth
      /\ e.ok /\ ~all.ok => all.broken
      /\ all.ok => all.depth = 0
  BY <1>1, <1>6 DEF T
<1>8. all \in EmitterRecords BY <1>7 DEF Makes
<1>9. w = IF ~all.ok \/ all.start_of_line THEN all
          ELSE IF line.ok THEN [line EXCEPT !.start_of_line = TRUE] ELSE line
  BY DEF EmitEnd, c
<1>10. s \in Seq(Lexemes) /\ Len(s) = 1 /\ s # <<>> /\ s[1].type = "NEWLINE"
  BY MarkIsLexeme DEF LexemeTypes
<1> HIDE DEF all, s, w
<1>11. CASE ~all.ok \/ all.start_of_line
  <2>1. w = all BY <1>9, <1>11
  <2> QED BY <1>7, <1>11, <2>1 DEF w
<1>12. CASE all.ok /\ ~all.start_of_line
  <2>1. /\ Makes(all, line) /\ line.depth = all.depth
        /\ line.ok => line.out = all.out \o s /\ line.broken = all.broken
        /\ ~line.ok => line.broken
    BY <1>8, <1>10, <1>12, LexemesWritten
  <2>2. line \in EmitterRecords /\ line.opt = e.opt BY <1>7, <2>1 DEF Makes
  <2>3. Makes(e, line) BY <1>7, <2>1, MakesInTurn
  <2>4. CASE ~line.ok
    <3>1. w = line BY <1>9, <1>12, <2>4
    <3>2. InStep(line, n, f) BY <2>1, <2>4 DEF InStep
    <3> QED BY <1>7, <2>1, <2>3, <2>4, <3>1, <3>2 DEF w
  <2>5. CASE line.ok
    <3> HIDE DEF line
    <3>1. w = [line EXCEPT !.start_of_line = TRUE] BY <1>9, <1>12, <2>5
    <3>2. /\ w \in EmitterRecords /\ w.opt = e.opt /\ w.out = line.out /\ w.ok
          /\ w.broken = line.broken /\ w.depth = line.depth /\ w.start_of_line = TRUE
      <4>1. w \in EmitterRecords BY <2>2, <3>1 DEF EmitterRecords
      <4> QED BY <2>2, <2>5, <3>1, <4>1 DEF EmitterRecords
    <3>3. e.ok BY <1>7, <1>12 DEF Makes
    <3>4. Makes(e, w)
      <4>1. line.broken = e.broken BY <2>3, <2>5 DEF Makes
      <4> QED BY <3>2, <3>3, <4>1 DEF Makes
    <3>5. InStep(w, n, f)
      <4> SUFFICES ASSUME ~w.broken
                   PROVE  w.depth = Open(w, n) /\ (w.start_of_line <=> EndsLine(w, f))
        BY DEF InStep
      <4>1. ~all.broken /\ w.out = all.out \o s BY <2>1, <2>5, <3>2
      <4>2. all.out \in Seq(Lexemes) BY <1>8 DEF EmitterRecords
      <4>3. EndsLine(w, f) <=> s[Len(s)].type = "NEWLINE" BY <1>10, <4>1, <4>2, EndWritten
      <4>4. Count("START_CHILDREN", s) = 0 /\ Count("END_CHILDREN", s) = 0
        <5>1. \A i \in 1..Len(s) : s[i].type = "NEWLINE" BY <1>10
        <5> QED BY <5>1, CountNone
      <4>5. all.ok /\ ~Write(all, s).broken BY <1>12, <3>2 DEF line
      <4>6. Open(line, n) = Open(all, n) + 0 - 0 /\ Open(all, n) \in Int
        BY <1>8, <1>10, <4>4, <4>5, TextWritten DEF line
      <4>7. Open(w, n) = Open(line, n) BY <3>2 DEF Open
      <4>8. all.depth = Open(all, n) BY <1>7, <4>1 DEF InStep
      <4> QED BY <1>10, <2>1, <3>2, <4>3, <4>6, <4>7, <4>8
    <3> QED BY <1>7, <1>12, <2>1, <3>2, <3>4, <3>5 DEF w
  <2> QED BY <2>4, <2>5
<1>13. all.ok \in BOOLEAN /\ all.start_of_line \in BOOLEAN BY <1>8 DEF EmitterRecords
<1> QED BY <1>11, <1>12, <1>13

-----------------------------------------------------------------------------
(* The emitter and its sink between two calls. *)

\* What holds between calls: the record is one the functions can be given, the text and
\* the fields agree unless a write has failed.
SinkIInv ==
    /\ emitter \in EmitterRecords
    /\ nesting \in Int /\ fresh \in BOOLEAN
    /\ BracesMatchDepth
    /\ LineStartIsKnown

\* While arguments may follow, the node's line has begun.
NodeBeginsItsLine == AtNode /\ ~emitter.broken => ~emitter.start_of_line

EmitterIInv ==
    /\ SinkIInv
    /\ emitter.depth <= MaxDepth
    /\ NodeBeginsItsLine

LEMMA SinkStarts ==
    ASSUME SinkInit
    PROVE  SinkIInv /\ emitter.depth = 0 /\ emitter.start_of_line
<1>1. PICK opt \in Options : emitter = NewEmitter(opt) BY DEF SinkInit
<1>2. emitter \in EmitterRecords BY <1>1, EmptySeq DEF NewEmitter, EmitterRecords
<1>3. /\ emitter.depth = 0 /\ emitter.start_of_line = TRUE BY <1>1 DEF NewEmitter
<1> QED BY <1>2, <1>3 DEF SinkInit, SinkIInv, BracesMatchDepth, LineStartIsKnown

\* A sequence of calls begins in step with the text.
LEMMA CallBegins ==
    ASSUME SinkIInv, NEW room \in Nat
    PROVE  /\ Calling(emitter, room) \in EmitterRecords
           /\ InStep(Calling(emitter, room), nesting, fresh)
           /\ Calling(emitter, room).ok
           /\ Calling(emitter, room).opt = emitter.opt
           /\ Calling(emitter, room).depth = emitter.depth
           /\ Calling(emitter, room).start_of_line = emitter.start_of_line
           /\ Calling(emitter, room).broken = emitter.broken
<1> DEFINE e == Calling(emitter, room)
<1>1. emitter \in EmitterRecords BY DEF SinkIInv
<1>2. e \in EmitterRecords BY <1>1, EmptySeq DEF Calling, EmitterRecords
<1>3. /\ e.ok = TRUE /\ e.opt = emitter.opt /\ e.depth = emitter.depth
      /\ e.start_of_line = emitter.start_of_line /\ e.broken = emitter.broken
      /\ e.out = <<>>
  BY <1>1 DEF Calling, EmitterRecords
<1> HIDE DEF e
<1>4. \A type : Count(type, e.out) = 0 BY <1>3, CountNone, EmptySeq
<1>5. Open(e, nesting) = nesting BY <1>4 DEF Open, SinkIInv
<1>6. EndsLine(e, fresh) = fresh BY <1>3 DEF EndsLine
<1>7. InStep(e, nesting, fresh)
  BY <1>3, <1>5, <1>6 DEF InStep, SinkIInv, BracesMatchDepth, LineStartIsKnown
<1> QED BY <1>2, <1>3, <1>7 DEF e

\* And what is in step with the text when the calls are over stays so.
LEMMA CallEnds ==
    ASSUME SinkIInv, NEW e \in EmitterRecords, InStep(e, nesting, fresh), Emitted(e)
    PROVE  /\ SinkIInv'
           /\ emitter'.opt = e.opt /\ emitter'.depth = e.depth
           /\ emitter'.start_of_line = e.start_of_line
           /\ emitter'.ok = e.ok /\ emitter'.broken = e.broken
<1>1. emitter' = [e EXCEPT !.room = 0] BY DEF Emitted, Called
<1>2. /\ emitter' \in EmitterRecords /\ emitter'.opt = e.opt /\ emitter'.depth = e.depth
      /\ emitter'.start_of_line = e.start_of_line
      /\ emitter'.ok = e.ok /\ emitter'.broken = e.broken
  BY <1>1 DEF EmitterRecords
<1>3. e.depth \in Nat /\ e.start_of_line \in BOOLEAN /\ e.broken \in BOOLEAN
      /\ e.out \in Seq(Lexemes)
  BY DEF EmitterRecords
<1>4. nesting \in Int /\ fresh \in BOOLEAN BY DEF SinkIInv
<1>5. nesting' = IF e.broken THEN 0 ELSE Open(e, nesting) BY DEF Emitted, Open
<1>6. fresh' \in BOOLEAN /\ (~e.broken => (fresh' <=> EndsLine(e, fresh)))
  BY <1>3, <1>4 DEF Emitted, EndsLine
<1>7. Open(e, nesting) \in Int BY <1>3, <1>4, CountIsNatural DEF Open
<1>8. nesting' \in Int BY <1>5, <1>7
<1>9. BracesMatchDepth' BY <1>2, <1>5 DEF BracesMatchDepth, InStep
<1>10. LineStartIsKnown' BY <1>2, <1>6 DEF LineStartIsKnown, InStep
<1> QED BY <1>2, <1>6, <1>8, <1>9, <1>10 DEF SinkIInv

LEMMA EmitterInitially == EmitterInit => EmitterIInv
<1> SUFFICES ASSUME EmitterInit PROVE EmitterIInv OBVIOUS
<1>1. SinkIInv /\ emitter.depth = 0 /\ latest = "created" BY SinkStarts DEF EmitterInit
<1> QED BY <1>1, MaxDepthAssumption DEF EmitterIInv, NodeBeginsItsLine, AtNode

\* Every call keeps the invariant, and the end of the document closes the text.
LEMMA EmitterSteps ==
    ASSUME EmitterIInv, EmitterNext
    PROVE  /\ EmitterIInv'
           /\ latest' = "end" /\ emitter'.ok => emitter'.depth = 0 /\ emitter'.start_of_line
<1>1. PICK room \in Rooms :
         LET e == Calling(emitter, room) IN
         \/ \E name \in Texts, type \in Texts \cup {None} :
                Call("node", EmitNode(e, type, name))
         \/ AtNode /\ \E v \in Values : Call("arg", EmitArg(e, v))
         \/ AtNode /\ \E name \in Texts, v \in Values :
                Call("property", EmitProperty(e, name, v))
         \/ /\ AtNode /\ emitter.depth < MaxDepth
            /\ Call("start children", StartEmittingChildren(e))
         \/ Call("finish children", FinishEmittingChildren(e))
         \/ Call("end", EmitEnd(e))
  BY DEF EmitterNext
<1> DEFINE e == Calling(emitter, room)
<1>2. /\ SinkIInv /\ emitter.depth <= MaxDepth
      /\ AtNode /\ ~emitter.broken => ~emitter.start_of_line
  BY DEF EmitterIInv, NodeBeginsItsLine
<1>3. room \in Nat BY RoomsAssumption
<1>4. /\ e \in EmitterRecords /\ InStep(e, nesting, fresh) /\ e.ok
      /\ e.opt = emitter.opt /\ e.depth = emitter.depth
      /\ e.start_of_line = emitter.start_of_line /\ e.broken = emitter.broken
  BY <1>2, <1>3, CallBegins
<1>5. nesting \in Int /\ fresh \in BOOLEAN /\ emitter.opt \in Options
      /\ emitter.depth \in Nat
  BY <1>2 DEF SinkIInv, EmitterRecords
<1>6. Texts \subseteq TextKinds /\ Values \subseteq AllValues /\ MaxDepth \in Nat
  BY TextsAssumption, ValuesAssumption, MaxDepthAssumption DEF AllValues
<1> HIDE DEF e
<1>7. ASSUME NEW w, Makes(e, w), InStep(w, nesting, fresh), Emitted(w)
      PROVE  /\ SinkIInv' /\ emitter'.depth = w.depth /\ emitter'.ok = w.ok
             /\ emitter'.start_of_line = w.start_of_line /\ emitter'.broken = w.broken
  <2>1. w \in EmitterRecords BY <1>7 DEF Makes
  <2> QED BY <1>2, <1>7, <2>1, CallEnds
<1>8. CASE \E name \in Texts, type \in Texts \cup {None} :
               Call("node", EmitNode(e, type, name))
  <2>1. PICK name \in Texts, type \in Texts \cup {None} :
           Call("node", EmitNode(e, type, name))
    BY <1>8
  <2> DEFINE w == EmitNode(e, type, name)
  <2>2. name \in TextKinds /\ type \in TextKinds \cup {None} BY <1>6
  <2>3. /\ Makes(e, w) /\ InStep(w, nesting, fresh) /\ w.depth = e.depth
        /\ ~w.ok => w.broken
        /\ w.ok => ~w.start_of_line
    BY <1>4, <1>5, <2>2, NodeEmitted
  <2>4. Emitted(w) /\ latest' = "node" BY <2>1 DEF Call
  <2> HIDE DEF w
  <2> QED BY <1>2, <1>4, <1>7, <2>3, <2>4 DEF EmitterIInv, NodeBeginsItsLine
<1>9. CASE AtNode /\ \E v \in Values : Call("arg", EmitArg(e, v))
  <2>1. PICK v \in Values : Call("arg", EmitArg(e, v)) BY <1>9
  <2> DEFINE s == <<Mark("WHITESPACE")>> \o Value(v, e.opt)
             w == EmitArg(e, v)
  <2>2. Inline(s) BY <1>4, <1>5, <1>6, ArgIsInline
  <2>3. w = Write(e, s) BY DEF EmitArg
  <2> HIDE DEF s, w
  <2>4. /\ Makes(e, w) /\ InStep(w, nesting, fresh) /\ w.depth = e.depth
        /\ w.start_of_line = e.start_of_line
        /\ ~w.ok => w.broken
    BY <1>2, <1>4, <1>5, <1>9, <2>2, <2>3, EntryEmitted
  <2>5. Emitted(w) /\ latest' = "arg" BY <2>1 DEF Call, w
  <2>6. e.broken => w.broken BY <2>4 DEF Makes
  <2> QED BY <1>2, <1>4, <1>7, <1>9, <2>4, <2>5, <2>6 DEF EmitterIInv, NodeBeginsItsLine
<1>10. CASE AtNode /\ \E name \in Texts, v \in Values :
                Call("property", EmitProperty(e, name, v))
  <2>1. PICK name \in Texts, v \in Values : Call("property", EmitProperty(e, name, v))
    BY <1>10
  <2> DEFINE s == <<Mark("WHITESPACE"), BareString(name, e.opt), Mark("EQUALS")>>
                  \o Value(v, e.opt)
             w == EmitProperty(e, name, v)
  <2>2. Inline(s) BY <1>4, <1>5, <1>6, PropertyIsInline
  <2>3. w = Write(e, s) BY DEF EmitProperty
  <2> HIDE DEF s, w
  <2>4. /\ Makes(e, w) /\ InStep(w, nesting, fresh) /\ w.depth = e.depth
        /\ w.start_of_line = e.start_of_line
        /\ ~w.ok => w.broken
    BY <1>2, <1>4, <1>5, <1>10, <2>2, <2>3, EntryEmitted
  <2>5. Emitted(w) /\ latest' = "property" BY <2>1 DEF Call, w
  <2>6. e.broken => w.broken BY <2>4 DEF Makes
  <2> QED BY <1>2, <1>4, <1>7, <1>10, <2>4, <2>5, <2>6 DEF EmitterIInv, NodeBeginsItsLine
<1>11. CASE AtNode /\ emitter.depth < MaxDepth
            /\ Call("start children", StartEmittingChildren(e))
  <2> DEFINE w == StartEmittingChildren(e)
  <2>1. Makes(e, w) /\ InStep(w, nesting, fresh) /\ w.depth = e.depth + 1
    BY <1>4, <1>5, ChildrenStarted
  <2>2. Emitted(w) /\ latest' = "start children" BY <1>11 DEF Call
  <2> HIDE DEF w
  <2>3. SinkIInv' /\ emitter'.depth = w.depth BY <1>7, <2>1, <2>2
  <2>4. emitter'.depth <= MaxDepth
    <3>1. emitter'.depth = emitter.depth + 1 BY <1>4, <2>1, <2>3
    <3>2. emitter.depth < MaxDepth BY <1>11
    <3> QED BY <1>5, <1>6, <3>1, <3>2
  <2>5. ~AtNode' BY <2>2 DEF AtNode
  <2> QED BY <2>2, <2>3, <2>4, <2>5 DEF EmitterIInv, NodeBeginsItsLine
<1>12. CASE Call("finish children", FinishEmittingChildren(e))
  <2> DEFINE w == FinishEmittingChildren(e)
  <2>1. Makes(e, w) /\ InStep(w, nesting, fresh) /\ w.depth <= e.depth
    BY <1>4, <1>5, ChildrenFinished
  <2>2. Emitted(w) /\ latest' = "finish children" BY <1>12 DEF Call
  <2> HIDE DEF w
  <2>3. SinkIInv' /\ emitter'.depth = w.depth BY <1>7, <2>1, <2>2
  <2>4. w.depth \in Nat BY <2>1 DEF Makes, EmitterRecords
  <2>5. emitter'.depth <= MaxDepth BY <1>2, <1>4, <1>5, <1>6, <2>1, <2>3, <2>4
  <2>6. ~AtNode' BY <2>2 DEF AtNode
  <2> QED BY <2>2, <2>3, <2>5, <2>6 DEF EmitterIInv, NodeBeginsItsLine
<1>13. CASE Call("end", EmitEnd(e))
  <2> DEFINE w == EmitEnd(e)
  <2>1. /\ Makes(e, w) /\ InStep(w, nesting, fresh) /\ w.depth <= e.depth
        /\ w.ok => w.depth = 0 /\ w.start_of_line
    BY <1>4, <1>5, EndEmitted
  <2>2. Emitted(w) /\ latest' = "end" BY <1>13 DEF Call
  <2> HIDE DEF w
  <2>3. /\ SinkIInv' /\ emitter'.depth = w.depth /\ emitter'.ok = w.ok
        /\ emitter'.start_of_line = w.start_of_line
    BY <1>7, <2>1, <2>2
  <2>4. w.depth \in Nat BY <2>1 DEF Makes, EmitterRecords
  <2>5. emitter'.depth <= MaxDepth BY <1>2, <1>4, <1>5, <1>6, <2>1, <2>3, <2>4
  <2>6. ~AtNode' BY <2>2 DEF AtNode
  <2> QED BY <2>1, <2>3, <2>5, <2>6 DEF EmitterIInv, NodeBeginsItsLine
<1> QED BY <1>1, <1>8, <1>9, <1>10, <1>11, <1>12, <1>13 DEF e

LEMMA EmitterStutters ==
    ASSUME EmitterIInv, UNCHANGED emitterVars
    PROVE  EmitterIInv'
<1>1. emitter' = emitter /\ nesting' = nesting /\ fresh' = fresh /\ latest' = latest
  BY DEF emitterVars, sinkVars
<1> QED BY <1>1 DEF EmitterIInv, SinkIInv, BracesMatchDepth, LineStartIsKnown,
                    NodeBeginsItsLine, AtNode

\* The calls may come in any order their documentation allows and any of them may fail:
\* the invariant holds throughout.
THEOREM EmitterInvariant == EmitterSpec => []EmitterIInv
<1>1. EmitterInit => EmitterIInv BY EmitterInitially
<1>2. EmitterIInv /\ [EmitterNext]_emitterVars => EmitterIInv'
  BY EmitterSteps, EmitterStutters
<1> QED BY <1>1, <1>2, PTL DEF EmitterSpec

\* The fields of the emitter keep their ranges; `depth` is never below zero, however
\* often kdl_finish_emitting_children and kdl_emit_end are called.
THEOREM EmitterTypes == EmitterSpec => []EmitterTypeOK
<1>1. EmitterIInv => EmitterTypeOK
  BY MaxDepthAssumption DEF EmitterIInv, SinkIInv, EmitterRecords, EmitterTypeOK
<1> QED BY <1>1, EmitterInvariant, PTL

\* While every write has gone through, the levels the emitter counts are the braces open
\* in the text.
THEOREM BracesAreCounted == EmitterSpec => []BracesMatchDepth
<1>1. EmitterIInv => BracesMatchDepth BY DEF EmitterIInv, SinkIInv
<1> QED BY <1>1, EmitterInvariant, PTL

\* And start_of_line says whether the text ends in a newline.
THEOREM LineStartsAreKnown == EmitterSpec => []LineStartIsKnown
<1>1. EmitterIInv => LineStartIsKnown BY DEF EmitterIInv, SinkIInv
<1> QED BY <1>1, EmitterInvariant, PTL

\* kdl_emit_end leaves a text that is closed and ends in a newline when it returns true
\* and no write has failed.
THEOREM EndFinishes == EmitterSpec => EndFinishesTheText
<1>1. EmitterIInv /\ EmitterIInv' /\ [EmitterNext]_emitterVars =>
         [latest' = "end" /\ emitter'.ok /\ ~emitter'.broken
             => nesting' = 0 /\ fresh']_emitterVars
  <2> SUFFICES ASSUME EmitterIInv, EmitterIInv', EmitterNext, latest' = "end",
                      emitter'.ok, ~emitter'.broken
               PROVE  nesting' = 0 /\ fresh'
    OBVIOUS
  <2>1. emitter'.depth = 0 /\ emitter'.start_of_line BY EmitterSteps
  <2>2. BracesMatchDepth' /\ LineStartIsKnown' BY DEF EmitterIInv, SinkIInv
  <2> QED BY <2>1, <2>2 DEF BracesMatchDepth, LineStartIsKnown
<1> QED BY <1>1, EmitterInvariant, PTL DEF EmitterSpec, EndFinishesTheText

-----------------------------------------------------------------------------
(* The properties that are held back. *)

HeldProps == [name : Keys, value : Values]

LEMMA EmissionOfHeld ==
    ASSUME NEW held \in Seq(HeldProps)
    PROVE  Emission(held) \in Seq(HeldProps)
<1> DEFINE cells == HeldProps \cup {Hole}
<1>1. held \in Seq(cells)
  <2>1. HeldProps \subseteq cells OBVIOUS
  <2> QED BY <2>1, SeqMonotonic
<1>2. Hole \in cells OBVIOUS
<1> HIDE DEF cells
<1>3. Emission(held) \in Seq(Named(cells)) BY <1>1, <1>2, EmissionIsTyped
<1>4. Hole.name = NoName BY DEF Hole
<1>5. Named(cells) \subseteq HeldProps BY <1>4 DEF Named, cells
<1> QED BY <1>3, <1>5, SeqMonotonic

\* The emitter while the properties of a node are written: it stays in that node's line.
Writing(e, n, f) ==
    {x \in EmitterRecords :
        /\ Makes(e, x) /\ InStep(x, n, f)
        /\ x.depth = e.depth /\ x.start_of_line = e.start_of_line
        /\ e.ok /\ ~x.ok => x.broken}

LEMMA PropertyEmitted ==
    ASSUME NEW e \in EmitterRecords, NEW n \in Int, NEW f \in BOOLEAN, InStep(e, n, f),
           e.ok /\ ~e.broken => ~e.start_of_line,
           NEW x \in Writing(e, n, f), NEW p \in HeldProps
    PROVE  EmitProperty(x, KeyTexts[p.name], p.value) \in Writing(e, n, f)
<1> DEFINE s == <<Mark("WHITESPACE"), BareString(KeyTexts[p.name], x.opt), Mark("EQUALS")>>
                \o Value(p.value, x.opt)
           w == EmitProperty(x, KeyTexts[p.name], p.value)
<1>1. KeyTexts[p.name] \in TextKinds
  <2>1. p.name \in 1..Len(KeyTexts) BY DEF HeldProps, Keys
  <2> QED BY <2>1, KeyTextsAssumption, ElementOfSeq
<1>2. p.value \in AllValues BY ValuesAssumption DEF HeldProps, AllValues
<1>3. /\ x \in EmitterRecords /\ Makes(e, x) /\ InStep(x, n, f)
      /\ x.depth = e.depth /\ x.start_of_line = e.start_of_line
      /\ e.ok /\ ~x.ok => x.broken
  BY DEF Writing
<1>4. x.opt \in Options BY <1>3 DEF EmitterRecords
<1>5. Inline(s) BY <1>1, <1>2, <1>4, PropertyIsInline
<1>6. w = Write(x, s) BY DEF EmitProperty
<1> HIDE DEF s, w
<1>7. x.ok /\ ~x.broken => ~x.start_of_line BY <1>3 DEF Makes
<1>8. /\ Makes(x, w) /\ InStep(w, n, f)
      /\ w.depth = x.depth /\ w.start_of_line = x.start_of_line
      /\ x.ok /\ ~w.ok => w.broken
  BY <1>3, <1>5, <1>6, <1>7, EntryEmitted
<1>9. Makes(e, w) BY <1>3, <1>8, MakesInTurn
<1>10. e.ok /\ ~w.ok => w.broken
  <2>1. CASE x.ok BY <1>8, <2>1
  <2>2. CASE ~x.ok BY <1>3, <1>8, <2>2 DEF Makes
  <2> QED BY <2>1, <2>2
<1>11. w \in EmitterRecords BY <1>9 DEF Makes
<1> QED BY <1>3, <1>8, <1>9, <1>10, <1>11 DEF Writing, w

\* proplist_emit's last loop, property by property.
LEMMA WritingTurns ==
    ASSUME NEW e \in EmitterRecords, NEW d \in Int, NEW l \in BOOLEAN, InStep(e, d, l),
           e.ok /\ ~e.broken => ~e.start_of_line, NEW sorted \in Seq(HeldProps)
    PROVE  /\ \A k \in 0..Len(sorted) : WritingProperties(e, sorted)[k] \in Writing(e, d, l)
           /\ WritingProperties(e, sorted)[0] = e
           /\ \A k \in 1..Len(sorted) :
                  WritingProperties(e, sorted)[k] =
                      EmitProperty(WritingProperties(e, sorted)[k - 1],
                                   KeyTexts[sorted[k].name], sorted[k].value)
<1> DEFINE n == Len(sorted)
           x == e
           S == Writing(e, d, l)
           Turn(s, k) == EmitProperty(s, KeyTexts[sorted[k].name], sorted[k].value)
           step == [k \in 1..n |-> [s \in S |-> Turn(s, k)]]
           Turns(g) == [k \in 0..n |-> IF k = 0 THEN x ELSE Turn(g[k - 1], k)]
           c == WritingProperties(e, sorted)
<1>1. n \in Nat BY LenProperties
<1>2. x \in S BY DEF Writing, Makes
<1>3. \A k \in 1..n : \A s \in S : Turn(s, k) \in S
  BY PropertyEmitted, ElementOfSeq
<1>4. c = CHOOSE g : g = Turns(g) BY DEF WritingProperties
<1> HIDE DEF n, x, S, c
<1>5. step \in [1..n -> [S -> S]] BY <1>3
<1> HIDE DEF step
<1>6. PICK f : IsLoop(f, S, n, x, step) BY <1>1, <1>2, <1>5, Loop
<1>7. f \in [0..n -> S] /\ f[0] = x /\ \A k \in 1..n : f[k] = step[k][f[k - 1]]
  BY <1>6 DEF IsLoop
<1>8. \A k \in 1..n : f[k] = Turn(f[k - 1], k) /\ f[k] \in S /\ f[k - 1] \in S
  <2> SUFFICES ASSUME NEW k \in 1..n
               PROVE  /\ step[k][f[k - 1]] = Turn(f[k - 1], k)
                      /\ f[k] \in S /\ f[k - 1] \in S
    BY <1>7
  <2>1. k - 1 \in 0..n /\ k \in 0..n BY <1>1
  <2>2. f[k - 1] \in S /\ f[k] \in S BY <1>7, <2>1
  <2> QED BY <2>2 DEF step
<1>9. f = Turns(f)
  <2>1. \A k \in 0..n : f[k] = IF k = 0 THEN x ELSE Turn(f[k - 1], k)
    <3> SUFFICES ASSUME NEW k \in 0..n
                 PROVE  f[k] = IF k = 0 THEN x ELSE Turn(f[k - 1], k)
      OBVIOUS
    <3>1. k # 0 => k \in 1..n BY <1>1
    <3> QED BY <1>7, <1>8, <3>1
  <2>2. f = [k \in 0..n |-> f[k]] BY <1>7
  <2> QED BY <2>1, <2>2
<1>10. c = Turns(c) BY <1>4, <1>9
<1>11. 0 \in 0..n /\ \A k \in 1..n : k \in 0..n /\ k # 0 /\ k - 1 \in 0..n BY <1>1
<1>12. c[0] = x /\ \A k \in 1..n : c[k] = Turn(c[k - 1], k)
  BY <1>10, <1>11
<1> DEFINE T == {k \in 0..n : c[k] \in S}
<1>13. 0 \in T BY <1>2, <1>11, <1>12
<1>14. ASSUME NEW k \in 1..n, k - 1 \in T PROVE k \in T BY <1>3, <1>11, <1>12, <1>14
<1> HIDE DEF T
<1>15. 0..n \subseteq T BY <1>1, <1>13, <1>14, UpTo
<1>16. \A k \in 0..n : c[k] \in S BY <1>15 DEF T
<1> QED BY <1>12, <1>16 DEF n, x, S, c

LEMMA PropertiesEmitted ==
    ASSUME NEW e \in EmitterRecords, NEW n \in Int, NEW f \in BOOLEAN, InStep(e, n, f),
           e.ok /\ ~e.broken => ~e.start_of_line, NEW held \in Seq(HeldProps)
    PROVE  /\ Makes(e, EmitProperties(e, held)) /\ InStep(EmitProperties(e, held), n, f)
           /\ EmitProperties(e, held).depth = e.depth
           /\ EmitProperties(e, held).start_of_line = e.start_of_line
           /\ e.ok /\ ~EmitProperties(e, held).ok => EmitProperties(e, held).broken
<1> DEFINE sorted == Emission(held)
<1>1. sorted \in Seq(HeldProps) BY EmissionOfHeld
<1>2. EmitProperties(e, held) = WritingProperties(e, sorted)[Len(sorted)]
  BY DEF EmitProperties
<1> HIDE DEF sorted
<1>3. Len(sorted) \in 0..Len(sorted) BY <1>1, LenProperties
<1>4. EmitProperties(e, held) \in Writing(e, n, f) BY <1>1, <1>2, <1>3, WritingTurns
<1> QED BY <1>4 DEF Writing

-----------------------------------------------------------------------------
(* The state of ckdl-cat between two events. *)

CatTypes ==
    /\ in_node_list \in BOOLEAN
    /\ props \in Seq(HeldProps)
    /\ result \in {"reading", "true", "false", "true, destroyed", "false, destroyed"}

\* While the document is being read no write has failed; and unless a whole node came
\* last, the line of the innermost node has begun.
ReadingInLine ==
    result = "reading" =>
        /\ ~emitter.broken
        /\ ~in_node_list => ~emitter.start_of_line
        /\ InEntries => ~in_node_list

CatIInv ==
    /\ SinkIInv
    /\ CatTypes
    /\ EmitterFollowsTheNodes
    /\ PropertiesStayWithTheirNode
    /\ ReadingInLine
    /\ TrueMeansWritten
    /\ TextIsClosedInTheEnd

LEMMA CatInitially == CatInit => CatIInv
<1> SUFFICES ASSUME CatInit PROVE CatIInv OBVIOUS
<1>1. SinkIInv /\ emitter.depth = 0 BY SinkStarts DEF CatInit
<1>2. /\ ~emitter.broken
  BY DEF CatInit, SinkInit, NewEmitter
<1>3. open = 0 /\ latest = "NONE" /\ in_node_list = TRUE /\ props = <<>>
      /\ result = "reading"
  BY DEF CatInit, Source!Init
<1>4. CatTypes BY <1>3, EmptySeq DEF CatTypes
<1>5. ~InEntries BY <1>3 DEF InEntries
<1> QED BY <1>1, <1>2, <1>3, <1>4, <1>5
        DEF CatIInv, EmitterFollowsTheNodes, PropertiesStayWithTheirNode, ReadingInLine,
            TrueMeansWritten, TextIsClosedInTheEnd, Destroyed

\* What every sequence of calls of ckdl-cat starts from and ends in.
LEMMA CatCalls ==
    ASSUME SinkIInv, NEW room \in Nat, NEW w,
           Makes(Calling(emitter, room), w), InStep(w, nesting, fresh), Emitted(w)
    PROVE  /\ SinkIInv'
           /\ emitter'.depth = w.depth /\ emitter'.start_of_line = w.start_of_line
           /\ emitter'.broken = w.broken
<1>1. w \in EmitterRecords BY DEF Makes
<1> QED BY <1>1, CallEnds

\* Nothing is called.
LEMMA CatIsSilent ==
    ASSUME SinkIInv, NEW room \in Nat, Emitted(Calling(emitter, room))
    PROVE  /\ SinkIInv'
           /\ emitter'.depth = emitter.depth /\ emitter'.start_of_line = emitter.start_of_line
           /\ emitter'.broken = emitter.broken
<1>1. /\ Calling(emitter, room) \in EmitterRecords
      /\ InStep(Calling(emitter, room), nesting, fresh)
      /\ Calling(emitter, room).depth = emitter.depth
      /\ Calling(emitter, room).start_of_line = emitter.start_of_line
      /\ Calling(emitter, room).broken = emitter.broken
  BY CallBegins
<1> QED BY <1>1, CallEnds

\* The children of the node before begin, behind all its properties.
LEMMA BeforeNodeEmitted ==
    ASSUME CatIInv, result = "reading", NEW room \in Nat
    PROVE  LET e == Calling(emitter, room)
               b == BeforeNode(e)
           IN /\ Makes(e, b) /\ InStep(b, nesting, fresh)
              /\ ~b.ok => b.broken
              /\ b.ok => b.depth = emitter.depth + (IF in_node_list THEN 0 ELSE 1)
<1> DEFINE e == Calling(emitter, room)
           q == EmitProperties(e, props)
           b == BeforeNode(e)
<1>1. /\ e \in EmitterRecords /\ InStep(e, nesting, fresh) /\ e.ok
      /\ e.depth = emitter.depth /\ e.start_of_line = emitter.start_of_line
      /\ e.broken = emitter.broken
  BY CallBegins DEF CatIInv
<1>2. nesting \in Int /\ fresh \in BOOLEAN /\ in_node_list \in BOOLEAN
      /\ props \in Seq(HeldProps) /\ emitter.depth \in Nat
  BY DEF CatIInv, SinkIInv, CatTypes, EmitterRecords
<1>3. CASE in_node_list
  <2>1. b = e BY <1>3 DEF BeforeNode
  <2>2. Makes(e, e) BY <1>1 DEF Makes
  <2> QED BY <1>1, <1>2, <1>3, <2>1, <2>2
<1>4. CASE ~in_node_list
  <2>1. b = StartEmittingChildren(q) BY <1>4 DEF BeforeNode
  <2>2. ~e.start_of_line BY <1>1, <1>4 DEF CatIInv, ReadingInLine
  <2> HIDE DEF e
  <2>3. /\ Makes(e, q) /\ InStep(q, nesting, fresh) /\ q.depth = e.depth
        /\ ~q.ok => q.broken
    BY <1>1, <1>2, <2>2, PropertiesEmitted
  <2>4. q \in EmitterRecords BY <2>3 DEF Makes
  <2> HIDE DEF q, b
  <2>5. /\ Makes(q, b) /\ InStep(b, nesting, fresh)
        /\ q.ok => b.depth = q.depth + 1
        /\ q.ok /\ ~b.ok => b.broken
    BY <1>2, <2>1, <2>3, <2>4, ChildrenStarted
  <2>6. Makes(e, b) BY <2>3, <2>5, MakesInTurn
  <2>7. b.ok => q.ok BY <2>5 DEF Makes
  <2>8. ~b.ok => b.broken
    <3>1. CASE q.ok BY <2>5, <3>1
    <3>2. CASE ~q.ok BY <2>3, <2>5, <3>2 DEF Makes
    <3> QED BY <3>1, <3>2
  <2> QED BY <1>1, <1>2, <1>4, <2>3, <2>5, <2>6, <2>7, <2>8 DEF e, b
<1> QED BY <1>2, <1>3, <1>4

\* While kdl_cat_impl reads on or has given up, only the conditions on reading count.
LEMMA StillReading ==
    ASSUME SinkIInv', CatTypes', result' \in {"reading", "false"},
           result' = "reading" =>
               /\ ~emitter'.broken
               /\ open' = emitter'.depth + (IF in_node_list' THEN 0 ELSE 1)
               /\ props' # <<>> => InEntries'
               /\ ~in_node_list' => ~emitter'.start_of_line
               /\ InEntries' => ~in_node_list'
    PROVE  CatIInv'
<1>1. result' # "true" /\ ~Destroyed' BY DEF Destroyed
<1> QED BY <1>1 DEF CatIInv, EmitterFollowsTheNodes, PropertiesStayWithTheirNode,
                    ReadingInLine, TrueMeansWritten, TextIsClosedInTheEnd

LEMMA CatStartNodeKeeps ==
    ASSUME CatIInv, result = "reading", NEW room \in Nat,
           NEW type \in TextKinds \cup {None}, NEW name \in TextKinds,
           CatStartNode(type, name, room)
    PROVE  CatIInv'
<1> DEFINE e == Calling(emitter, room)
           b == BeforeNode(e)
           w == EmitNode(b, type, name)
<1>1. /\ Makes(e, b) /\ InStep(b, nesting, fresh)
      /\ ~b.ok => b.broken
      /\ b.ok => b.depth = emitter.depth + (IF in_node_list THEN 0 ELSE 1)
  BY BeforeNodeEmitted
<1>2. /\ nesting \in Int /\ fresh \in BOOLEAN /\ SinkIInv /\ CatTypes
      /\ in_node_list \in BOOLEAN
      /\ open = emitter.depth + (IF in_node_list THEN 0 ELSE 1)
  BY DEF CatIInv, SinkIInv, CatTypes, EmitterFollowsTheNodes
<1>3. Emitted(w) /\ result' = Returned(w) /\ in_node_list' = FALSE
      /\ props' = IF in_node_list THEN props ELSE <<>>
  BY DEF CatStartNode
<1>4. open' = open + 1 /\ latest' = "START_NODE" BY DEF CatStartNode, Source!StartNode
<1>5. emitter.broken = FALSE /\ e.broken = emitter.broken
  BY CallBegins DEF CatIInv, ReadingInLine, SinkIInv, EmitterRecords
<1> HIDE DEF b
<1>6. b \in EmitterRecords BY <1>1 DEF Makes
<1>7. /\ Makes(b, w) /\ InStep(w, nesting, fresh) /\ w.depth = b.depth
      /\ w.ok => ~w.start_of_line
  BY <1>1, <1>2, <1>6, NodeEmitted
<1> HIDE DEF w
<1>8. Makes(e, w) BY <1>1, <1>7, MakesInTurn
<1>9. /\ SinkIInv' /\ emitter'.depth = w.depth /\ emitter'.start_of_line = w.start_of_line
      /\ emitter'.broken = w.broken
  BY <1>2, <1>3, <1>7, <1>8, CatCalls
<1>10. w.ok => b.ok /\ w.broken = e.broken BY <1>7, <1>8 DEF Makes
<1>11. result' \in {"reading", "false"} /\ (result' = "reading" => w.ok)
  BY <1>3 DEF Returned
<1>12. CatTypes' BY <1>2, <1>3, <1>11, EmptySeq DEF CatTypes
<1>13. InEntries' BY <1>4 DEF InEntries
<1>14. w.ok => open' = emitter'.depth + 1 BY <1>1, <1>2, <1>4, <1>7, <1>9, <1>10
<1> QED BY <1>3, <1>5, <1>7, <1>9, <1>10, <1>11, <1>12, <1>13, <1>14, StillReading

LEMMA CatEndNodeKeeps ==
    ASSUME CatIInv, result = "reading", NEW room \in Nat, CatEndNode(room)
    PROVE  CatIInv'
<1> DEFINE e == Calling(emitter, room)
           w == IF in_node_list THEN FinishEmittingChildren(e) ELSE EmitProperties(e, props)
<1>1. /\ e \in EmitterRecords /\ InStep(e, nesting, fresh) /\ e.ok
      /\ e.depth = emitter.depth /\ e.start_of_line = emitter.start_of_line
      /\ e.broken = emitter.broken
  BY CallBegins DEF CatIInv
<1>2. /\ nesting \in Int /\ fresh \in BOOLEAN /\ SinkIInv /\ CatTypes
      /\ in_node_list \in BOOLEAN /\ props \in Seq(HeldProps) /\ emitter.depth \in Nat
      /\ open = emitter.depth + (IF in_node_list THEN 0 ELSE 1)
      /\ emitter.broken = FALSE
      /\ ~in_node_list => ~emitter.start_of_line
      /\ in_node_list => props = <<>>
  BY DEF CatIInv, SinkIInv, CatTypes, EmitterFollowsTheNodes, ReadingInLine, EmitterRecords,
         PropertiesStayWithTheirNode
<1>3. Emitted(w) /\ result' = Returned(w) /\ in_node_list' = TRUE
      /\ props' = IF in_node_list THEN props ELSE <<>>
  BY DEF CatEndNode
<1>4. open' = open - 1 /\ latest' = "END_NODE" BY DEF CatEndNode, Source!EndNode
<1> HIDE DEF e
<1>5. /\ Makes(e, w) /\ InStep(w, nesting, fresh)
      /\ w.ok => w.depth = e.depth - (IF in_node_list THEN 1 ELSE 0)
  <2>1. CASE in_node_list
    <3>1. w = FinishEmittingChildren(e) BY <2>1
    <3> HIDE DEF w
    <3> QED BY <1>1, <1>2, <2>1, <3>1, ChildrenFinished
  <2>2. CASE ~in_node_list
    <3>1. w = EmitProperties(e, props) BY <2>2
    <3> HIDE DEF w
    <3>2. /\ Makes(e, w) /\ InStep(w, nesting, fresh) /\ w.depth = e.depth
      BY <1>1, <1>2, <2>2, <3>1, PropertiesEmitted
    <3> QED BY <1>1, <1>2, <2>2, <3>2
  <2> QED BY <1>2, <2>1, <2>2
<1> HIDE DEF w
<1>6. /\ SinkIInv' /\ emitter'.depth = w.depth /\ emitter'.broken = w.broken
  BY <1>2, <1>3, <1>5, CatCalls DEF e
<1>7. w.ok => w.broken = e.broken BY <1>5 DEF Makes
<1>8. result' \in {"reading", "false"} /\ (result' = "reading" => w.ok)
  BY <1>3 DEF Returned
<1>9. CatTypes' BY <1>2, <1>3, <1>8, EmptySeq DEF CatTypes
<1>10. ~InEntries' BY <1>4 DEF InEntries
<1>11. w.ok => open' = emitter'.depth + 0 BY <1>1, <1>2, <1>4, <1>5, <1>6
<1>12. props' = <<>> BY <1>2, <1>3
<1> QED BY <1>1, <1>2, <1>3, <1>6, <1>7, <1>8, <1>9, <1>10, <1>11, <1>12, StillReading

LEMMA CatArgumentKeeps ==
    ASSUME CatIInv, result = "reading", NEW room \in Nat, NEW v \in AllValues,
           CatArgument(v, room)
    PROVE  CatIInv'
<1> DEFINE e == Calling(emitter, room)
           s == <<Mark("WHITESPACE")>> \o Value(v, e.opt)
           w == EmitArg(e, v)
<1>1. /\ e \in EmitterRecords /\ InStep(e, nesting, fresh) /\ e.ok
      /\ e.depth = emitter.depth /\ e.start_of_line = emitter.start_of_line
      /\ e.broken = emitter.broken
  BY CallBegins DEF CatIInv
<1>2. /\ nesting \in Int /\ fresh \in BOOLEAN /\ SinkIInv /\ CatTypes
      /\ open = emitter.depth + (IF in_node_list THEN 0 ELSE 1)
      /\ emitter.broken = FALSE /\ ~in_node_list /\ ~emitter.start_of_line
  BY DEF CatArgument, CatIInv, SinkIInv, EmitterFollowsTheNodes, ReadingInLine,
         EmitterRecords
<1>3. /\ Emitted(w) /\ result' = Returned(w) /\ latest' = "ARGUMENT" /\ open' = open
      /\ in_node_list' = in_node_list /\ props' = props
  BY DEF CatArgument, Source!Entry
<1>4. e.opt \in Options BY <1>1 DEF EmitterRecords
<1>5. Inline(s) BY <1>4, ArgIsInline
<1>6. w = Write(e, s) BY DEF EmitArg
<1> HIDE DEF e, s, w
<1>7. /\ Makes(e, w) /\ InStep(w, nesting, fresh)
      /\ w.depth = e.depth /\ w.start_of_line = e.start_of_line
  BY <1>1, <1>2, <1>5, <1>6, EntryEmitted
<1>8. /\ SinkIInv' /\ emitter'.depth = w.depth /\ emitter'.start_of_line = w.start_of_line
      /\ emitter'.broken = w.broken
  BY <1>2, <1>3, <1>7, CatCalls DEF e
<1>9. w.ok => w.broken = e.broken BY <1>7 DEF Makes
<1>10. result' \in {"reading", "false"} /\ (result' = "reading" => w.ok)
  BY <1>3 DEF Returned
<1>11. CatTypes' BY <1>2, <1>3, <1>10 DEF CatTypes
<1>12. InEntries' BY <1>3 DEF InEntries
<1> QED BY <1>1, <1>2, <1>3, <1>7, <1>8, <1>9, <1>10, <1>11, <1>12, StillReading

LEMMA CatPropertyKeeps ==
    ASSUME CatIInv, result = "reading", NEW key \in Keys, NEW v \in Values,
           CatProperty(key, v)
    PROVE  CatIInv'
<1>1. /\ SinkIInv /\ CatTypes /\ props \in Seq(HeldProps)
      /\ open = emitter.depth + (IF in_node_list THEN 0 ELSE 1)
      /\ ~emitter.broken /\ ~in_node_list /\ ~emitter.start_of_line
  BY DEF CatProperty, CatIInv, CatTypes, EmitterFollowsTheNodes, ReadingInLine
<1>2. /\ Emitted(Calling(emitter, 0)) /\ result' = "reading" /\ latest' = "PROPERTY"
      /\ open' = open /\ in_node_list' = in_node_list
      /\ props' = Append(props, [name |-> key, value |-> v])
  BY DEF CatProperty, Source!Entry
<1>3. [name |-> key, value |-> v] \in HeldProps BY DEF HeldProps
<1>4. props' \in Seq(HeldProps) BY <1>1, <1>2, <1>3, AppendProperties
<1>5. CatTypes' BY <1>1, <1>2, <1>4 DEF CatTypes
<1>6. /\ SinkIInv' /\ emitter'.depth = emitter.depth
      /\ emitter'.start_of_line = emitter.start_of_line /\ emitter'.broken = emitter.broken
  BY <1>1, <1>2, CatIsSilent
<1>7. InEntries' BY <1>2 DEF InEntries
<1> QED BY <1>1, <1>2, <1>5, <1>6, <1>7, StillReading

\* kdl_emit_end leaves a text that is complete, unless a write has failed by then.
LEMMA CatEnding ==
    ASSUME SinkIInv, NEW room \in Nat, Emitted(EmitEnd(Calling(emitter, room)))
    PROVE  /\ SinkIInv'
           /\ ~emitter'.broken => /\ EmitEnd(Calling(emitter, room)).ok
                                  /\ nesting' = 0 /\ fresh'
           /\ EmitEnd(Calling(emitter, room)).ok => emitter'.broken = emitter.broken
<1> DEFINE e == Calling(emitter, room)
           w == EmitEnd(e)
<1>1. /\ e \in EmitterRecords /\ InStep(e, nesting, fresh) /\ e.ok
      /\ e.broken = emitter.broken
  BY CallBegins
<1>2. nesting \in Int /\ fresh \in BOOLEAN BY DEF SinkIInv
<1>3. /\ Makes(e, w) /\ InStep(w, nesting, fresh)
      /\ ~w.ok => w.broken
      /\ w.ok => w.depth = 0 /\ w.start_of_line
  BY <1>1, <1>2, EndEmitted
<1>4. /\ SinkIInv' /\ emitter'.depth = w.depth
      /\ emitter'.start_of_line = w.start_of_line /\ emitter'.broken = w.broken
  BY <1>3, CatCalls
<1> HIDE DEF w, e
<1>5. BracesMatchDepth' /\ LineStartIsKnown' BY <1>4 DEF SinkIInv
<1>6. ~emitter'.broken => w.ok /\ nesting' = 0 /\ fresh'
  BY <1>3, <1>4, <1>5 DEF BracesMatchDepth, LineStartIsKnown
<1>7. w.ok => emitter'.broken = emitter.broken BY <1>1, <1>3, <1>4 DEF Makes
<1> QED BY <1>4, <1>6, <1>7 DEF w, e

LEMMA CatEndKeeps ==
    ASSUME CatIInv, result = "reading", NEW room \in Nat, CatEnd(room)
    PROVE  CatIInv'
<1> DEFINE w == EmitEnd(Calling(emitter, room))
<1>1. SinkIInv /\ CatTypes /\ emitter.broken = FALSE
  BY DEF CatIInv, ReadingInLine, SinkIInv, EmitterRecords
<1>2. /\ Emitted(w) /\ result' = IF w.ok THEN "true" ELSE "false"
      /\ in_node_list' = in_node_list /\ props' = props
  BY DEF CatEnd
<1>3. /\ SinkIInv'
      /\ ~emitter'.broken => w.ok /\ nesting' = 0 /\ fresh'
      /\ w.ok => emitter'.broken = emitter.broken
  BY <1>1, <1>2, CatEnding
<1> HIDE DEF w
<1>4. result' \in {"true", "false"} /\ (result' = "true" => w.ok) BY <1>2
<1>5. CatTypes' BY <1>1, <1>2, <1>4 DEF CatTypes
<1>6. result' # "reading" /\ ~Destroyed' BY <1>4 DEF Destroyed
<1>7. TrueMeansWritten' BY <1>1, <1>3, <1>4 DEF TrueMeansWritten
<1> QED BY <1>3, <1>5, <1>6, <1>7
        DEF CatIInv, EmitterFollowsTheNodes, PropertiesStayWithTheirNode, ReadingInLine,
            TextIsClosedInTheEnd

LEMMA CatParseErrorKeeps ==
    ASSUME CatIInv, result = "reading", CatParseError
    PROVE  CatIInv'
<1>1. SinkIInv /\ CatTypes BY DEF CatIInv
<1>2. /\ Emitted(Calling(emitter, 0)) /\ result' = "false"
      /\ in_node_list' = in_node_list /\ props' = props
  BY DEF CatParseError
<1>3. SinkIInv' BY <1>1, <1>2, CatIsSilent
<1>4. CatTypes' BY <1>1, <1>2 DEF CatTypes
<1> QED BY <1>2, <1>3, <1>4, StillReading

LEMMA DestroyEmitterKeeps ==
    ASSUME CatIInv, NEW room \in Nat, DestroyEmitter(room)
    PROVE  CatIInv'
<1>1. SinkIInv /\ CatTypes BY DEF CatIInv
<1>2. /\ Emitted(EmitEnd(Calling(emitter, room)))
      /\ result' \in {"true, destroyed", "false, destroyed"}
      /\ in_node_list' = in_node_list /\ props' = props
  BY DEF DestroyEmitter
<1>3. SinkIInv' /\ (~emitter'.broken => nesting' = 0 /\ fresh')
  BY <1>1, <1>2, CatEnding
<1>4. CatTypes' BY <1>1, <1>2 DEF CatTypes
<1>5. TextIsClosedInTheEnd' BY <1>3 DEF TextIsClosedInTheEnd
<1>6. result' # "reading" /\ result' # "true" BY <1>2
<1> QED BY <1>3, <1>4, <1>5, <1>6
        DEF CatIInv, EmitterFollowsTheNodes, PropertiesStayWithTheirNode, ReadingInLine,
            TrueMeansWritten

LEMMA CatStutters ==
    ASSUME CatIInv, UNCHANGED catVars
    PROVE  CatIInv'
<1>1. /\ emitter' = emitter /\ nesting' = nesting /\ fresh' = fresh /\ latest' = latest
      /\ open' = open /\ in_node_list' = in_node_list /\ props' = props
      /\ result' = result
  BY DEF catVars, emitterVars, sinkVars
<1> QED BY <1>1 DEF CatIInv, SinkIInv, BracesMatchDepth, LineStartIsKnown, CatTypes,
                    EmitterFollowsTheNodes, PropertiesStayWithTheirNode, ReadingInLine,
                    InEntries, TrueMeansWritten, TextIsClosedInTheEnd, Destroyed

LEMMA CatSteps ==
    ASSUME CatIInv, CatNext
    PROVE  CatIInv'
<1>1. Rooms \subseteq Nat /\ Texts \subseteq TextKinds /\ Values \subseteq AllValues
  BY RoomsAssumption, TextsAssumption, ValuesAssumption DEF AllValues
<1>2. ASSUME NEW room \in Rooms, CatRead(room) PROVE CatIInv'
  <2>1. room \in Nat BY <1>1
  <2>2. result = "reading" BY <1>2 DEF CatRead
  <2>3. CASE \E type \in Texts \cup {None}, name \in Texts : CatStartNode(type, name, room)
    <3>1. PICK type \in Texts \cup {None}, name \in Texts : CatStartNode(type, name, room)
      BY <2>3
    <3>2. type \in TextKinds \cup {None} /\ name \in TextKinds BY <1>1
    <3> QED BY <2>1, <2>2, <3>1, <3>2, CatStartNodeKeeps
  <2>4. CASE CatEndNode(room) BY <2>1, <2>2, <2>4, CatEndNodeKeeps
  <2>5. CASE \E v \in Values : CatArgument(v, room)
    <3>1. PICK v \in Values : CatArgument(v, room) BY <2>5
    <3>2. v \in AllValues BY <1>1
    <3> QED BY <2>1, <2>2, <3>1, <3>2, CatArgumentKeeps
  <2>6. CASE \E key \in Keys, v \in Values : CatProperty(key, v)
    <3>1. PICK key \in Keys, v \in Values : CatProperty(key, v) BY <2>6
    <3> QED BY <2>2, <3>1, CatPropertyKeeps
  <2>7. CASE CatEnd(room) BY <2>1, <2>2, <2>7, CatEndKeeps
  <2>8. CASE CatParseError BY <2>2, <2>8, CatParseErrorKeeps
  <2> QED BY <1>2, <2>3, <2>4, <2>5, <2>6, <2>7, <2>8 DEF CatRead
<1>3. ASSUME NEW room \in Rooms, DestroyEmitter(room) PROVE CatIInv'
  <2>1. room \in Nat BY <1>1
  <2> QED BY <1>3, <2>1, DestroyEmitterKeeps
<1>4. CASE Destroyed /\ UNCHANGED catVars BY <1>4, CatStutters
<1> QED BY <1>2, <1>3, <1>4 DEF CatNext

-----------------------------------------------------------------------------
(* What ckdl-cat promises. *)

\* Whatever the document, and wherever the sink fails, the state of ckdl-cat stays sound.
THEOREM CatInvariant == CatSpec => []CatIInv
<1>1. CatInit => CatIInv BY CatInitially
<1>2. CatIInv /\ [CatNext]_catVars => CatIInv' BY CatSteps, CatStutters
<1> QED BY <1>1, <1>2, PTL DEF CatSpec

\* Without a stack ckdl-cat knows whose braces are open: kdl_finish_emitting_children is
\* called for the nodes that have some and for no other.
THEOREM EmitterFollows == CatSpec => []EmitterFollowsTheNodes
<1>1. CatIInv => EmitterFollowsTheNodes BY DEF CatIInv
<1> QED BY <1>1, CatInvariant, PTL

\* No property is written at a node it does not belong to.
THEOREM PropertiesStay == CatSpec => []PropertiesStayWithTheirNode
<1>1. CatIInv => PropertiesStayWithTheirNode BY DEF CatIInv
<1> QED BY <1>1, CatInvariant, PTL

\* The result true means that all has been written.
THEOREM TrueIsWritten == CatSpec => []TrueMeansWritten
<1>1. CatIInv => TrueMeansWritten BY DEF CatIInv
<1> QED BY <1>1, CatInvariant, PTL

\* The destructor closes what a parse error has left open.
THEOREM TextIsClosed == CatSpec => []TextIsClosedInTheEnd
<1>1. CatIInv => TextIsClosedInTheEnd BY DEF CatIInv
<1> QED BY <1>1, CatInvariant, PTL

-----------------------------------------------------------------------------
(***************************************************************************)
(* A reader of what is written: where it stands in a line, and what has    *)
(* been written that it has still to report.                               *)
(***************************************************************************)
Spots == {"line", "indented", "opened", "word", "entry", "key", "key_ended", "value", "closed"}
Outside == {"line", "indented", "opened"}
Stages == {"none", "opening", "named", "ended"}     \* of a type annotation
Sayings == [kind : {"START_NODE", "END_NODE", "ARGUMENT", "PROPERTY"}, annotated : BOOLEAN]

Places == [at : Spots, stage : Stages, bare : BOOLEAN, blocks : Nat, left : Seq(Sayings)]

Says(kind, annotated) == [kind |-> kind, annotated |-> annotated]
Due(a, kind, annotated) == a.left # <<>> /\ Head(a.left) = Says(kind, annotated)

\* Lexemes that are strings in version v, those that are other values, and those that
\* may be the value of an argument or a property.
IsName(x, v) ==
    \/ x = QuotedString
    \/ x = Lexeme("WORD", "either")
    \/ x = Lexeme("WORD", IF v = "v1" THEN "onlyV1" ELSE "onlyV2")
IsOther(x, v) ==
    \/ x = Lexeme("WORD", "number")
    \/ x = Lexeme("WORD", IF v = "v1" THEN "keywordV1" ELSE "keywordV2")
IsValue(x, v) == IsOther(x, v) \/ (IsName(x, v) /\ (v = "v1" => x.type = "STRING"))

\* Where a reader stands when an item or a node is over, or a block starts or ends.
ItemOver(a) == [a EXCEPT !.at = "word", !.stage = "none", !.left = Tail(a.left)]
NodeOver(a) == [a EXCEPT !.at = "line", !.left = Tail(a.left)]
BlockOpen(a) == [a EXCEPT !.at = "opened", !.blocks = a.blocks + 1]
BlockOver(a) == [a EXCEPT !.at = "closed", !.blocks = a.blocks - 1]

Moves(v, a, x, b) ==
    \/ /\ x = Mark("WHITESPACE") /\ a.stage = "none"
       /\ \/ a.at = "line" /\ b = [a EXCEPT !.at = "indented"]
          \/ a.at = "word" /\ b = [a EXCEPT !.at = "entry"]
          \/ a.at = "key" /\ b = [a EXCEPT !.at = "key_ended"]
    \/ /\ x = Mark("NEWLINE") /\ a.stage = "none"
       /\ \/ a.at = "opened" /\ b = [a EXCEPT !.at = "line"]
          \/ /\ a.at \in {"word", "closed"} /\ Due(a, "END_NODE", FALSE)
             /\ b = NodeOver(a)
    \/ /\ a.at \in {"line", "indented", "entry", "value"}
       /\ \/ /\ x = Mark("START_TYPE") /\ a.stage = "none"
             /\ b = [a EXCEPT !.stage = "opening"]
          \/ IsName(x, v) /\ a.stage = "opening" /\ b = [a EXCEPT !.stage = "named"]
          \/ /\ x = Mark("END_TYPE") /\ a.stage = "named"
             /\ b = [a EXCEPT !.stage = "ended"]
    \/ /\ IsName(x, v) /\ a.at \in {"line", "indented"} /\ a.stage \in {"none", "ended"}
       /\ Due(a, "START_NODE", a.stage = "ended")
       /\ b = ItemOver(a)
    \/ /\ x = Mark("END_CHILDREN") /\ a.at \in {"line", "indented"} /\ a.stage = "none"
       /\ a.blocks > 0
       /\ b = BlockOver(a)
    \/ /\ x = Mark("START_CHILDREN") /\ a.at = "entry" /\ a.stage = "none"
       /\ a.blocks < MaxDepth
       /\ b = BlockOpen(a)
    \/ /\ IsName(x, v) /\ a.at = "entry" /\ a.stage = "none"
       /\ b = [a EXCEPT !.at = "key", !.bare = (x.type = "WORD")]
    \/ /\ IsValue(x, v) /\ a.at = "entry" /\ a.stage \in {"none", "ended"}
       /\ a.stage = "none" => IsOther(x, v)
       /\ Due(a, "ARGUMENT", a.stage = "ended")
       /\ b = ItemOver(a)
    \/ /\ x = Mark("EQUALS") /\ a.at = "key" /\ a.stage = "none"
       /\ b = [a EXCEPT !.at = "value"]
    \/ /\ IsValue(x, v) /\ a.at = "value" /\ a.stage \in {"none", "ended"}
       /\ Due(a, "PROPERTY", a.stage = "ended")
       /\ b = ItemOver(a)

\* A string that turns out to be an argument.
Argues(v, a, x) ==
    /\ a.at \in {"key", "key_ended"} /\ a.stage = "none"
    /\ x.type \notin {"EQUALS", "WHITESPACE"}
    /\ Due(a, "ARGUMENT", FALSE)
    /\ a.bare => v = "v2"
Argued(a) == [a EXCEPT !.at = IF a.at = "key" THEN "word" ELSE "entry", !.left = Tail(a.left)]

Reads(v, a, x, b) == Moves(v, a, x, b) \/ (Argues(v, a, x) /\ Moves(v, Argued(a), x, b))

Path(v, a, s, b) ==
    \E f \in [0..Len(s) -> Places] :
        /\ f[0] = a /\ f[Len(s)] = b
        /\ \A i \in 1..Len(s) : Reads(v, f[i - 1], s[i], f[i])

-----------------------------------------------------------------------------
(* The parser stands where the reader does. *)

StageFlags(a) ==
    CASE a.stage = "opening" -> {"TYPE_ANNOTATION_START"}
      [] a.stage = "named" -> {"TYPE_ANNOTATION_END"}
      [] a.stage = "ended" -> {"TYPE_ANNOTATION_ENDED"}
      [] OTHER -> {}
BareFlags(a) == IF a.bare THEN {"BARE_PROPERTY_NAME"} ELSE {}
SpotFlags(a) ==
    CASE a.at = "word" -> {"WHITESPACE_REQUIRED"}
      [] a.at = "key" -> {"MAYBE_IN_PROPERTY"} \cup BareFlags(a)
      [] a.at = "key_ended" ->
             {"MAYBE_IN_PROPERTY", "CONTEXTUALLY_ILLEGAL_WHITESPACE"} \cup BareFlags(a)
      [] a.at = "value" -> {"IN_PROPERTY"} \cup BareFlags(a)
      [] a.at = "closed" -> {"END_OF_NODE"}
      [] OTHER -> {}

Follows(a) ==
    /\ last \notin {"EOF", "SINGLE_LINE_COMMENT"}
    /\ last = "WHITESPACE" => a.at \in {"indented", "entry", "key_ended"} /\ a.stage = "none"
    /\ last = "WORD" => (a.at \in {"word", "key"} /\ a.stage = "none") \/ a.stage = "named"

Bears(a) ==
    /\ mode = IF a.at \in Outside THEN "OUTSIDE_NODE" ELSE "IN_NODE"
    /\ depth = 2 * a.blocks + (IF a.at \in Outside THEN 0 ELSE 1)
    /\ slashdash_depth = -1
    /\ waiting_type_annotation = IF a.stage \in {"named", "ended"} THEN TRUE ELSE FALSE

Stands(a) ==
    /\ Bears(a)
    /\ flags = StageFlags(a) \cup SpotFlags(a)
    /\ IF next_token = Parser!NoToken THEN Follows(a) ELSE last = next_token.type

OnTheWay == IF next_token = Parser!NoToken THEN text ELSE <<next_token>> \o text

-----------------------------------------------------------------------------
(* Where all that is written leads. *)

EndSaid == Says("END_NODE", FALSE)
ArgumentSaid == Says("ARGUMENT", FALSE)

\* Behind a name or a value: a string may still turn out to be a key, so the argument it
\* was written as is owed until the next lexeme.
InLine(v, b, n, L) ==
    /\ b \in Places /\ b.stage = "none" /\ b.blocks = n
    /\ \/ b.at = "word" /\ b.left = L
       \/ b.at = "key" /\ (b.bare => v = "v2") /\ b.left = <<ArgumentSaid>> \o L
AtLine(b, n, L) ==
    b \in Places /\ b.stage = "none" /\ b.blocks = n /\ b.at = "line" /\ b.left = L

\* What the emitter's depth and start_of_line and the Boolean of ckdl-cat say of the place
\* that a reader comes to: in as many blocks, at the start of a line or in one, and owed the
\* end of the node or nothing.
Settled(b) ==
    IF emitter.start_of_line THEN AtLine(b, emitter.depth, <<>>)
    ELSE InLine(emitter.opt.version, b, emitter.depth,
                IF in_node_list THEN <<EndSaid>> ELSE <<>>)

\* The parser stands at a place, owed what it has not reported, and the text on the way to it
\* is a path to where the writer is.
ReadIInv ==
    /\ result \in {"reading", "true", "false"}
    /\ version \in {emitter.opt.version, "detect"}
    /\ text \in Seq(Lexemes) /\ said \in Seq(Sayings)
    /\ next_token \in Lexemes \cup {Parser!NoToken}
    /\ \/ event.kind = "EOF" /\ result = "true" /\ AllRead /\ said = <<>>
       \/ /\ ~Parser!Finished
          /\ \E a, b \in Places :
                /\ a.left = said /\ Stands(a)
                /\ Path(emitter.opt.version, a, OnTheWay, b)
                /\ result # "false" => Settled(b)

RoundTripIInv == CatIInv /\ ReadIInv
-----------------------------------------------------------------------------
(* Paths. *)

LEMMA PathIsTyped ==
    ASSUME NEW v, NEW a, NEW s \in Seq(Lexemes), NEW b, Path(v, a, s, b)
    PROVE  a \in Places /\ b \in Places
<1>1. Len(s) \in Nat BY LenProperties
<1>2. 0 \in 0..Len(s) /\ Len(s) \in 0..Len(s) BY <1>1
<1> QED BY <1>2 DEF Path

LEMMA NoPath ==
    ASSUME NEW v, NEW a \in Places
    PROVE  Path(v, a, <<>>, a) /\ \A b : Path(v, a, <<>>, b) => b = a
<1>1. Len(<<>>) = 0 OBVIOUS
<1>2. Path(v, a, <<>>, a)
  <2> DEFINE f == [i \in 0..0 |-> a]
  <2>1. f \in [0..0 -> Places] /\ f[0] = a OBVIOUS
  <2>2. \A i \in 1..0 : FALSE OBVIOUS
  <2> HIDE DEF f
  <2> QED BY <1>1, <2>1, <2>2 DEF Path
<1> QED BY <1>1, <1>2 DEF Path

LEMMA OneStep ==
    ASSUME NEW v, NEW a \in Places, NEW x, NEW b \in Places, Reads(v, a, x, b)
    PROVE  Path(v, a, <<x>>, b)
<1> DEFINE f == [i \in 0..1 |-> IF i = 0 THEN a ELSE b]
           s == <<x>>
<1>1. f \in [0..1 -> Places] /\ f[0] = a /\ f[1] = b OBVIOUS
<1>2. Len(s) = 1 /\ s[1] = x OBVIOUS
<1> HIDE DEF f, s
<1>3. \A i \in 1..1 : Reads(v, f[i - 1], s[i], f[i])
  <2>1. \A i \in 1..1 : i = 1 /\ i - 1 = 0 OBVIOUS
  <2> QED BY <1>1, <1>2, <2>1
<1>4. Path(v, a, s, b) BY <1>1, <1>2, <1>3 DEF Path
<1> QED BY <1>4 DEF s

LEMMA Joined ==
    ASSUME NEW v, NEW a, NEW b, NEW c, NEW s \in Seq(Lexemes), NEW t \in Seq(Lexemes),
           Path(v, a, s, b), Path(v, b, t, c)
    PROVE  Path(v, a, s \o t, c)
<1> DEFINE n == Len(s)
           m == Len(t)
<1>1. n \in Nat /\ m \in Nat BY LenProperties
<1>2. /\ Len(s \o t) = n + m
      /\ \A i \in 1..(n + m) : (s \o t)[i] = IF i <= n THEN s[i] ELSE t[i - n]
  BY ConcatProperties
<1>3. PICK f \in [0..n -> Places] :
          f[0] = a /\ f[n] = b /\ \A i \in 1..n : Reads(v, f[i - 1], s[i], f[i])
  BY DEF Path
<1>4. PICK g \in [0..m -> Places] :
          g[0] = b /\ g[m] = c /\ \A i \in 1..m : Reads(v, g[i - 1], t[i], g[i])
  BY DEF Path
<1> DEFINE h == [i \in 0..(n + m) |-> IF i <= n THEN f[i] ELSE g[i - n]]
           w == s \o t
<1> HIDE DEF n, m, w
<1>5. h \in [0..(n + m) -> Places]
  <2> SUFFICES ASSUME NEW i \in 0..(n + m)
               PROVE  (IF i <= n THEN f[i] ELSE g[i - n]) \in Places
    OBVIOUS
  <2>1. i <= n => i \in 0..n BY <1>1
  <2>2. ~(i <= n) => i - n \in 0..m BY <1>1
  <2> QED BY <2>1, <2>2
<1>6. \A i \in 0..(n + m) : h[i] = IF i <= n THEN f[i] ELSE g[i - n] OBVIOUS
<1> HIDE DEF h
<1>7. h[0] = a /\ h[n + m] = c
  <2>1. 0 \in 0..(n + m) /\ n + m \in 0..(n + m) /\ 0 <= n BY <1>1
  <2>2. n + m <= n => m = 0 /\ n + m = n BY <1>1
  <2>3. n + m - n = m BY <1>1
  <2>4. h[0] = a BY <1>3, <1>6, <2>1
  <2>5. h[n + m] = c
    <3>1. CASE m = 0
      <4>1. n + m = n /\ n <= n BY <1>1, <3>1
      <4> QED BY <1>3, <1>4, <1>6, <2>1, <3>1, <4>1
    <3>2. CASE m # 0
      <4>1. ~(n + m <= n) BY <1>1, <3>2
      <4>2. PICK k \in 0..(n + m) : k = n + m BY <2>1
      <4>3. k - n = m /\ ~(k <= n) BY <1>1, <4>1, <4>2
      <4>4. h[k] = g[k - n] BY <1>6, <4>3
      <4> QED BY <1>4, <4>2, <4>3, <4>4
    <3> QED BY <3>1, <3>2
  <2> QED BY <2>4, <2>5
<1>8. \A i \in 1..(n + m) : Reads(v, h[i - 1], w[i], h[i])
  <2> SUFFICES ASSUME NEW i \in 1..(n + m) PROVE Reads(v, h[i - 1], w[i], h[i])
    OBVIOUS
  <2>1. i \in 0..(n + m) /\ i - 1 \in 0..(n + m) BY <1>1
  <2>2. CASE i <= n
    <3>1. i \in 1..n /\ i - 1 <= n BY <1>1, <2>2
    <3>2. h[i - 1] = f[i - 1] /\ h[i] = f[i] /\ w[i] = s[i]
      BY <1>2, <1>6, <2>1, <2>2, <3>1 DEF n, m, w
    <3> QED BY <1>3, <3>1, <3>2
  <2>3. CASE i > n
    <3>1. i - n \in 1..m /\ ~(i <= n) /\ (i - n) - 1 = (i - 1) - n BY <1>1, <2>3
    <3>2. h[i] = g[i - n] /\ w[i] = t[i - n] BY <1>2, <1>6, <2>1, <3>1 DEF n, m, w
    <3>3. h[i - 1] = g[(i - n) - 1]
      <4>1. CASE i - 1 <= n
        <5>1. i - 1 = n /\ (i - n) - 1 = 0 BY <1>1, <2>3, <4>1
        <5> QED BY <1>3, <1>4, <1>6, <2>1, <4>1, <5>1
      <4>2. CASE ~(i - 1 <= n) BY <1>6, <2>1, <3>1, <4>2
      <4> QED BY <4>1, <4>2
    <3> QED BY <1>4, <3>1, <3>2, <3>3
  <2> QED BY <1>1, <2>2, <2>3
<1>9. Len(w) = n + m BY <1>2 DEF n, m, w
<1>10. Path(v, a, w, c) BY <1>5, <1>7, <1>8, <1>9 DEF Path
<1> QED BY <1>10 DEF w

LEMMA PathBegun ==
    ASSUME NEW v, NEW a, NEW b, NEW s \in Seq(Lexemes), Path(v, a, s, b), NEW k \in 0..Len(s)
    PROVE  \E c \in Places : Path(v, a, SubSeq(s, 1, k), c)
<1> DEFINE n == Len(s)
           t == SubSeq(s, 1, k)
<1>1. n \in Nat BY LenProperties
<1>2. PICK f \in [0..n -> Places] :
          f[0] = a /\ f[n] = b /\ \A i \in 1..n : Reads(v, f[i - 1], s[i], f[i])
  BY DEF Path
<1>3. \A i \in 1..k : i \in 1..n BY <1>1
<1>4. Len(t) = k /\ \A i \in 1..k : t[i] = s[i]
  <2>1. \A i \in 1..k : s[i] \in Lexemes BY <1>3, ElementOfSeq
  <2>2. k \in Nat BY <1>1
  <2> QED BY <2>1, <2>2, SubSeqProperties
<1> HIDE DEF t
<1> DEFINE g == [i \in 0..k |-> f[i]]
<1>5. g \in [0..k -> Places] BY <1>1
<1>6. \A i \in 0..k : g[i] = f[i] OBVIOUS
<1> HIDE DEF g
<1>7. \A i \in 1..k : Reads(v, g[i - 1], t[i], g[i])
  <2> SUFFICES ASSUME NEW i \in 1..k PROVE Reads(v, g[i - 1], t[i], g[i]) OBVIOUS
  <2>1. i \in 0..k /\ i - 1 \in 0..k BY <1>1
  <2> QED BY <1>2, <1>3, <1>4, <1>6, <2>1
<1>8. 0 \in 0..k /\ k \in 0..k BY <1>1
<1>9. Path(v, a, t, g[k]) /\ g[k] \in Places BY <1>2, <1>4, <1>5, <1>6, <1>7, <1>8 DEF Path
<1> QED BY <1>9 DEF t

LEMMA FirstStep ==
    ASSUME NEW v, NEW a, NEW b, NEW s \in Seq(Lexemes), s # <<>>, Path(v, a, s, b)
    PROVE  \E c \in Places : Reads(v, a, Head(s), c) /\ Path(v, c, Tail(s), b)
<1> DEFINE n == Len(s)
           t == Tail(s)
<1>1. n \in Nat /\ n > 0 BY LenProperties, EmptySeq
<1>2. PICK f \in [0..n -> Places] :
          f[0] = a /\ f[n] = b /\ \A i \in 1..n : Reads(v, f[i - 1], s[i], f[i])
  BY DEF Path
<1>3. Head(s) = s[1] /\ Len(t) = n - 1 /\ \A i \in 1..(n - 1) : t[i] = s[i + 1]
  BY HeadTailProperties
<1> HIDE DEF t, n
<1> DEFINE g == [i \in 0..(n - 1) |-> f[i + 1]]
<1>4. g \in [0..(n - 1) -> Places] BY <1>1
<1>5. \A i \in 0..(n - 1) : g[i] = f[i + 1] OBVIOUS
<1> HIDE DEF g
<1>6. \A i \in 1..(n - 1) : Reads(v, g[i - 1], t[i], g[i])
  <2> SUFFICES ASSUME NEW i \in 1..(n - 1) PROVE Reads(v, g[i - 1], t[i], g[i]) OBVIOUS
  <2>1. i \in 0..(n - 1) /\ i - 1 \in 0..(n - 1) /\ i + 1 \in 1..n
        /\ (i + 1) - 1 = i /\ (i - 1) + 1 = i
    BY <1>1
  <2>2. Reads(v, f[(i + 1) - 1], s[i + 1], f[i + 1]) BY <1>2, <2>1
  <2> QED BY <1>3, <1>5, <2>1, <2>2
<1>7. 0 \in 0..(n - 1) /\ n - 1 \in 0..(n - 1) /\ 0 + 1 = 1 /\ (n - 1) + 1 = n BY <1>1
<1>8. g[0] = f[1] /\ g[n - 1] = b /\ g[0] \in Places BY <1>2, <1>4, <1>5, <1>7
<1>9. Path(v, g[0], t, b) BY <1>3, <1>4, <1>6, <1>8 DEF Path
<1>10. Reads(v, a, s[1], f[1])
  <2>1. 1 \in 1..n /\ 1 - 1 = 0 BY <1>1
  <2> QED BY <1>2, <2>1
<1> QED BY <1>3, <1>8, <1>9, <1>10 DEF t

-----------------------------------------------------------------------------
(* What is written of a value or a node takes the reader through a line. *)

Names == (Texts \cup {KeyTexts[k] : k \in Keys} \cup {v.type_annotation : v \in Values}) \ {None}

WrittenAsMeant ==
    \A opt \in Options :
        /\ \A name \in Names :
               Parser!Reading(BareString(name, opt).class, opt.version) = "string"
        /\ \A v \in Values :
               Parser!Reading(ValueLexeme(v, opt).class, opt.version) =
                   IF v.type = "STRING" THEN "string" ELSE "other"

LEMMA NamesAreTexts == Names \subseteq TextKinds
<1>1. \A k \in Keys : KeyTexts[k] \in TextKinds
  BY KeyTextsAssumption, ElementOfSeq DEF Keys
<1>2. \A v \in Values : v.type_annotation \in TextKinds \cup {None} BY ValuesAssumption
<1> QED BY <1>1, <1>2, TextsAssumption DEF Names

LEMMA StringRead ==
    ASSUME NEW opt \in Options, NEW string \in TextKinds,
           Parser!Reading(BareString(string, opt).class, opt.version) = "string"
    PROVE  IsName(BareString(string, opt), opt.version)
<1>1. opt.version \in {"v1", "v2"} BY OptionsAssumption
<1> DEFINE x == BareString(string, opt)
<1>2. CASE x = QuotedString BY <1>2 DEF IsName
<1>3. CASE x # QuotedString
  <2>1. x = Lexeme("WORD", WordClass[string]) /\ IsIdentifier(string, opt.version)
    BY <1>3 DEF BareString
  <2>2. /\ WordClass["plain"] = "either" /\ WordClass["unicode"] = "either"
        /\ WordClass["keyword"] = "keywordV1" /\ WordClass["special"] = "onlyV1"
        /\ WordClass["numeric"] = "number" /\ WordClass["hash"] = "onlyV1"
        /\ WordClass["newer"] = "onlyV2"
    BY DEF WordClass
  <2>3. x.class = WordClass[string] BY <2>1 DEF Lexeme
  <2>4. Parser!Reading(WordClass[string], opt.version) = "string" BY <2>3
  <2> HIDE DEF x
  <2>5. string \in {"plain", "unicode", "keyword", "special", "numeric", "hash", "newer"}
    BY <2>1, <1>1 DEF IsIdentifier
  <2>6. WordClass[string] \in {"either", IF opt.version = "v1" THEN "onlyV1" ELSE "onlyV2"}
    BY <1>1, <2>2, <2>4, <2>5 DEF Parser!Reading, Parser!V1Reading, Parser!V2Reading
  <2> QED BY <2>1, <2>6 DEF IsName, x
<1> QED BY <1>2, <1>3

LEMMA NameRead ==
    ASSUME WrittenAsMeant, NEW opt \in Options, NEW string \in Names
    PROVE  IsName(BareString(string, opt), opt.version)
BY StringRead, NamesAreTexts DEF WrittenAsMeant

LEMMA ValueLexemeRead ==
    ASSUME WrittenAsMeant, NEW opt \in Options, NEW val \in Values
    PROVE  /\ IsValue(ValueLexeme(val, opt), opt.version)
           /\ IF val.type = "STRING" THEN IsName(ValueLexeme(val, opt), opt.version)
              ELSE IsOther(ValueLexeme(val, opt), opt.version)
<1>1. opt.version \in {"v1", "v2"} BY OptionsAssumption
<1>2. val.type \in {"STRING", "NUMBER", "INFINITE", "KEYWORD"} /\ val.text \in TextKinds
  BY ValuesAssumption
<1> DEFINE x == ValueLexeme(val, opt)
<1>3. Parser!Reading(x.class, opt.version) = IF val.type = "STRING" THEN "string" ELSE "other"
  BY DEF WrittenAsMeant
<1>4. CASE val.type = "STRING"
  <2>1. CASE opt.version = "v1"
    <3>1. x = QuotedString BY <1>4, <2>1 DEF ValueLexeme
    <3> QED BY <1>4, <3>1 DEF IsName, IsValue, QuotedString, Lexeme
  <2>2. CASE opt.version = "v2"
    <3>1. x = BareString(val.text, opt) BY <1>4, <2>2 DEF ValueLexeme
    <3>2. IsName(x, opt.version) BY <1>2, <1>3, <1>4, <3>1, StringRead
    <3> QED BY <1>4, <2>2, <3>2 DEF IsValue
  <2> QED BY <1>1, <2>1, <2>2
<1>5. CASE val.type # "STRING"
  <2>1. \/ val.type = "NUMBER" /\ x = Lexeme("WORD", "number")
        \/ val.type = "INFINITE" /\ x = Lexeme("WORD", "keywordV2")
        \/ /\ val.type = "KEYWORD"
           /\ x = Lexeme("WORD", IF opt.version = "v1" THEN "keywordV1" ELSE "keywordV2")
    BY <1>2, <1>5 DEF ValueLexeme
  <2>2. x = Lexeme("WORD", "keywordV2") => opt.version = "v2"
    BY <1>1, <1>3, <1>5 DEF Lexeme, Parser!Reading, Parser!V1Reading
  <2> QED BY <1>1, <1>5, <2>1, <2>2 DEF IsOther, IsValue
<1> QED BY <1>4, <1>5

LEMMA Queue ==
    ASSUME NEW S, NEW x \in S, NEW L \in Seq(S)
    PROVE  /\ <<x>> \o L \in Seq(S) /\ <<x>> \o L # <<>>
           /\ Head(<<x>> \o L) = x /\ Tail(<<x>> \o L) = L
<1> DEFINE s == <<x>>
           w == s \o L
<1>1. s \in Seq(S) /\ Len(s) = 1 /\ s[1] = x OBVIOUS
<1> HIDE DEF s
<1>2. Len(L) \in Nat BY LenProperties
<1>3. w \in Seq(S) /\ Len(w) = 1 + Len(L)
      /\ \A i \in 1..(1 + Len(L)) : w[i] = IF i <= 1 THEN s[i] ELSE L[i - 1]
  <2>1. /\ w \in Seq(S) /\ Len(w) = Len(s) + Len(L)
        /\ \A i \in 1..(Len(s) + Len(L)) : w[i] = IF i <= Len(s) THEN s[i] ELSE L[i - Len(s)]
    BY <1>1, ConcatProperties
  <2> HIDE DEF w
  <2> QED BY <1>1, <2>1
<1> HIDE DEF w
<1>4. w # <<>> BY <1>2, <1>3, EmptySeq
<1>5. Head(w) = x
  <2>1. Head(w) = w[1] BY <1>3, <1>4, HeadTailProperties
  <2>2. 1 \in 1..(1 + Len(L)) BY <1>2
  <2> QED BY <1>1, <1>3, <2>1, <2>2
<1>6. Tail(w) = L
  <2> DEFINE t == Tail(w)
  <2>1. t \in Seq(S) /\ Len(t) = Len(w) - 1 /\ \A i \in 1..Len(t) : t[i] = w[i + 1]
    BY <1>3, <1>4, HeadTailProperties
  <2> HIDE DEF t
  <2>2. Len(t) = Len(L) BY <1>2, <1>3, <2>1
  <2>3. \A i \in 1..Len(L) : t[i] = L[i]
    <3> SUFFICES ASSUME NEW i \in 1..Len(L) PROVE t[i] = L[i] OBVIOUS
    <3>1. i + 1 \in 1..(1 + Len(L)) /\ ~(i + 1 <= 1) /\ (i + 1) - 1 = i BY <1>2
    <3> QED BY <1>3, <2>1, <2>2, <3>1
  <2> QED BY <2>1, <2>2, <2>3, SeqEqual DEF t
<1> QED BY <1>3, <1>4, <1>5, <1>6 DEF w, s

LEMMA Pair ==
    ASSUME NEW S, NEW s \in Seq(S), NEW t \in Seq(S), NEW w \in Seq(S), Len(t) = 1,
           Len(w) = Len(s) + 1, \A i \in 1..Len(s) : w[i] = s[i], w[Len(s) + 1] = t[1]
    PROVE  s \o t = w
<1> DEFINE c == s \o t
           n == Len(s)
<1>1. n \in Nat BY LenProperties
<1>2. /\ c \in Seq(S) /\ Len(c) = n + 1
      /\ \A i \in 1..(n + 1) : c[i] = IF i <= n THEN s[i] ELSE t[i - n]
  <2>1. /\ c \in Seq(S) /\ Len(c) = Len(s) + Len(t)
        /\ \A i \in 1..(Len(s) + Len(t)) : c[i] = IF i <= Len(s) THEN s[i] ELSE t[i - Len(s)]
    BY ConcatProperties
  <2> HIDE DEF c
  <2> QED BY <2>1
<1> HIDE DEF c, n
<1>3. \A i \in 1..(n + 1) : c[i] = w[i]
  <2> SUFFICES ASSUME NEW i \in 1..(n + 1) PROVE c[i] = w[i] OBVIOUS
  <2>1. CASE i <= n
    <3>1. i \in 1..n BY <1>1, <2>1
    <3> QED BY <1>2, <2>1, <3>1 DEF n
  <2>2. CASE ~(i <= n)
    <3>1. i = n + 1 /\ i - n = 1 BY <1>1, <2>2
    <3> QED BY <1>2, <2>2, <3>1 DEF n
  <2> QED BY <2>1, <2>2
<1>4. Len(w) = n + 1 BY DEF n
<1>5. c = w BY <1>2, <1>3, <1>4, SeqEqual
<1> QED BY <1>5 DEF c

LEMMA Tuples ==
    ASSUME NEW S, NEW x \in S, NEW y \in S, NEW z \in S
    PROVE  /\ <<x>> \o <<y>> = <<x, y>> /\ <<x>> \o (<<y>> \o <<z>>) = <<x, y, z>>
           /\ <<x>> \in Seq(S) /\ <<x, y>> \in Seq(S) /\ <<x, y, z>> \in Seq(S)
<1>1. <<x>> \in Seq(S) /\ <<y>> \in Seq(S) /\ <<z>> \in Seq(S) /\ <<x, y>> \in Seq(S)
      /\ <<x, y, z>> \in Seq(S)
  OBVIOUS
<1>2. <<x>> \o <<y>> = <<x, y>>
  <2>1. Len(<<x>>) = 1 /\ Len(<<y>>) = 1 /\ Len(<<x, y>>) = 1 + 1
        /\ (\A i \in 1..1 : <<x, y>>[i] = <<x>>[i]) /\ <<x, y>>[1 + 1] = <<y>>[1]
    OBVIOUS
  <2> QED BY <1>1, <2>1, Pair
<1>3. <<x, y>> \o <<z>> = <<x, y, z>>
  <2>1. Len(<<x, y>>) = 2 /\ Len(<<z>>) = 1 /\ Len(<<x, y, z>>) = 2 + 1
        /\ (\A i \in 1..2 : <<x, y, z>>[i] = <<x, y>>[i]) /\ <<x, y, z>>[2 + 1] = <<z>>[1]
    OBVIOUS
  <2> QED BY <1>1, <2>1, Pair
<1>4. <<x>> \o (<<y>> \o <<z>>) = (<<x>> \o <<y>>) \o <<z>> BY <1>1, ConcatAssociative
<1> QED BY <1>1, <1>2, <1>3, <1>4

LEMMA SayingsAreTyped ==
    /\ EndSaid \in Sayings /\ ArgumentSaid \in Sayings
    /\ \A kind \in {"START_NODE", "END_NODE", "ARGUMENT", "PROPERTY"}, a \in BOOLEAN :
           Says(kind, a) \in Sayings
BY DEF EndSaid, ArgumentSaid, Says, Sayings

\* What is due comes first of what is left.
LEMMA First ==
    ASSUME NEW a, NEW kind \in {"START_NODE", "END_NODE", "ARGUMENT", "PROPERTY"},
           NEW annotated \in BOOLEAN, NEW L \in Seq(Sayings),
           a.left = <<Says(kind, annotated)>> \o L
    PROVE  Due(a, kind, annotated) /\ Tail(a.left) = L
<1> DEFINE x == Says(kind, annotated)
<1>1. x \in Sayings BY SayingsAreTyped
<1>2. a.left = <<x>> \o L OBVIOUS
<1> HIDE DEF x
<1>3. a.left # <<>> /\ Head(a.left) = x /\ Tail(a.left) = L BY <1>1, <1>2, Queue
<1> QED BY <1>3 DEF Due, x

\* One lexeme more in front.
LEMMA StepFirst ==
    ASSUME NEW v, NEW a \in Places, NEW x \in Lexemes, NEW b \in Places, Reads(v, a, x, b),
           NEW t \in Seq(Lexemes), NEW c, Path(v, b, t, c)
    PROVE  Path(v, a, <<x>> \o t, c)
<1>1. <<x>> \in Seq(Lexemes) OBVIOUS
<1>2. Path(v, a, <<x>>, b) BY OneStep
<1> QED BY <1>1, <1>2, Joined

LEMMA ArguedPath ==
    ASSUME NEW v, NEW a \in Places, NEW s \in Seq(Lexemes), s # <<>>, Argues(v, a, s[1]),
           NEW c, Path(v, Argued(a), s, c)
    PROVE  Path(v, a, s, c)
<1>1. s[1] \in Lexemes /\ Tail(s) \in Seq(Lexemes) /\ Head(s) = s[1]
  <2>1. Head(s) \in Lexemes /\ Tail(s) \in Seq(Lexemes) BY HeadTailProperties
  <2> QED BY <2>1
<1>2. PICK d \in Places : Reads(v, Argued(a), Head(s), d) /\ Path(v, d, Tail(s), c)
  BY FirstStep
<1>3. Argued(a).at \notin {"key", "key_ended"}
  BY DEF Argued, Argues, Places
<1>4. Moves(v, Argued(a), s[1], d) BY <1>1, <1>2, <1>3 DEF Reads, Argues
<1>5. Reads(v, a, s[1], d) BY <1>4 DEF Reads
<1>6. Path(v, a, <<s[1]>> \o Tail(s), c) BY <1>1, <1>2, <1>5, StepFirst
<1>7. <<s[1]>> \o Tail(s) = s
  <2> DEFINE y == s[1]
             t == Tail(s)
             w == <<y>> \o t
  <2>1. Len(s) \in Nat /\ Len(s) > 0 BY LenProperties, EmptySeq
  <2>2. t \in Seq(Lexemes) /\ Len(t) = Len(s) - 1 /\ \A i \in 1..Len(t) : t[i] = s[i + 1]
    BY HeadTailProperties
  <2>3. <<y>> \in Seq(Lexemes) /\ Len(<<y>>) = 1 /\ <<y>>[1] = y BY <1>1
  <2> HIDE DEF t, y
  <2>4. w \in Seq(Lexemes) /\ Len(w) = 1 + Len(t)
        /\ \A i \in 1..(1 + Len(t)) : w[i] = IF i <= 1 THEN <<y>>[i] ELSE t[i - 1]
    BY <2>2, <2>3, ConcatProperties
  <2> HIDE DEF w
  <2>5. Len(w) = Len(s) BY <2>1, <2>2, <2>4
  <2>6. \A i \in 1..Len(s) : w[i] = s[i]
    <3> SUFFICES ASSUME NEW i \in 1..Len(s) PROVE w[i] = s[i] OBVIOUS
    <3>1. CASE i = 1 BY <2>1, <2>2, <2>3, <2>4, <3>1 DEF y
    <3>2. CASE i # 1
      <4>1. i \in 1..(1 + Len(t)) /\ ~(i <= 1) /\ i - 1 \in 1..Len(t) /\ (i - 1) + 1 = i
        BY <2>1, <2>2, <3>2
      <4> QED BY <2>2, <2>4, <4>1
    <3> QED BY <3>1, <3>2
  <2>7. w = s BY <2>4, <2>5, <2>6, SeqEqual
  <2> QED BY <2>7 DEF w, y, t
<1> QED BY <1>6, <1>7

Annotatable == {"line", "indented", "entry", "value"}
Annotated(a, string) == IF string = None THEN a ELSE [a EXCEPT !.stage = "ended"]

LEMMA MarksAreLexemes ==
    \A type \in LexemeTypes : Mark(type) \in Lexemes /\ Mark(type).type = type
BY MarkIsLexeme

LEMMA NamesAreLexemes ==
    ASSUME NEW v, NEW x, IsName(x, v) \/ IsOther(x, v)
    PROVE  x \in Lexemes /\ x.type \in {"WORD", "STRING"}
BY DEF IsName, IsOther, QuotedString, Lexeme, Lexemes, LexemeTypes, LexemeClasses

LEMMA AnnotationRead ==
    ASSUME WrittenAsMeant, NEW opt \in Options, NEW string \in Names \cup {None},
           NEW a \in Places, a.at \in Annotatable, a.stage = "none"
    PROVE  /\ Path(opt.version, a, Annotation(string, opt), Annotated(a, string))
           /\ Annotated(a, string) \in Places
           /\ Annotation(string, opt) \in Seq(Lexemes)
<1> DEFINE v == opt.version
<1>1. CASE string = None
  BY <1>1, NoPath, EmptySeq DEF Annotation, Annotated
<1>2. CASE string # None
  <2> DEFINE b == [a EXCEPT !.stage = "opening"]
             c == [a EXCEPT !.stage = "named"]
             d == [a EXCEPT !.stage = "ended"]
             x == BareString(string, opt)
             y == Mark("START_TYPE")
             z == Mark("END_TYPE")
  <2>1. b \in Places /\ c \in Places /\ d \in Places BY DEF Places, Stages
  <2>2. IsName(x, v) BY <1>2, NameRead
  <2>3. x \in Lexemes BY <2>2, NamesAreLexemes
  <2>4. y \in Lexemes /\ z \in Lexemes BY MarksAreLexemes DEF LexemeTypes
  <2>5. Reads(v, a, y, b) BY DEF Reads, Moves, Annotatable
  <2>6. Reads(v, b, x, c)
    <3>1. b.at = a.at /\ b.stage = "opening" /\ c = [b EXCEPT !.stage = "named"]
      BY DEF Places
    <3> HIDE DEF b, c
    <3> QED BY <2>2, <3>1 DEF Reads, Moves, Annotatable
  <2>7. Reads(v, c, z, d)
    <3>1. c.at = a.at /\ c.stage = "named" /\ d = [c EXCEPT !.stage = "ended"]
      BY DEF Places
    <3> HIDE DEF c, d
    <3> QED BY <3>1 DEF Reads, Moves, Annotatable
  <2>8. Annotation(string, opt) = <<y, x, z>> /\ Annotated(a, string) = d
    BY <1>2 DEF Annotation, Annotated
  <2> HIDE DEF b, c, d, x, y, z, v
  <2>9. Path(v, c, <<z>>, d) BY <2>1, <2>7, OneStep
  <2>10. <<z>> \in Seq(Lexemes) /\ <<x, z>> \in Seq(Lexemes) BY <2>3, <2>4, Tuples
  <2>11. Path(v, b, <<x>> \o <<z>>, d) BY <2>1, <2>3, <2>6, <2>9, <2>10, StepFirst
  <2>12. <<x>> \o <<z>> \in Seq(Lexemes) BY <2>3, <2>4, Tuples
  <2>13. Path(v, a, <<y>> \o (<<x>> \o <<z>>), d)
    BY <2>1, <2>4, <2>5, <2>11, <2>12, StepFirst
  <2>14. <<y>> \o (<<x>> \o <<z>>) = <<y, x, z>> /\ <<y, x, z>> \in Seq(Lexemes)
    BY <2>3, <2>4, Tuples
  <2> QED BY <2>1, <2>8, <2>13, <2>14 DEF v
<1> QED BY <1>1, <1>2

\* The value of an argument or of a property, and what it is reported as.
LEMMA ValueRead ==
    ASSUME WrittenAsMeant, NEW opt \in Options, NEW val \in Values,
           NEW n, NEW L \in Seq(Sayings), NEW a \in Places, a.stage = "none", a.blocks = n,
           \/ a.at = "entry" /\ a.left = <<Says("ARGUMENT", val.type_annotation # None)>> \o L
           \/ a.at = "value" /\ a.left = <<Says("PROPERTY", val.type_annotation # None)>> \o L
    PROVE  \E c \in Places : /\ InLine(opt.version, c, n, L)
                             /\ Path(opt.version, a, Value(val, opt), c)
<1> DEFINE v == opt.version
           x == ValueLexeme(val, opt)
           t == val.type_annotation
           s == Annotation(t, opt)
           b == Annotated(a, t)
<1>1. t \in Names \cup {None} BY DEF Names
<1>2. Path(v, a, s, b) /\ b \in Places /\ s \in Seq(Lexemes)
  BY <1>1, AnnotationRead DEF Annotatable
<1>3. IsValue(x, v) /\ (IF val.type = "STRING" THEN IsName(x, v) ELSE IsOther(x, v))
  BY ValueLexemeRead
<1>4. x \in Lexemes BY <1>3, NamesAreLexemes DEF IsValue
<1>5. /\ b.at = a.at /\ b.blocks = n /\ b.left = a.left /\ b.bare = a.bare
      /\ b.stage = IF t = None THEN "none" ELSE "ended"
  BY DEF Annotated, Places
<1>6. Value(val, opt) = s \o <<x>>
  <2>1. Value(val, opt) = Append(s, x) BY DEF Value
  <2> HIDE DEF s, x
  <2> QED BY <1>2, <1>4, <2>1, AppendIsConcat
<1>7. v \in {"v1", "v2"} BY OptionsAssumption
<1>8. \E c \in Places : InLine(v, c, n, L) /\ Reads(v, b, x, c)
  <2> HIDE DEF s, x, v, b
  <2> DEFINE c == ItemOver(b)
  <2>1. CASE a.at = "value"
    <3>1. Due(b, "PROPERTY", t # None) /\ Tail(b.left) = L BY <1>5, <2>1, First
    <3>2. c \in Places /\ InLine(v, c, n, L) BY <1>2, <1>5, <3>1 DEF ItemOver, Places, Spots, Stages, InLine
    <3>3. (t # None) = (b.stage = "ended") BY <1>5
    <3>4. Reads(v, b, x, c) BY <1>3, <1>5, <2>1, <3>1, <3>3 DEF Reads, Moves
    <3> QED BY <3>2, <3>4
  <2>2. CASE a.at = "entry" /\ (t # None \/ val.type # "STRING")
    <3>1. Due(b, "ARGUMENT", t # None) /\ Tail(b.left) = L BY <1>5, <2>2, First
    <3>2. c \in Places /\ InLine(v, c, n, L) BY <1>2, <1>5, <3>1 DEF ItemOver, Places, Spots, Stages, InLine
    <3>3. (t # None) = (b.stage = "ended") BY <1>5
    <3>4. Reads(v, b, x, c) BY <1>3, <1>5, <2>2, <3>1, <3>3 DEF Reads, Moves
    <3> QED BY <3>2, <3>4
  <2>3. CASE a.at = "entry" /\ t = None /\ val.type = "STRING"
    <3> DEFINE d == [b EXCEPT !.at = "key", !.bare = (x.type = "WORD")]
    <3>1. (x.type = "WORD") \in BOOLEAN OBVIOUS
    <3>2. d \in Places /\ d.at = "key" /\ d.stage = "none" /\ d.blocks = n
          /\ d.left = b.left /\ d.bare = (x.type = "WORD")
      BY <1>2, <1>5, <2>3, <3>1 DEF Places, Spots
    <3>3. b.left = <<ArgumentSaid>> \o L
      BY <1>5, <2>3 DEF ArgumentSaid
    <3>4. x.type = "WORD" => v = "v2" BY <1>3, <1>7, <2>3 DEF IsValue, IsOther, IsName, QuotedString, Lexeme
    <3>5. Reads(v, b, x, d) BY <1>3, <1>5, <2>3 DEF Reads, Moves
    <3> HIDE DEF d
    <3> QED BY <3>2, <3>3, <3>4, <3>5 DEF InLine
  <2> QED BY <2>1, <2>2, <2>3
<1>9. PICK c \in Places : InLine(v, c, n, L) /\ Reads(v, b, x, c) BY <1>8
<1> HIDE DEF s, x, v, b
<1>10. Path(v, b, <<x>>, c) BY <1>2, <1>9, OneStep
<1>11. <<x>> \in Seq(Lexemes) BY <1>4
<1>12. Path(v, a, s \o <<x>>, c) BY <1>2, <1>10, <1>11, Joined
<1> QED BY <1>6, <1>9, <1>12 DEF v

\* Whitespace, and a lexeme that makes what came before it an argument if it was a string.
Behind(v, a, e) ==
    \A s \in Seq(Lexemes) : \A c :
        s # <<>> /\ s[1].type \notin {"EQUALS", "WHITESPACE"} /\ Path(v, e, s, c)
            => Path(v, a, <<Mark("WHITESPACE")>> \o s, c)

LEMMA EntryBegun ==
    ASSUME NEW v, NEW n, NEW L \in Seq(Sayings), NEW a, InLine(v, a, n, L)
    PROVE  \E e \in Places :
               /\ e.at = "entry" /\ e.stage = "none" /\ e.blocks = n /\ e.left = L
               /\ Behind(v, a, e)
<1> DEFINE ws == Mark("WHITESPACE")
<1>1. ws \in Lexemes BY MarksAreLexemes DEF LexemeTypes
<1>2. a \in Places /\ a.stage = "none" /\ a.blocks = n BY DEF InLine
<1>3. CASE a.at = "word" /\ a.left = L
  <2> DEFINE e == [a EXCEPT !.at = "entry"]
  <2>1. e \in Places /\ e.at = "entry" /\ e.stage = "none" /\ e.blocks = n /\ e.left = L
    BY <1>2, <1>3 DEF Places, Spots
  <2>2. Reads(v, a, ws, e) BY <1>2, <1>3 DEF Reads, Moves
  <2> HIDE DEF e, ws
  <2>3. ASSUME NEW s \in Seq(Lexemes), NEW c, Path(v, e, s, c) PROVE Path(v, a, <<ws>> \o s, c)
    BY <1>1, <1>2, <2>1, <2>2, <2>3, StepFirst
  <2>4. Behind(v, a, e) BY <2>3 DEF ws, Behind
  <2> QED BY <2>1, <2>4
<1>4. CASE a.at = "key" /\ (a.bare => v = "v2") /\ a.left = <<ArgumentSaid>> \o L
  <2> DEFINE k == [a EXCEPT !.at = "key_ended"]
             e == Argued(k)
  <2>1. k \in Places /\ k.at = "key_ended" /\ k.stage = "none" /\ k.blocks = n
        /\ k.left = <<ArgumentSaid>> \o L /\ (k.bare => v = "v2")
    BY <1>2, <1>4 DEF Places, Spots
  <2>2. Reads(v, a, ws, k) BY <1>2, <1>4 DEF Reads, Moves
  <2> HIDE DEF k
  <2>3. Due(k, "ARGUMENT", FALSE) /\ Tail(k.left) = L BY <2>1, First DEF ArgumentSaid
  <2>4. e \in Places /\ e.at = "entry" /\ e.stage = "none" /\ e.blocks = n /\ e.left = L
    BY <2>1, <2>3 DEF Argued, Places, Spots
  <2> HIDE DEF e, ws
  <2>5. ASSUME NEW s \in Seq(Lexemes), NEW c, s # <<>>,
               s[1].type \notin {"EQUALS", "WHITESPACE"}, Path(v, e, s, c)
        PROVE  Path(v, a, <<ws>> \o s, c)
    <3>1. Argues(v, k, s[1]) BY <2>1, <2>3, <2>5 DEF Argues
    <3>2. Path(v, k, s, c) BY <2>1, <2>5, <3>1, ArguedPath DEF e
    <3> QED BY <1>1, <1>2, <2>1, <2>2, <3>2, StepFirst
  <2>6. Behind(v, a, e) BY <2>5 DEF ws, Behind
  <2> QED BY <2>4, <2>6
<1> QED BY <1>3, <1>4 DEF InLine

LEMMA ValueBegins ==
    ASSUME NEW opt \in Options, NEW val \in Values
    PROVE  /\ Value(val, opt) \in Seq(Lexemes) /\ Value(val, opt) # <<>>
           /\ Value(val, opt)[1].type \notin {"EQUALS", "WHITESPACE"}
<1>1. val \in AllValues BY ValuesAssumption DEF AllValues
<1> DEFINE t == val.type_annotation
           s == Annotation(t, opt)
           x == ValueLexeme(val, opt)
           w == Value(val, opt)
<1>2. w \in Seq(Lexemes) /\ w # <<>> BY <1>1, ValueIsInline DEF Inline
<1>3. x \in Lexemes /\ x.type \in {"WORD", "STRING"} BY <1>1, ValueLexemeIsInline
<1>4. t \in TextKinds \cup {None} BY <1>1 DEF AllValues
<1>5. s \in Seq(Lexemes) BY <1>4, AnnotationIsInline
<1>6. w = s \o <<x>>
  <2>1. w = Append(s, x) BY DEF Value
  <2> HIDE DEF s, x, w
  <2> QED BY <1>3, <1>5, <2>1, AppendIsConcat
<1>7. s # <<>> => s[1].type = "START_TYPE" BY DEF Annotation, Mark, Lexeme
<1> HIDE DEF s, x, w
<1>8. w[1] = IF s = <<>> THEN x ELSE s[1]
  <2> DEFINE y == <<x>>
  <2>1. y \in Seq(Lexemes) /\ Len(y) = 1 /\ y[1] = x BY <1>3
  <2> HIDE DEF y
  <2>2. w = s \o y BY <1>6 DEF y
  <2>3. Len(s) \in Nat BY <1>5, LenProperties
  <2>4. \A i \in 1..(Len(s) + Len(y)) : w[i] = IF i <= Len(s) THEN s[i] ELSE y[i - Len(s)]
    BY <1>5, <2>1, <2>2, ConcatProperties
  <2>5. 1 \in 1..(Len(s) + 1) /\ (s = <<>> => Len(s) = 0) /\ (s # <<>> => 1 <= Len(s))
    BY <1>5, <2>3, EmptySeq
  <2> QED BY <2>1, <2>3, <2>4, <2>5
<1> QED BY <1>2, <1>3, <1>7, <1>8 DEF w

\* kdl_emit_arg
LEMMA ArgumentRead ==
    ASSUME WrittenAsMeant, NEW opt \in Options, NEW val \in Values, NEW n,
           NEW L \in Seq(Sayings), NEW a,
           InLine(opt.version, a, n, <<Says("ARGUMENT", val.type_annotation # None)>> \o L)
    PROVE  \E c \in Places :
               /\ InLine(opt.version, c, n, L)
               /\ Path(opt.version, a, <<Mark("WHITESPACE")>> \o Value(val, opt), c)
<1> DEFINE v == opt.version
           s == Value(val, opt)
           M == <<Says("ARGUMENT", val.type_annotation # None)>> \o L
<1>1. M \in Seq(Sayings) BY SayingsAreTyped, Queue
<1>2. s \in Seq(Lexemes) /\ s # <<>> /\ s[1].type \notin {"EQUALS", "WHITESPACE"}
  BY ValueBegins
<1> HIDE DEF s
<1>3. PICK e \in Places :
          /\ e.at = "entry" /\ e.stage = "none" /\ e.blocks = n /\ e.left = M
          /\ \A c : Path(v, e, s, c) => Path(v, a, <<Mark("WHITESPACE")>> \o s, c)
  <2> HIDE DEF M
  <2>1. InLine(v, a, n, M) BY DEF M
  <2> QED BY <1>1, <1>2, <2>1, EntryBegun DEF Behind
<1>4. PICK c \in Places : InLine(v, c, n, L) /\ Path(v, e, s, c)
  BY <1>3, ValueRead DEF s
<1> QED BY <1>3, <1>4 DEF s

\* kdl_emit_property
LEMMA PropertyRead ==
    ASSUME WrittenAsMeant, NEW opt \in Options, NEW val \in Values, NEW name \in Names,
           NEW n, NEW L \in Seq(Sayings), NEW a,
           InLine(opt.version, a, n, <<Says("PROPERTY", val.type_annotation # None)>> \o L)
    PROVE  \E c \in Places :
               /\ InLine(opt.version, c, n, L)
               /\ Path(opt.version, a, <<Mark("WHITESPACE"), BareString(name, opt), Mark("EQUALS")>>
                                       \o Value(val, opt), c)
<1> DEFINE v == opt.version
           s == Value(val, opt)
           M == <<Says("PROPERTY", val.type_annotation # None)>> \o L
           x == BareString(name, opt)
           y == Mark("EQUALS")
           ws == Mark("WHITESPACE")
           p == <<x>> \o (<<y>> \o s)
<1>1. M \in Seq(Sayings) BY SayingsAreTyped, Queue
<1>2. s \in Seq(Lexemes) BY ValueBegins
<1>3. y \in Lexemes /\ ws \in Lexemes BY MarksAreLexemes DEF LexemeTypes
<1>4. IsName(x, v) BY NameRead
<1>5. x \in Lexemes /\ x.type \in {"WORD", "STRING"} BY <1>4, NamesAreLexemes
<1>6. <<y>> \o s \in Seq(Lexemes) /\ p \in Seq(Lexemes) /\ p # <<>> /\ p[1] = x
  <2> HIDE DEF s, x, y
  <2>1. <<y>> \o s \in Seq(Lexemes) BY <1>2, <1>3, Queue
  <2>2. p \in Seq(Lexemes) /\ p # <<>> /\ Head(p) = x BY <1>5, <2>1, Queue
  <2> HIDE DEF p
  <2>3. p[1] = x BY <2>2
  <2> QED BY <2>1, <2>2, <2>3
<1>7. <<ws, x, y>> \o s = <<ws>> \o p
  <2> HIDE DEF s, x, y, ws
  <2>1. <<ws>> \o (<<x>> \o <<y>>) = <<ws, x, y>> BY <1>3, <1>5, Tuples
  <2>2. <<ws>> \in Seq(Lexemes) /\ <<x>> \in Seq(Lexemes) /\ <<y>> \in Seq(Lexemes)
        /\ <<x>> \o <<y>> \in Seq(Lexemes)
    BY <1>3, <1>5, Tuples
  <2>3. (<<ws>> \o (<<x>> \o <<y>>)) \o s = <<ws>> \o ((<<x>> \o <<y>>) \o s)
    BY <1>2, <2>2, ConcatAssociative
  <2>4. (<<x>> \o <<y>>) \o s = <<x>> \o (<<y>> \o s) BY <1>2, <2>2, ConcatAssociative
  <2> QED BY <2>1, <2>3, <2>4
<1>8. PICK e \in Places :
          /\ e.at = "entry" /\ e.stage = "none" /\ e.blocks = n /\ e.left = M
          /\ \A c : Path(v, e, p, c) => Path(v, a, <<ws>> \o p, c)
  <2>1. InLine(v, a, n, M) OBVIOUS
  <2> HIDE DEF M, p, x, v, ws
  <2>2. PICK e \in Places :
            /\ e.at = "entry" /\ e.stage = "none" /\ e.blocks = n /\ e.left = M
            /\ Behind(v, a, e)
    BY <1>1, <2>1, EntryBegun
  <2>3. p[1].type \notin {"EQUALS", "WHITESPACE"} BY <1>5, <1>6
  <2>4. \A c : Path(v, e, p, c) => Path(v, a, <<ws>> \o p, c) BY <1>6, <2>2, <2>3 DEF Behind, ws
  <2> QED BY <2>2, <2>4
<1> DEFINE k == [e EXCEPT !.at = "key", !.bare = (x.type = "WORD")]
           d == [k EXCEPT !.at = "value"]
<1>9. k \in Places /\ k.at = "key" /\ k.stage = "none" /\ k.blocks = n /\ k.left = M
  <2>1. (x.type = "WORD") \in BOOLEAN OBVIOUS
  <2> HIDE DEF x, M
  <2> QED BY <1>8, <2>1 DEF Places, Spots
<1>10. Reads(v, e, x, k) BY <1>4, <1>8 DEF Reads, Moves
<1> HIDE DEF k
<1>11. d \in Places /\ d.at = "value" /\ d.stage = "none" /\ d.blocks = n /\ d.left = M
  BY <1>9 DEF Places, Spots
<1>12. Reads(v, k, y, d) BY <1>9 DEF Reads, Moves
<1> HIDE DEF d
<1>13. PICK c \in Places : InLine(v, c, n, L) /\ Path(v, d, s, c)
  BY <1>11, ValueRead
<1> HIDE DEF s, x, y, ws, v
<1>14. Path(v, k, <<y>> \o s, c)
  BY <1>2, <1>3, <1>9, <1>11, <1>12, <1>13, StepFirst
<1>15. Path(v, e, p, c)
  BY <1>5, <1>6, <1>8, <1>9, <1>10, <1>14, StepFirst
<1> HIDE DEF p
<1>16. Path(v, a, <<ws>> \o p, c) BY <1>8, <1>15
<1> QED BY <1>7, <1>13, <1>16 DEF s, x, y, ws, v

-----------------------------------------------------------------------------
(* The parser takes every step the reader takes. *)

\* What a step of the parser does that reports `kind`, or nothing.
Took(v, b, kind, annotated) ==
    /\ Stands(b)' /\ next_token' = Parser!NoToken /\ version' \in {v, "detect"}
    /\ event' = Parser!Event(kind, FALSE, annotated)

LEMMA Upright ==
    ASSUME NEW a \in Places, Stands(a)
    PROVE  /\ Bears(a) /\ depth \in Nat
           /\ flags = StageFlags(a) \cup SpotFlags(a)
           /\ a.stage = "none" => flags = SpotFlags(a)
           /\ "NEWLINES_ARE_WHITESPACE" \notin flags /\ Parser!live = flags
           /\ "LINE_CONT" \notin flags
<1>1. flags = StageFlags(a) \cup SpotFlags(a) BY DEF Stands
<1>2. a.stage = "none" => StageFlags(a) = {} BY DEF StageFlags
<1>3. \A f \in {"NEWLINES_ARE_WHITESPACE", "LINE_CONT"} :
          f \notin StageFlags(a) /\ f \notin SpotFlags(a)
  BY DEF StageFlags, SpotFlags, BareFlags
<1>4. Bears(a) /\ depth \in Nat BY DEF Stands, Bears, Places
<1>5. "NEWLINES_ARE_WHITESPACE" \notin flags /\ "LINE_CONT" \notin flags BY <1>1, <1>3
<1>6. Parser!live = flags BY <1>5 DEF Parser!live
<1> QED BY <1>1, <1>2, <1>4, <1>5, <1>6

LEMMA Handled ==
    ASSUME NEW a \in Places, Stands(a), NEW x \in Lexemes, Parser!Handle(x)
    PROVE  /\ ~Parser!Finished
           /\ next_token = Parser!NoToken \/ next_token = x
           /\ x.type = "WHITESPACE" => Parser!Spacing(x) \/ Parser!RejectBeforeDispatch(x)
           /\ x.type # "WHITESPACE" => Parser!Dispatch(x)
           /\ Parser!Consume(x) => last' = x.type /\ next_token' = Parser!NoToken
           /\ Parser!PutBack(x) => last' = x.type /\ next_token' = x
<1>1. x.type \in LexemeTypes /\ x # Parser!EndOfInput
  <2>1. x.type \in LexemeTypes /\ x.class \in LexemeClasses BY DEF Lexemes
  <2>2. Parser!EndOfInput.class \notin LexemeClasses
    BY Zenon DEF Parser!EndOfInput, LexemeClasses
  <2> QED BY <2>1, <2>2
<1>2. "NEWLINES_ARE_WHITESPACE" \notin flags BY Upright
<1>3. /\ Parser!IsSpace(x) <=> x.type = "WHITESPACE"
      /\ ~Parser!IsComment(x) /\ ~Parser!IsSlashdash(x)
  BY <1>1, <1>2 DEF LexemeTypes, Parser!IsSpace, Parser!IsComment, Parser!IsSlashdash
<1>4. /\ ~Parser!Finished
      /\ next_token = Parser!NoToken \/ next_token = x
  BY DEF Parser!Handle, Parser!Available
<1>5. x.type = "WHITESPACE" => Parser!Spacing(x) \/ Parser!RejectBeforeDispatch(x)
  BY <1>3 DEF Parser!Handle, Parser!Slashdash, Parser!Dispatched
<1>6. x.type # "WHITESPACE" => Parser!Dispatch(x)
  BY <1>3 DEF Parser!Handle, Parser!Slashdash, Parser!Spacing, Parser!RejectBeforeDispatch
<1>7. next_token # Parser!NoToken => last = x.type BY <1>4 DEF Stands
<1>8. Parser!Advance(x) => last' = x.type BY <1>1, <1>7 DEF Parser!Advance
<1> QED BY <1>4, <1>5, <1>6, <1>8 DEF Parser!Consume, Parser!PutBack

\* The handlers a lexeme may come to: outside a node, in one, and in a type annotation.
LEMMA HandledOutside ==
    ASSUME NEW x, mode = "OUTSIDE_NODE", Parser!live = flags, ~Parser!InAnnotation,
           Parser!Dispatch(x)
    PROVE  \/ Parser!BlankLine(x) \/ Parser!AnnotationOpen(x) \/ Parser!StartNode(x)
           \/ Parser!EndChildren(x) \/ Parser!LineContinuationOutside(x)
           \/ Parser!RejectOutside(x)
BY DEF Parser!Dispatch, Parser!AnnotationName, Parser!AnnotationClose,
       Parser!RejectInAnnotation, Parser!NextNode, Parser!NextEventInNode, Parser!InAnnotation

LEMMA HandledInside ==
    ASSUME NEW x, mode = "IN_NODE", Parser!live = flags, ~Parser!InAnnotation,
           Parser!Dispatch(x), "LINE_CONT" \notin flags, x.type # "LINE_CONTINUATION"
    PROVE  \/ /\ "MAYBE_IN_PROPERTY" \in flags
              /\ \/ Parser!PropertyKey(x) \/ Parser!PendingArgument(x)
                 \/ Parser!RejectPending(x)
           \/ /\ "MAYBE_IN_PROPERTY" \notin flags
              /\ \/ Parser!EndNode(x) \/ Parser!StartChildren(x)
                 \/ Parser!AnnotationOpen(x) /\ Parser!EntryAllowed
                 \/ Parser!PossibleKey(x) \/ Parser!Entry(x) \/ Parser!RejectEntry(x)
BY DEF Parser!Dispatch, Parser!AnnotationName, Parser!AnnotationClose,
       Parser!RejectInAnnotation, Parser!NextNode, Parser!NextEventInNode,
       Parser!InAnnotation, Parser!LineContinuationEnd, Parser!LineContinuation,
       Parser!RejectLineContinuation

LEMMA HandledInAnnotation ==
    ASSUME NEW x, Parser!live = flags, Parser!InAnnotation, "MAYBE_IN_PROPERTY" \notin flags,
           Parser!Dispatch(x), "LINE_CONT" \notin flags, x.type # "LINE_CONTINUATION"
    PROVE  \/ Parser!AnnotationName(x) \/ Parser!AnnotationClose(x)
           \/ Parser!RejectInAnnotation(x)
BY DEF Parser!Dispatch, Parser!NextNode, Parser!NextEventInNode, Parser!InAnnotation,
       Parser!LineContinuationEnd, Parser!LineContinuation, Parser!RejectLineContinuation

\* Where a lexeme that was taken leaves the parser.
LEMMA Left ==
    ASSUME NEW v, NEW a \in Places, Stands(a), NEW x \in Lexemes, Parser!Handle(x),
           Parser!Consume(x), NEW b \in Places, Bears(b)',
           flags' = StageFlags(b) \cup SpotFlags(b), version' \in {v, "detect"},
           x.type = "WHITESPACE" => b.at \in {"indented", "entry", "key_ended"} /\ b.stage = "none",
           x.type = "WORD" => (b.at \in {"word", "key"} /\ b.stage = "none") \/ b.stage = "named",
           NEW kind, NEW annotated, event' = Parser!Event(kind, FALSE, annotated)
    PROVE  Took(v, b, kind, annotated)
<1>1. last' = x.type /\ next_token' = Parser!NoToken BY Handled
<1>2. x.type \notin {"EOF", "SINGLE_LINE_COMMENT"} BY DEF Lexemes, LexemeTypes
<1>3. Follows(b)' BY <1>1, <1>2 DEF Follows
<1> QED BY <1>1, <1>3 DEF Took, Stands

LEMMA WhitespaceTaken ==
    ASSUME NEW v, NEW a \in Places, Stands(a), NEW x \in Lexemes, Parser!Handle(x),
           version \in {v, "detect"}, x = Mark("WHITESPACE"), a.stage = "none", NEW b \in Places,
           \/ a.at = "line" /\ b = [a EXCEPT !.at = "indented"]
           \/ a.at = "word" /\ b = [a EXCEPT !.at = "entry"]
           \/ a.at = "key" /\ b = [a EXCEPT !.at = "key_ended"]
    PROVE  Took(v, b, "NONE", FALSE)
<1>1. x.type = "WHITESPACE" BY DEF Mark, Lexeme
<1>2. Bears(a) /\ flags = SpotFlags(a) /\ "NEWLINES_ARE_WHITESPACE" \notin flags BY Upright
<1>3. flags \cap Parser!WhitespaceBannedV1 = {}
  BY <1>2 DEF SpotFlags, BareFlags, Parser!WhitespaceBannedV1
<1>4. Parser!SpacingAllowed BY <1>3 DEF Parser!SpacingAllowed, Parser!NeedsV2Spacing
<1>5. Parser!Spacing(x)
  <2>1. Parser!Spacing(x) \/ Parser!RejectBeforeDispatch(x) BY <1>1, Handled
  <2>2. ~Parser!IsSlashdash(x) BY <1>1 DEF Parser!IsSlashdash
  <2> QED BY <1>4, <2>1, <2>2 DEF Parser!RejectBeforeDispatch
<1>6. /\ Parser!AcceptSpacing(flags) /\ Parser!Consume(x)
      /\ event' = IF Parser!IsComment(x) THEN Parser!Event("COMMENT", FALSE, FALSE) ELSE Parser!NoEvent
      /\ mode' = mode /\ depth' = depth /\ slashdash_depth' = slashdash_depth
      /\ waiting_type_annotation' = waiting_type_annotation
  BY <1>5 DEF Parser!Spacing, Parser!place, Parser!waiting
<1>7. event' = Parser!Event("NONE", FALSE, FALSE)
  BY <1>1, <1>6 DEF Parser!IsComment, Parser!NoEvent
<1>8. /\ version' = version
      /\ flags' = (flags \ {"WHITESPACE_REQUIRED"}) \cup
                  (IF "MAYBE_IN_PROPERTY" \in flags
                   THEN {"CONTEXTUALLY_ILLEGAL_WHITESPACE"} ELSE {})
  BY <1>3, <1>6 DEF Parser!AcceptSpacing, Parser!NeedsV2Spacing
<1>9. /\ b.stage = "none" /\ b.blocks = a.blocks /\ b.bare = a.bare
      /\ b.at \in {"indented", "entry", "key_ended"}
      /\ (a.at \in Outside <=> b.at \in Outside)
  BY DEF Places, Outside
<1>10. flags' = StageFlags(b) \cup SpotFlags(b)
  <2>1. StageFlags(b) = {} BY <1>9 DEF StageFlags
  <2>2. BareFlags(b) = BareFlags(a) BY <1>9 DEF BareFlags
  <2>3. "MAYBE_IN_PROPERTY" \notin BareFlags(a) /\ "WHITESPACE_REQUIRED" \notin BareFlags(a)
    BY DEF BareFlags
  <2>4. CASE a.at = "line" BY <1>2, <1>8, <2>1, <2>4 DEF SpotFlags, Places
  <2>5. CASE a.at = "word" BY <1>2, <1>8, <2>1, <2>5 DEF SpotFlags, Places
  <2>6. CASE a.at = "key"
    <3>1. b.at = "key_ended" BY <2>6 DEF Places
    <3>2. flags = {"MAYBE_IN_PROPERTY"} \cup BareFlags(a) BY <1>2, <2>6 DEF SpotFlags
    <3>3. SpotFlags(b) = {"MAYBE_IN_PROPERTY", "CONTEXTUALLY_ILLEGAL_WHITESPACE"} \cup BareFlags(b)
      BY <3>1 DEF SpotFlags
    <3> QED BY <1>8, <2>1, <2>2, <2>3, <3>2, <3>3
  <2> QED BY <2>4, <2>5, <2>6
<1>11. Bears(b)' BY <1>2, <1>6, <1>9 DEF Bears
<1> QED BY <1>1, <1>6, <1>7, <1>8, <1>9, <1>10, <1>11, Left

LEMMA BlankLineTaken ==
    ASSUME NEW v, NEW a \in Places, Stands(a), NEW x \in Lexemes, Parser!Handle(x),
           version \in {v, "detect"}, x = Mark("NEWLINE"), a.stage = "none", NEW b \in Places,
           a.at = "opened", b = [a EXCEPT !.at = "line"]
    PROVE  Took(v, b, "NONE", FALSE)
<1>1. x.type = "NEWLINE" BY DEF Mark, Lexeme
<1>2. Bears(a) /\ Parser!live = flags /\ flags = {} /\ mode = "OUTSIDE_NODE"
  BY Upright DEF Bears, SpotFlags, Outside
<1>3. Parser!Dispatch(x) /\ ~Parser!InAnnotation BY <1>1, <1>2, Handled DEF Parser!InAnnotation
<1>4. Parser!BlankLine(x)
  BY <1>1, <1>2, <1>3, HandledOutside
     DEF Parser!AnnotationOpen, Parser!StartNode, Parser!EndChildren,
         Parser!LineContinuationOutside, Parser!RejectOutside, Parser!ValueTypes
<1>5. /\ flags' = {} /\ event' = Parser!NoEvent /\ Parser!Consume(x) /\ mode' = mode
      /\ depth' = depth /\ slashdash_depth' = slashdash_depth /\ version' = version
      /\ waiting_type_annotation' = waiting_type_annotation
  BY <1>2, <1>4 DEF Parser!BlankLine, Parser!place, Parser!waiting
<1>6. b.at = "line" /\ b.stage = "none" /\ b.blocks = a.blocks BY DEF Places
<1>7. flags' = StageFlags(b) \cup SpotFlags(b) BY <1>5, <1>6 DEF StageFlags, SpotFlags
<1>8. Bears(b)' BY <1>2, <1>5, <1>6 DEF Bears, Outside
<1> QED BY <1>1, <1>5, <1>6, <1>7, <1>8, Left DEF Parser!NoEvent

\* Nothing is hidden: an event is reported as what it is.
LEMMA NothingHidden ==
    ASSUME slashdash_depth = -1, NEW kind, NEW annotated, NEW d \in Nat,
           Parser!ApplySlashdash(kind, annotated, d)
    PROVE  slashdash_depth' = -1 /\ event' = Parser!Event(kind, FALSE, annotated)
<1>1. (slashdash_depth >= 0) = FALSE /\ slashdash_depth # d + 1 OBVIOUS
<1> QED BY <1>1 DEF Parser!ApplySlashdash, Parser!SlashdashEndingAt

LEMMA EndOfNodeTaken ==
    ASSUME NEW v, NEW a \in Places, Stands(a), NEW x \in Lexemes, Parser!Handle(x),
           version \in {v, "detect"}, x = Mark("NEWLINE"), a.stage = "none", NEW b \in Places,
           a.at \in {"word", "closed"}, b = NodeOver(a)
    PROVE  Took(v, b, "END_NODE", FALSE)
<1>1. x.type = "NEWLINE" BY DEF Mark, Lexeme
<1>2. /\ Bears(a) /\ Parser!live = flags /\ "LINE_CONT" \notin flags
      /\ flags \in {{"WHITESPACE_REQUIRED"}, {"END_OF_NODE"}} /\ mode = "IN_NODE"
  BY Upright DEF Bears, SpotFlags, Outside
<1>3. Parser!Dispatch(x) /\ ~Parser!InAnnotation BY <1>1, <1>2, Handled DEF Parser!InAnnotation
<1>4. Parser!EndNode(x)
  BY <1>1, <1>2, <1>3, HandledInside
     DEF Parser!EndsNode, Parser!StartChildren, Parser!AnnotationOpen, Parser!PossibleKey,
         Parser!Entry, Parser!RejectEntry, Parser!ValueTypes, Parser!NodeCannotEndHere,
         Parser!WhitespaceBannedV1
<1>5. /\ mode' = "OUTSIDE_NODE" /\ flags' = {} /\ depth' = depth - 1
      /\ Parser!ApplySlashdash("END_NODE", FALSE, depth - 1) /\ Parser!Consume(x)
      /\ version' = version /\ waiting_type_annotation' = waiting_type_annotation
  BY <1>1, <1>4 DEF Parser!EndNode, Parser!waiting
<1>6. b.at = "line" /\ b.stage = "none" /\ b.blocks = a.blocks /\ a.blocks \in Nat
  BY DEF NodeOver, Places
<1>7. flags' = StageFlags(b) \cup SpotFlags(b) BY <1>5, <1>6 DEF StageFlags, SpotFlags
<1>8. /\ depth = 2 * a.blocks + 1 /\ slashdash_depth = -1 /\ waiting_type_annotation = FALSE
  BY <1>2, <1>6 DEF Bears, Outside
<1>9. slashdash_depth' = -1 /\ event' = Parser!Event("END_NODE", FALSE, FALSE)
  <2>1. depth - 1 \in Nat BY <1>6, <1>8
  <2>2. Parser!ApplySlashdash("END_NODE", FALSE, depth - 1) BY <1>5
  <2> QED BY <1>8, <2>1, <2>2, NothingHidden
<1>10. Bears(b)'
  <2>1. depth' = 2 * b.blocks /\ b.at \in Outside /\ waiting_type_annotation' = FALSE
    BY <1>5, <1>6, <1>8 DEF Outside
  <2>2. 2 * b.blocks + 0 = 2 * b.blocks BY <1>6
  <2> QED BY <1>5, <1>6, <1>9, <2>1, <2>2 DEF Bears
<1> QED BY <1>1, <1>5, <1>6, <1>7, <1>9, <1>10, Left

\* How the parser reads a name and a value written in version v.
LEMMA NameMeant ==
    ASSUME NEW v \in {"v1", "v2"}, version \in {v, "detect"}, NEW x, IsName(x, v)
    PROVE  /\ x.type \in {"WORD", "STRING"}
           /\ Parser!Reading(x.class, version) = "string"
           /\ Parser!VersionAfter(x.class, version) \in {v, "detect"}
<1>1. x.type \in {"WORD", "STRING"} BY DEF IsName, QuotedString, Lexeme
<1>2. x.class \in {"either", IF v = "v1" THEN "onlyV1" ELSE "onlyV2"}
  BY DEF IsName, QuotedString, Lexeme
<1>3. Parser!Reading(x.class, version) = "string"
  BY <1>2 DEF Parser!Reading, Parser!V1Reading, Parser!V2Reading
<1>4. Parser!VersionAfter(x.class, version) \in {v, "detect"}
  BY <1>2 DEF Parser!VersionAfter
<1> QED BY <1>1, <1>3, <1>4

LEMMA OtherMeant ==
    ASSUME NEW v \in {"v1", "v2"}, version \in {v, "detect"}, NEW x, IsOther(x, v)
    PROVE  /\ x.type = "WORD"
           /\ Parser!Reading(x.class, version) = "other"
           /\ Parser!VersionAfter(x.class, version) \in {v, "detect"}
<1>1. x.type = "WORD" BY DEF IsOther, Lexeme
<1>2. x.class \in {"number", IF v = "v1" THEN "keywordV1" ELSE "keywordV2"}
  BY DEF IsOther, Lexeme
<1>3. Parser!Reading(x.class, version) = "other"
  BY <1>2 DEF Parser!Reading, Parser!V1Reading, Parser!V2Reading
<1>4. Parser!VersionAfter(x.class, version) \in {v, "detect"}
  BY <1>2 DEF Parser!VersionAfter
<1> QED BY <1>1, <1>3, <1>4

LEMMA ValueMeant ==
    ASSUME NEW v \in {"v1", "v2"}, version \in {v, "detect"}, NEW x, IsValue(x, v)
    PROVE  /\ x.type \in {"WORD", "STRING"}
           /\ Parser!Reading(x.class, version) # "rejected"
           /\ Parser!VersionAfter(x.class, version) \in {v, "detect"}
           /\ Parser!BareValue(x) => v = "v2"
<1>1. CASE IsOther(x, v)
  <2>1. /\ x.type = "WORD" /\ Parser!Reading(x.class, version) = "other"
        /\ Parser!VersionAfter(x.class, version) \in {v, "detect"}
    BY <1>1, OtherMeant
  <2> QED BY <2>1 DEF Parser!BareValue
<1>2. CASE IsName(x, v) /\ (v = "v1" => x.type = "STRING")
  <2>1. /\ x.type \in {"WORD", "STRING"} /\ Parser!Reading(x.class, version) = "string"
        /\ Parser!VersionAfter(x.class, version) \in {v, "detect"}
    BY <1>2, NameMeant
  <2> QED BY <1>2, <2>1 DEF Parser!BareValue
<1> QED BY <1>1, <1>2 DEF IsValue

LEMMA AnnotationOpened ==
    ASSUME NEW v, NEW a \in Places, Stands(a), NEW x \in Lexemes, Parser!Handle(x),
           version \in {v, "detect"}, x = Mark("START_TYPE"), a.stage = "none", NEW b \in Places,
           a.at \in Annotatable, b = [a EXCEPT !.stage = "opening"]
    PROVE  Took(v, b, "NONE", FALSE)
<1>1. x.type = "START_TYPE" BY DEF Mark, Lexeme
<1>2. Bears(a) /\ Parser!live = flags /\ "LINE_CONT" \notin flags /\ flags = SpotFlags(a)
  BY Upright
<1>3. flags \subseteq {"IN_PROPERTY", "BARE_PROPERTY_NAME"}
  BY <1>2 DEF SpotFlags, BareFlags, Annotatable
<1>4. Parser!Dispatch(x) /\ ~Parser!InAnnotation
  BY <1>1, <1>2, <1>3, Handled DEF Parser!InAnnotation
<1>5. Parser!AnnotationOpen(x)
  <2>1. CASE a.at \in Outside
    <3>1. mode = "OUTSIDE_NODE" BY <1>2, <2>1 DEF Bears
    <3> QED BY <1>1, <1>2, <1>4, <3>1, HandledOutside
            DEF Parser!BlankLine, Parser!StartNode, Parser!EndChildren,
                Parser!LineContinuationOutside, Parser!RejectOutside, Parser!ValueTypes
  <2>2. CASE a.at \notin Outside
    <3>1. mode = "IN_NODE" /\ "MAYBE_IN_PROPERTY" \notin flags BY <1>2, <1>3, <2>2 DEF Bears
    <3>2. Parser!EntryAllowed BY <1>2, <1>3 DEF Parser!EntryAllowed
    <3> QED BY <1>1, <1>2, <1>4, <3>1, <3>2, HandledInside
            DEF Parser!EndNode, Parser!EndsNode, Parser!StartChildren, Parser!PossibleKey,
                Parser!Entry, Parser!RejectEntry, Parser!ValueTypes
  <2> QED BY <2>1, <2>2
<1>6. /\ flags' = flags \cup {"TYPE_ANNOTATION_START"} /\ event' = Parser!NoEvent
      /\ Parser!Consume(x) /\ mode' = mode /\ depth' = depth
      /\ slashdash_depth' = slashdash_depth /\ version' = version
      /\ waiting_type_annotation' = waiting_type_annotation
  BY <1>2, <1>5 DEF Parser!AnnotationOpen, Parser!place, Parser!waiting
<1>7. b.at = a.at /\ b.stage = "opening" /\ b.blocks = a.blocks /\ b.bare = a.bare
  BY DEF Places
<1>8. flags' = StageFlags(b) \cup SpotFlags(b)
  <2>1. SpotFlags(b) = SpotFlags(a) BY <1>7 DEF SpotFlags, BareFlags
  <2>2. StageFlags(b) = {"TYPE_ANNOTATION_START"} BY <1>7 DEF StageFlags
  <2> QED BY <1>2, <1>6, <2>1, <2>2
<1>9. Bears(b)' BY <1>2, <1>6, <1>7 DEF Bears
<1> QED BY <1>1, <1>6, <1>8, <1>9, Left DEF Parser!NoEvent

LEMMA AnnotationNamed ==
    ASSUME NEW v \in {"v1", "v2"}, NEW a \in Places, Stands(a), NEW x \in Lexemes,
           Parser!Handle(x), version \in {v, "detect"}, IsName(x, v), a.stage = "opening",
           NEW b \in Places, a.at \in Annotatable, b = [a EXCEPT !.stage = "named"]
    PROVE  Took(v, b, "NONE", FALSE)
<1>1. /\ x.type \in {"WORD", "STRING"} /\ Parser!Reading(x.class, version) = "string"
      /\ Parser!VersionAfter(x.class, version) \in {v, "detect"}
  BY NameMeant
<1>2. Bears(a) /\ Parser!live = flags /\ "LINE_CONT" \notin flags
      /\ flags = StageFlags(a) \cup SpotFlags(a)
  BY Upright
<1>3. StageFlags(a) = {"TYPE_ANNOTATION_START"}
      /\ SpotFlags(a) \subseteq {"IN_PROPERTY", "BARE_PROPERTY_NAME"}
  BY DEF StageFlags, SpotFlags, BareFlags, Annotatable
<1>4. Parser!Dispatch(x) /\ Parser!InAnnotation /\ "MAYBE_IN_PROPERTY" \notin flags
      /\ "TYPE_ANNOTATION_START" \in flags
  BY <1>1, <1>2, <1>3, Handled DEF Parser!InAnnotation
<1>5. Parser!AnnotationName(x)
  BY <1>1, <1>2, <1>4, HandledInAnnotation
     DEF Parser!AnnotationClose, Parser!RejectInAnnotation, Parser!ValueTypes
<1>6. /\ flags' = (flags \ {"TYPE_ANNOTATION_START"}) \cup {"TYPE_ANNOTATION_END"}
      /\ event' = Parser!NoEvent /\ Parser!Consume(x) /\ mode' = mode /\ depth' = depth
      /\ slashdash_depth' = slashdash_depth /\ version' \in {v, "detect"}
      /\ waiting_type_annotation' = TRUE
  BY <1>1, <1>2, <1>5 DEF Parser!AnnotationName, Parser!place
<1>7. b.at = a.at /\ b.stage = "named" /\ b.blocks = a.blocks /\ b.bare = a.bare
  BY DEF Places
<1>8. flags' = StageFlags(b) \cup SpotFlags(b)
  <2>1. SpotFlags(b) = SpotFlags(a) BY <1>7 DEF SpotFlags, BareFlags
  <2>2. StageFlags(b) = {"TYPE_ANNOTATION_END"} BY <1>7 DEF StageFlags
  <2> QED BY <1>2, <1>3, <1>6, <2>1, <2>2
<1>9. Bears(b)' BY <1>2, <1>6, <1>7 DEF Bears
<1> QED BY <1>1, <1>6, <1>7, <1>8, <1>9, Left DEF Parser!NoEvent

LEMMA AnnotationEnded ==
    ASSUME NEW v, NEW a \in Places, Stands(a), NEW x \in Lexemes, Parser!Handle(x),
           version \in {v, "detect"}, x = Mark("END_TYPE"), a.stage = "named", NEW b \in Places,
           a.at \in Annotatable, b = [a EXCEPT !.stage = "ended"]
    PROVE  Took(v, b, "NONE", FALSE)
<1>1. x.type = "END_TYPE" BY DEF Mark, Lexeme
<1>2. Bears(a) /\ Parser!live = flags /\ "LINE_CONT" \notin flags
      /\ flags = StageFlags(a) \cup SpotFlags(a)
  BY Upright
<1>3. StageFlags(a) = {"TYPE_ANNOTATION_END"}
      /\ SpotFlags(a) \subseteq {"IN_PROPERTY", "BARE_PROPERTY_NAME"}
  BY DEF StageFlags, SpotFlags, BareFlags, Annotatable
<1>4. Parser!Dispatch(x) /\ Parser!InAnnotation /\ "MAYBE_IN_PROPERTY" \notin flags
      /\ "TYPE_ANNOTATION_START" \notin flags
  BY <1>1, <1>2, <1>3, Handled DEF Parser!InAnnotation
<1>5. Parser!AnnotationClose(x)
  BY <1>1, <1>2, <1>4, HandledInAnnotation
     DEF Parser!AnnotationName, Parser!RejectInAnnotation, Parser!ValueTypes
<1>6. /\ flags' = (flags \ {"TYPE_ANNOTATION_END"}) \cup {"TYPE_ANNOTATION_ENDED"}
      /\ event' = Parser!NoEvent /\ Parser!Consume(x) /\ mode' = mode /\ depth' = depth
      /\ slashdash_depth' = slashdash_depth /\ version' = version
      /\ waiting_type_annotation' = waiting_type_annotation
  BY <1>2, <1>5 DEF Parser!AnnotationClose, Parser!place, Parser!waiting
<1>7. b.at = a.at /\ b.stage = "ended" /\ b.blocks = a.blocks /\ b.bare = a.bare
  BY DEF Places
<1>8. flags' = StageFlags(b) \cup SpotFlags(b)
  <2>1. SpotFlags(b) = SpotFlags(a) BY <1>7 DEF SpotFlags, BareFlags
  <2>2. StageFlags(b) = {"TYPE_ANNOTATION_ENDED"} BY <1>7 DEF StageFlags
  <2> QED BY <1>2, <1>3, <1>6, <2>1, <2>2
<1>9. Bears(b)' BY <1>2, <1>6, <1>7 DEF Bears
<1> QED BY <1>1, <1>6, <1>8, <1>9, Left DEF Parser!NoEvent

LEMMA NodeStarted ==
    ASSUME NEW v \in {"v1", "v2"}, NEW a \in Places, Stands(a), NEW x \in Lexemes,
           Parser!Handle(x), version \in {v, "detect"}, IsName(x, v),
           a.at \in {"line", "indented"}, a.stage \in {"none", "ended"}, NEW b \in Places,
           b = ItemOver(a)
    PROVE  Took(v, b, "START_NODE", IF a.stage = "ended" THEN TRUE ELSE FALSE)
<1>1. /\ x.type \in {"WORD", "STRING"} /\ Parser!Reading(x.class, version) = "string"
      /\ Parser!VersionAfter(x.class, version) \in {v, "detect"}
  BY NameMeant
<1>2. /\ Bears(a) /\ Parser!live = flags /\ mode = "OUTSIDE_NODE"
      /\ flags = StageFlags(a) \cup SpotFlags(a)
  BY Upright DEF Bears, Outside
<1>3. flags \subseteq {"TYPE_ANNOTATION_ENDED"} BY <1>2 DEF StageFlags, SpotFlags
<1>4. Parser!Dispatch(x) /\ ~Parser!InAnnotation
  BY <1>1, <1>2, <1>3, Handled DEF Parser!InAnnotation
<1>5. Parser!StartNode(x)
  BY <1>1, <1>2, <1>4, HandledOutside
     DEF Parser!BlankLine, Parser!AnnotationOpen, Parser!EndChildren,
         Parser!LineContinuationOutside, Parser!RejectOutside, Parser!ValueTypes
<1>6. /\ mode' = "IN_NODE" /\ flags' = {"WHITESPACE_REQUIRED"} /\ depth' = depth + 1
      /\ Parser!ApplySlashdash("START_NODE", waiting_type_annotation, depth + 1)
      /\ Parser!Consume(x) /\ version' \in {v, "detect"} /\ waiting_type_annotation' = FALSE
  BY <1>1, <1>5 DEF Parser!StartNode
<1>7. b.at = "word" /\ b.stage = "none" /\ b.blocks = a.blocks /\ a.blocks \in Nat
  BY DEF ItemOver, Places
<1>8. flags' = StageFlags(b) \cup SpotFlags(b) BY <1>6, <1>7 DEF StageFlags, SpotFlags
<1>9. depth = 2 * a.blocks /\ slashdash_depth = -1
  <2>1. 2 * a.blocks + 0 = 2 * a.blocks BY <1>7
  <2> QED BY <1>2, <2>1 DEF Bears, Outside
<1>10. waiting_type_annotation = IF a.stage = "ended" THEN TRUE ELSE FALSE
  BY <1>2 DEF Bears
<1>11. /\ slashdash_depth' = -1
       /\ event' = Parser!Event("START_NODE", FALSE, waiting_type_annotation)
  <2>1. depth + 1 \in Nat BY <1>7, <1>9
  <2> QED BY <1>6, <1>9, <2>1, NothingHidden
<1>12. Bears(b)'
  <2>1. depth' = 2 * b.blocks + 1 /\ b.at \notin Outside /\ b.stage \notin {"named", "ended"}
    BY <1>6, <1>7, <1>9 DEF Outside
  <2> QED BY <1>6, <1>11, <2>1 DEF Bears
<1> QED BY <1>1, <1>6, <1>7, <1>8, <1>10, <1>11, <1>12, Left

LEMMA BlockClosed ==
    ASSUME NEW v, NEW a \in Places, Stands(a), NEW x \in Lexemes, Parser!Handle(x),
           version \in {v, "detect"}, x = Mark("END_CHILDREN"), a.stage = "none", a.blocks > 0,
           a.at \in {"line", "indented"}, NEW b \in Places,
           b = BlockOver(a)
    PROVE  Took(v, b, "NONE", FALSE)
<1>1. x.type = "END_CHILDREN" BY DEF Mark, Lexeme
<1>2. Bears(a) /\ Parser!live = flags /\ flags = {} /\ mode = "OUTSIDE_NODE"
  BY Upright DEF Bears, SpotFlags, Outside
<1>3. Parser!Dispatch(x) /\ ~Parser!InAnnotation BY <1>1, <1>2, Handled DEF Parser!InAnnotation
<1>4. a.blocks \in Nat /\ b.at = "closed" /\ b.stage = "none" /\ b.blocks = a.blocks - 1
  BY DEF BlockOver, Places
<1>5. /\ depth = 2 * a.blocks /\ slashdash_depth = -1 /\ slashdash_depth < 0
      /\ waiting_type_annotation = FALSE
  <2>1. 2 * a.blocks + 0 = 2 * a.blocks BY <1>4
  <2>2. depth = 2 * a.blocks /\ slashdash_depth = -1 /\ waiting_type_annotation = FALSE
    BY <1>2, <2>1 DEF Bears, Outside
  <2> QED BY <2>2
<1>6. Parser!ChildrenOpen BY <1>4, <1>5 DEF Parser!ChildrenOpen
<1>7. Parser!EndChildren(x)
  BY <1>1, <1>2, <1>3, <1>6, HandledOutside
     DEF Parser!BlankLine, Parser!AnnotationOpen, Parser!StartNode,
         Parser!LineContinuationOutside, Parser!RejectOutside, Parser!ValueTypes
<1>8. /\ mode' = "IN_NODE" /\ depth' = depth - 1 /\ flags' = {"END_OF_NODE"}
      /\ slashdash_depth' = Parser!SlashdashEndingAt(depth - 1) /\ event' = Parser!NoEvent
      /\ Parser!Consume(x) /\ version' = version
      /\ waiting_type_annotation' = waiting_type_annotation
  BY <1>5, <1>7 DEF Parser!EndChildren, Parser!waiting
<1>9. slashdash_depth' = -1
  <2>1. slashdash_depth # (depth - 1) + 1 BY <1>4, <1>5
  <2> QED BY <1>5, <1>8, <2>1 DEF Parser!SlashdashEndingAt
<1>10. flags' = StageFlags(b) \cup SpotFlags(b) BY <1>4, <1>8 DEF StageFlags, SpotFlags
<1>11. Bears(b)'
  <2>1. depth' = 2 * b.blocks + 1 /\ b.at \notin Outside /\ b.stage \notin {"named", "ended"}
        /\ waiting_type_annotation' = FALSE
    BY <1>4, <1>5, <1>8 DEF Outside
  <2> QED BY <1>8, <1>9, <2>1 DEF Bears
<1> QED BY <1>1, <1>8, <1>10, <1>11, Left DEF Parser!NoEvent

LEMMA BlockOpened ==
    ASSUME NEW v, NEW a \in Places, Stands(a), NEW x \in Lexemes, Parser!Handle(x),
           version \in {v, "detect"}, x = Mark("START_CHILDREN"), a.stage = "none",
           a.at = "entry", NEW b \in Places,
           b = BlockOpen(a)
    PROVE  Took(v, b, "NONE", FALSE)
<1>1. x.type = "START_CHILDREN" BY DEF Mark, Lexeme
<1>2. /\ Bears(a) /\ Parser!live = flags /\ "LINE_CONT" \notin flags /\ flags = {}
      /\ mode = "IN_NODE"
  BY Upright DEF Bears, SpotFlags, Outside
<1>3. Parser!Dispatch(x) /\ ~Parser!InAnnotation BY <1>1, <1>2, Handled DEF Parser!InAnnotation
<1>4. Parser!BlockAllowed BY <1>2 DEF Parser!BlockAllowed
<1>5. Parser!StartChildren(x)
  BY <1>1, <1>2, <1>3, <1>4, HandledInside
     DEF Parser!EndsNode, Parser!EndNode, Parser!AnnotationOpen, Parser!PossibleKey,
         Parser!Entry, Parser!RejectEntry, Parser!ValueTypes
<1>6. /\ mode' = "OUTSIDE_NODE" /\ flags' = {} /\ depth' = depth + 1 /\ event' = Parser!NoEvent
      /\ Parser!Consume(x) /\ slashdash_depth' = slashdash_depth /\ version' = version
      /\ waiting_type_annotation' = waiting_type_annotation
  BY <1>5 DEF Parser!StartChildren, Parser!waiting
<1>7. a.blocks \in Nat /\ b.at = "opened" /\ b.stage = "none" /\ b.blocks = a.blocks + 1
  BY DEF BlockOpen, Places
<1>8. flags' = StageFlags(b) \cup SpotFlags(b) BY <1>6, <1>7 DEF StageFlags, SpotFlags
<1>9. depth = 2 * a.blocks + 1 /\ slashdash_depth = -1 /\ waiting_type_annotation = FALSE
  BY <1>2 DEF Bears, Outside
<1>10. Bears(b)'
  <2>1. depth' = 2 * b.blocks + 0 /\ b.at \in Outside /\ b.stage \notin {"named", "ended"}
        /\ waiting_type_annotation' = FALSE /\ slashdash_depth' = -1
    BY <1>6, <1>7, <1>9 DEF Outside
  <2> QED BY <1>6, <2>1 DEF Bears
<1> QED BY <1>1, <1>6, <1>8, <1>10, Left DEF Parser!NoEvent

LEMMA KeyTaken ==
    ASSUME NEW v \in {"v1", "v2"}, NEW a \in Places, Stands(a), NEW x \in Lexemes,
           Parser!Handle(x), version \in {v, "detect"}, IsName(x, v), a.stage = "none",
           a.at = "entry", NEW b \in Places,
           b = [a EXCEPT !.at = "key", !.bare = (x.type = "WORD")]
    PROVE  Took(v, b, "NONE", FALSE)
<1>1. /\ x.type \in {"WORD", "STRING"} /\ Parser!Reading(x.class, version) = "string"
      /\ Parser!VersionAfter(x.class, version) \in {v, "detect"}
  BY NameMeant
<1>2. /\ Bears(a) /\ Parser!live = flags /\ "LINE_CONT" \notin flags /\ flags = {}
      /\ mode = "IN_NODE" /\ waiting_type_annotation = FALSE
  BY Upright DEF Bears, SpotFlags, Outside
<1>3. Parser!Dispatch(x) /\ ~Parser!InAnnotation BY <1>1, <1>2, Handled DEF Parser!InAnnotation
<1>4. Parser!MayBeKey(x) /\ Parser!EntryAllowed
  BY <1>1, <1>2 DEF Parser!MayBeKey, Parser!EntryAllowed
<1>5. Parser!PossibleKey(x)
  BY <1>1, <1>2, <1>3, <1>4, HandledInside
     DEF Parser!EndsNode, Parser!EndNode, Parser!AnnotationOpen, Parser!StartChildren,
         Parser!Entry, Parser!RejectEntry, Parser!ValueTypes
<1>6. /\ flags' = {"MAYBE_IN_PROPERTY"} \cup
                  (IF x.type = "WORD" THEN {"BARE_PROPERTY_NAME"} ELSE {})
      /\ event' = Parser!NoEvent /\ Parser!Consume(x) /\ mode' = mode /\ depth' = depth
      /\ slashdash_depth' = slashdash_depth /\ version' \in {v, "detect"}
      /\ waiting_type_annotation' = FALSE
  BY <1>1, <1>2, <1>5 DEF Parser!PossibleKey, Parser!place
<1>7. /\ b.at = "key" /\ b.stage = "none" /\ b.blocks = a.blocks
      /\ b.bare = (x.type = "WORD") /\ a.blocks \in Nat
  BY DEF Places
<1>8. flags' = StageFlags(b) \cup SpotFlags(b)
  <2>1. StageFlags(b) = {} BY <1>7 DEF StageFlags
  <2>2. BareFlags(b) = IF x.type = "WORD" THEN {"BARE_PROPERTY_NAME"} ELSE {}
    BY <1>7 DEF BareFlags
  <2>3. SpotFlags(b) = {"MAYBE_IN_PROPERTY"} \cup BareFlags(b) BY <1>7 DEF SpotFlags
  <2> QED BY <1>6, <2>1, <2>2, <2>3
<1>9. Bears(b)'
  <2>1. depth = 2 * a.blocks + 1 /\ slashdash_depth = -1 BY <1>2 DEF Bears, Outside
  <2>2. depth' = 2 * b.blocks + 1 /\ slashdash_depth' = -1 BY <1>6, <1>7, <2>1
  <2>3. b.at \notin Outside /\ b.stage \notin {"named", "ended"} BY <1>7 DEF Outside
  <2> QED BY <1>2, <1>6, <2>2, <2>3 DEF Bears
<1> QED BY <1>1, <1>6, <1>7, <1>8, <1>9, Left DEF Parser!NoEvent

LEMMA EqualsTaken ==
    ASSUME NEW v, NEW a \in Places, Stands(a), NEW x \in Lexemes, Parser!Handle(x),
           version \in {v, "detect"}, x = Mark("EQUALS"), a.stage = "none", a.at = "key",
           NEW b \in Places, b = [a EXCEPT !.at = "value"]
    PROVE  Took(v, b, "NONE", FALSE)
<1>1. x.type = "EQUALS" BY DEF Mark, Lexeme
<1>2. /\ Bears(a) /\ Parser!live = flags /\ "LINE_CONT" \notin flags
      /\ flags = {"MAYBE_IN_PROPERTY"} \cup BareFlags(a) /\ mode = "IN_NODE"
  BY Upright DEF Bears, SpotFlags, Outside
<1>3. BareFlags(a) \subseteq {"BARE_PROPERTY_NAME"} BY DEF BareFlags
<1>4. Parser!Dispatch(x) /\ ~Parser!InAnnotation
  BY <1>1, <1>2, <1>3, Handled DEF Parser!InAnnotation
<1>5. "CONTEXTUALLY_ILLEGAL_WHITESPACE" \notin flags /\ "MAYBE_IN_PROPERTY" \in flags
  BY <1>2, <1>3
<1>6. Parser!KeySpacingAllowed BY <1>2, <1>5 DEF Parser!KeySpacingAllowed
<1>7. Parser!PropertyKey(x)
  <2>1. Parser!PropertyKey(x) \/ Parser!PendingArgument(x) \/ Parser!RejectPending(x)
    BY <1>1, <1>2, <1>4, <1>5, HandledInside
  <2> QED BY <1>1, <1>6, <2>1 DEF Parser!PendingArgument, Parser!RejectPending
<1>8. /\ flags' = (flags \ {"MAYBE_IN_PROPERTY", "CONTEXTUALLY_ILLEGAL_WHITESPACE"})
                  \cup {"IN_PROPERTY"}
      /\ event' = Parser!NoEvent /\ Parser!Consume(x) /\ mode' = mode /\ depth' = depth
      /\ slashdash_depth' = slashdash_depth /\ version' = version
      /\ waiting_type_annotation' = waiting_type_annotation
  BY <1>2, <1>5, <1>7 DEF Parser!PropertyKey, Parser!place, Parser!waiting
<1>9. b.at = "value" /\ b.stage = "none" /\ b.blocks = a.blocks /\ b.bare = a.bare
  BY DEF Places
<1>10. flags' = StageFlags(b) \cup SpotFlags(b)
  <2>1. BareFlags(b) = BareFlags(a) BY <1>9 DEF BareFlags
  <2>2. StageFlags(b) = {} /\ SpotFlags(b) = {"IN_PROPERTY"} \cup BareFlags(b)
    BY <1>9 DEF StageFlags, SpotFlags
  <2> QED BY <1>2, <1>3, <1>8, <2>1, <2>2
<1>11. Bears(b)' BY <1>2, <1>8, <1>9 DEF Bears, Outside
<1> QED BY <1>1, <1>8, <1>9, <1>10, <1>11, Left DEF Parser!NoEvent

\* Whatever comes to a value: it is an argument, or the value of the key before it.
LEMMA EntryTaken ==
    ASSUME NEW v \in {"v1", "v2"}, NEW a \in Places, Stands(a), NEW x \in Lexemes,
           Parser!Handle(x), version \in {v, "detect"}, IsValue(x, v),
           a.stage \in {"none", "ended"}, NEW b \in Places,
           \/ a.at = "entry" /\ (a.stage = "none" => IsOther(x, v))
           \/ a.at = "value",
           b = ItemOver(a)
    PROVE  Took(v, b, IF a.at = "value" THEN "PROPERTY" ELSE "ARGUMENT",
                IF a.stage = "ended" THEN TRUE ELSE FALSE)
<1> DEFINE kind == IF a.at = "value" THEN "PROPERTY" ELSE "ARGUMENT"
<1>1. /\ x.type \in {"WORD", "STRING"} /\ Parser!Reading(x.class, version) # "rejected"
      /\ Parser!VersionAfter(x.class, version) \in {v, "detect"}
      /\ Parser!BareValue(x) => v = "v2"
  BY ValueMeant
<1>2. /\ Bears(a) /\ Parser!live = flags /\ "LINE_CONT" \notin flags
      /\ flags = StageFlags(a) \cup SpotFlags(a) /\ mode = "IN_NODE"
      /\ waiting_type_annotation = IF a.stage = "ended" THEN TRUE ELSE FALSE
  BY Upright DEF Bears, Outside
<1>3. /\ flags \subseteq {"TYPE_ANNOTATION_ENDED", "IN_PROPERTY", "BARE_PROPERTY_NAME"}
      /\ "IN_PROPERTY" \in flags <=> a.at = "value"
  BY <1>2 DEF StageFlags, SpotFlags, BareFlags
<1>4. Parser!Dispatch(x) /\ ~Parser!InAnnotation /\ "MAYBE_IN_PROPERTY" \notin flags
  BY <1>1, <1>2, <1>3, Handled DEF Parser!InAnnotation
<1>5. Parser!EntryAllowed BY <1>2, <1>3 DEF Parser!EntryAllowed
<1>6. ~Parser!MayBeKey(x)
  <2>1. CASE a.at = "value" BY <1>2, <1>3, <2>1 DEF Parser!MayBeKey
  <2>2. CASE a.stage = "ended" BY <1>2, <2>2 DEF Parser!MayBeKey
  <2>3. CASE IsOther(x, v)
    <3>1. Parser!Reading(x.class, version) = "other" BY <2>3, OtherMeant
    <3> QED BY <3>1 DEF Parser!MayBeKey
  <2> QED BY <2>1, <2>2, <2>3
<1>7. Parser!BareValue(x) => Parser!VersionAfter(x.class, version) # "v1" BY <1>1
<1>8. Parser!Entry(x)
  BY <1>1, <1>2, <1>4, <1>5, <1>6, <1>7, HandledInside
     DEF Parser!EndsNode, Parser!EndNode, Parser!AnnotationOpen, Parser!StartChildren,
         Parser!PossibleKey, Parser!RejectEntry, Parser!ValueTypes
<1>9. /\ flags' = {"WHITESPACE_REQUIRED"} /\ mode' = mode /\ depth' = depth
      /\ Parser!Consume(x) /\ version' \in {v, "detect"} /\ waiting_type_annotation' = FALSE
      /\ Parser!ApplySlashdash(kind, waiting_type_annotation, depth)
  <2>1. version' \in {v, "detect"} BY <1>1, <1>8 DEF Parser!Entry
  <2>2. Parser!ApplySlashdash(kind, waiting_type_annotation, depth)
    <3>1. CASE a.at = "value" BY <1>2, <1>3, <1>8, <3>1 DEF Parser!Entry
    <3>2. CASE a.at # "value" BY <1>2, <1>3, <1>8, <3>2 DEF Parser!Entry
    <3> QED BY <3>1, <3>2
  <2> QED BY <1>8, <2>1, <2>2 DEF Parser!Entry
<1> HIDE DEF kind
<1>10. b.at = "word" /\ b.stage = "none" /\ b.blocks = a.blocks /\ a.blocks \in Nat
  BY DEF ItemOver, Places
<1>11. depth = 2 * a.blocks + 1 /\ slashdash_depth = -1 BY <1>2 DEF Bears, Outside
<1>12. slashdash_depth' = -1 /\ event' = Parser!Event(kind, FALSE, waiting_type_annotation)
  <2>1. depth \in Nat BY <1>10, <1>11
  <2> QED BY <1>9, <1>11, <2>1, NothingHidden
<1>13. flags' = StageFlags(b) \cup SpotFlags(b) BY <1>9, <1>10 DEF StageFlags, SpotFlags
<1>14. Bears(b)'
  <2>1. b.at \notin Outside /\ b.stage \notin {"named", "ended"} BY <1>10 DEF Outside
  <2>2. depth' = 2 * b.blocks + 1 BY <1>9, <1>10, <1>11
  <2> QED BY <1>2, <1>9, <1>12, <2>1, <2>2 DEF Bears
<1>15. event' = Parser!Event(kind, FALSE, IF a.stage = "ended" THEN TRUE ELSE FALSE)
  BY <1>2, <1>12
<1>16. Took(v, b, kind, IF a.stage = "ended" THEN TRUE ELSE FALSE)
  BY <1>1, <1>9, <1>10, <1>13, <1>14, <1>15, Left
<1> QED BY <1>16 DEF kind

\* A string that was no key is reported, and the lexeme after it stays to be handled.
LEMMA ArgumentTaken ==
    ASSUME NEW v \in {"v1", "v2"}, NEW a \in Places, Stands(a), NEW x \in Lexemes,
           Parser!Handle(x), version \in {v, "detect"}, Argues(v, a, x),
           NEW b \in Places, b = Argued(a)
    PROVE  /\ Stands(b)' /\ next_token' = x /\ version' \in {v, "detect"}
           /\ event' = Parser!Event("ARGUMENT", FALSE, FALSE)
<1>1. /\ a.at \in {"key", "key_ended"} /\ a.stage = "none"
      /\ x.type \notin {"EQUALS", "WHITESPACE"} /\ (a.bare => v = "v2")
  BY DEF Argues
<1>2. /\ Bears(a) /\ Parser!live = flags /\ "LINE_CONT" \notin flags
      /\ flags = SpotFlags(a) /\ mode = "IN_NODE"
  BY <1>1, Upright DEF Bears, Outside
<1>3. /\ "MAYBE_IN_PROPERTY" \in flags /\ flags \cap Parser!WhitespaceBannedV1 = {}
      /\ "BARE_PROPERTY_NAME" \in flags => a.bare
      /\ "CONTEXTUALLY_ILLEGAL_WHITESPACE" \in flags <=> a.at = "key_ended"
  BY <1>1, <1>2 DEF SpotFlags, BareFlags, Parser!WhitespaceBannedV1
<1>4. Parser!Dispatch(x) /\ ~Parser!InAnnotation /\ x.type # "LINE_CONTINUATION"
  <2>1. x.type # "LINE_CONTINUATION" BY DEF Lexemes, LexemeTypes
  <2> QED BY <1>1, <1>2, <1>3, <2>1, Handled DEF Parser!InAnnotation, Parser!WhitespaceBannedV1
<1>5. "BARE_PROPERTY_NAME" \in flags => version # "v1" BY <1>1, <1>3
<1>6. Parser!PendingArgument(x)
  <2>1. Parser!PropertyKey(x) \/ Parser!PendingArgument(x) \/ Parser!RejectPending(x)
    BY <1>2, <1>3, <1>4, HandledInside
  <2> QED BY <1>1, <1>2, <1>5, <2>1 DEF Parser!PropertyKey, Parser!RejectPending
<1>7. /\ version' \in {v, "detect"} /\ Parser!ApplySlashdash("ARGUMENT", FALSE, depth)
      /\ flags' = IF a.at = "key_ended" THEN {} ELSE {"WHITESPACE_REQUIRED"}
      /\ Parser!PutBack(x) /\ mode' = mode /\ depth' = depth
      /\ waiting_type_annotation' = waiting_type_annotation
  <2>1. version' \in {v, "detect"}
    BY <1>1, <1>2, <1>3, <1>6 DEF Parser!PendingArgument, Parser!VersionAfterArgument
  <2> QED BY <1>2, <1>3, <1>6, <2>1 DEF Parser!PendingArgument
<1>8. /\ b.at = IF a.at = "key" THEN "word" ELSE "entry"
      /\ b.stage = "none" /\ b.blocks = a.blocks /\ a.blocks \in Nat
  BY <1>1 DEF Argued, Places
<1>9. depth = 2 * a.blocks + 1 /\ slashdash_depth = -1 /\ waiting_type_annotation = FALSE
  BY <1>1, <1>2 DEF Bears, Outside
<1>10. slashdash_depth' = -1 /\ event' = Parser!Event("ARGUMENT", FALSE, FALSE)
  <2>1. depth \in Nat BY <1>8, <1>9
  <2> QED BY <1>7, <1>9, <2>1, NothingHidden
<1>11. flags' = StageFlags(b) \cup SpotFlags(b)
  BY <1>1, <1>7, <1>8 DEF StageFlags, SpotFlags
<1>12. Bears(b)'
  <2>1. b.at \notin Outside /\ b.stage \notin {"named", "ended"} BY <1>8 DEF Outside
  <2>2. depth' = 2 * b.blocks + 1 /\ waiting_type_annotation' = FALSE BY <1>7, <1>8, <1>9
  <2> QED BY <1>2, <1>7, <1>10, <2>1, <2>2 DEF Bears
<1>13. last' = x.type /\ next_token' = x BY <1>7, Handled
<1>14. x # Parser!NoToken
  BY DEF Lexemes, LexemeTypes, Parser!NoToken, Parser!Punctuation
<1> QED BY <1>7, <1>10, <1>11, <1>12, <1>13, <1>14 DEF Stands

\* The parser reports nothing, or what comes first of what is left.
Reported(a, b) ==
    \/ event' = Parser!Event("NONE", FALSE, FALSE) /\ b.left = a.left
    \/ \E s \in Sayings :
           /\ event' = Parser!Event(s.kind, FALSE, s.annotated)
           /\ a.left # <<>> /\ Head(a.left) = s /\ b.left = Tail(a.left)

LEMMA ReportedAsDue ==
    ASSUME NEW a, NEW b, NEW kind \in {"START_NODE", "END_NODE", "ARGUMENT", "PROPERTY"},
           NEW annotated \in BOOLEAN, Due(a, kind, annotated), b.left = Tail(a.left),
           event' = Parser!Event(kind, FALSE, annotated)
    PROVE  Reported(a, b)
<1>1. /\ Says(kind, annotated) \in Sayings
      /\ Says(kind, annotated).kind = kind /\ Says(kind, annotated).annotated = annotated
  BY SayingsAreTyped DEF Says
<1> QED BY <1>1 DEF Reported, Due

LEMMA MoveTaken ==
    ASSUME NEW v \in {"v1", "v2"}, NEW a \in Places, Stands(a), NEW x \in Lexemes,
           Parser!Handle(x), version \in {v, "detect"}, NEW b \in Places, Moves(v, a, x, b)
    PROVE  /\ Stands(b)' /\ next_token' = Parser!NoToken /\ version' \in {v, "detect"}
           /\ Reported(a, b)
<1> USE DEF Took
<1>1. a.blocks \in Nat BY DEF Places
<1>2. CASE /\ x = Mark("WHITESPACE") /\ a.stage = "none"
           /\ \/ a.at = "line" /\ b = [a EXCEPT !.at = "indented"]
              \/ a.at = "word" /\ b = [a EXCEPT !.at = "entry"]
              \/ a.at = "key" /\ b = [a EXCEPT !.at = "key_ended"]
  <2>1. Took(v, b, "NONE", FALSE) BY <1>2, WhitespaceTaken
  <2>2. b.left = a.left BY <1>2 DEF Places
  <2> QED BY <2>1, <2>2 DEF Reported
<1>3. CASE /\ x = Mark("NEWLINE") /\ a.stage = "none" /\ a.at = "opened"
           /\ b = [a EXCEPT !.at = "line"]
  <2>1. Took(v, b, "NONE", FALSE) BY <1>3, BlankLineTaken
  <2>2. b.left = a.left BY <1>3 DEF Places
  <2> QED BY <2>1, <2>2 DEF Reported
<1>4. CASE /\ x = Mark("NEWLINE") /\ a.stage = "none" /\ a.at \in {"word", "closed"}
           /\ Due(a, "END_NODE", FALSE) /\ b = NodeOver(a)
  <2>1. Took(v, b, "END_NODE", FALSE) BY <1>4, EndOfNodeTaken
  <2>2. b.left = Tail(a.left) BY <1>4 DEF NodeOver, Places
  <2> QED BY <1>4, <2>1, <2>2, ReportedAsDue
<1>5. CASE /\ a.at \in Annotatable /\ x = Mark("START_TYPE") /\ a.stage = "none"
           /\ b = [a EXCEPT !.stage = "opening"]
  <2>1. Took(v, b, "NONE", FALSE) BY <1>5, AnnotationOpened
  <2>2. b.left = a.left BY <1>5 DEF Places
  <2> QED BY <2>1, <2>2 DEF Reported
<1>6. CASE /\ a.at \in Annotatable /\ IsName(x, v) /\ a.stage = "opening"
           /\ b = [a EXCEPT !.stage = "named"]
  <2>1. Took(v, b, "NONE", FALSE) BY <1>6, AnnotationNamed
  <2>2. b.left = a.left BY <1>6 DEF Places
  <2> QED BY <2>1, <2>2 DEF Reported
<1>7. CASE /\ a.at \in Annotatable /\ x = Mark("END_TYPE") /\ a.stage = "named"
           /\ b = [a EXCEPT !.stage = "ended"]
  <2>1. Took(v, b, "NONE", FALSE) BY <1>7, AnnotationEnded
  <2>2. b.left = a.left BY <1>7 DEF Places
  <2> QED BY <2>1, <2>2 DEF Reported
<1>8. CASE /\ IsName(x, v) /\ a.at \in {"line", "indented"} /\ a.stage \in {"none", "ended"}
           /\ Due(a, "START_NODE", a.stage = "ended")
           /\ b = ItemOver(a)
  <2> DEFINE w == IF a.stage = "ended" THEN TRUE ELSE FALSE
  <2>1. Took(v, b, "START_NODE", w) BY <1>8, NodeStarted
  <2>2. b.left = Tail(a.left) BY <1>8 DEF ItemOver, Places
  <2>3. w \in BOOLEAN /\ Due(a, "START_NODE", w) BY <1>8, Zenon DEF Due, Says
  <2> HIDE DEF w
  <2> QED BY <2>1, <2>2, <2>3, ReportedAsDue
<1>9. CASE /\ x = Mark("END_CHILDREN") /\ a.at \in {"line", "indented"} /\ a.stage = "none"
           /\ a.blocks > 0 /\ b = BlockOver(a)
  <2>1. Took(v, b, "NONE", FALSE) BY <1>9, BlockClosed
  <2>2. b.left = a.left BY <1>9 DEF BlockOver, Places
  <2> QED BY <2>1, <2>2 DEF Reported
<1>10. CASE /\ x = Mark("START_CHILDREN") /\ a.at = "entry" /\ a.stage = "none"
            /\ b = BlockOpen(a)
  <2>1. Took(v, b, "NONE", FALSE) BY <1>10, BlockOpened
  <2>2. b.left = a.left BY <1>10 DEF BlockOpen, Places
  <2> QED BY <2>1, <2>2 DEF Reported
<1>11. CASE /\ IsName(x, v) /\ a.at = "entry" /\ a.stage = "none"
            /\ b = [a EXCEPT !.at = "key", !.bare = (x.type = "WORD")]
  <2>1. Took(v, b, "NONE", FALSE) BY <1>11, KeyTaken
  <2>2. b.left = a.left BY <1>11 DEF Places
  <2> QED BY <2>1, <2>2 DEF Reported
<1>12. CASE /\ IsValue(x, v) /\ a.at \in {"entry", "value"} /\ a.stage \in {"none", "ended"}
            /\ a.at = "entry" /\ a.stage = "none" => IsOther(x, v)
            /\ Due(a, IF a.at = "value" THEN "PROPERTY" ELSE "ARGUMENT", a.stage = "ended")
            /\ b = ItemOver(a)
  <2> DEFINE w == IF a.stage = "ended" THEN TRUE ELSE FALSE
             kind == IF a.at = "value" THEN "PROPERTY" ELSE "ARGUMENT"
  <2>1. Took(v, b, kind, w) BY <1>12, EntryTaken
  <2>2. b.left = Tail(a.left) BY <1>12 DEF ItemOver, Places
  <2>3. w \in BOOLEAN /\ Due(a, kind, w) BY <1>12, Zenon DEF Due, Says
  <2>4. kind \in {"START_NODE", "END_NODE", "ARGUMENT", "PROPERTY"} OBVIOUS
  <2> HIDE DEF w, kind
  <2> QED BY <2>1, <2>2, <2>3, <2>4, ReportedAsDue
<1>13. CASE x = Mark("EQUALS") /\ a.at = "key" /\ a.stage = "none" /\ b = [a EXCEPT !.at = "value"]
  <2>1. Took(v, b, "NONE", FALSE) BY <1>13, EqualsTaken
  <2>2. b.left = a.left BY <1>13 DEF Places
  <2> QED BY <2>1, <2>2 DEF Reported
<1> HIDE DEF Took
<1> QED
  BY <1>2, <1>3, <1>4, <1>5, <1>6, <1>7, <1>8, <1>9, <1>10, <1>11, <1>12, <1>13
     DEF Moves, Annotatable

\* Handling a lexeme that the reader can read.
LEMMA LexemeTaken ==
    ASSUME NEW v \in {"v1", "v2"}, NEW a \in Places, Stands(a), NEW x \in Lexemes,
           Parser!Handle(x), version \in {v, "detect"}, NEW b \in Places, Reads(v, a, x, b)
    PROVE  \E c \in Places :
               /\ Stands(c)' /\ version' \in {v, "detect"} /\ Reported(a, c)
               /\ \/ next_token' = Parser!NoToken /\ c = b
                  \/ next_token' = x /\ Reads(v, c, x, b)
<1>1. CASE Moves(v, a, x, b) BY <1>1, MoveTaken
<1>2. CASE Argues(v, a, x) /\ Moves(v, Argued(a), x, b)
  <2> DEFINE c == Argued(a)
  <2>1. Due(a, "ARGUMENT", FALSE) BY <1>2 DEF Argues
  <2>2. Tail(a.left) \in Seq(Sayings)
    BY <2>1, HeadTailProperties DEF Due, Places
  <2>3. c \in Places /\ c.left = Tail(a.left)
    BY <1>2, <2>2 DEF Argued, Argues, Places, Spots
  <2> HIDE DEF c
  <2>4. /\ Stands(c)' /\ next_token' = x /\ version' \in {v, "detect"}
        /\ event' = Parser!Event("ARGUMENT", FALSE, FALSE)
    BY <1>2, <2>3, ArgumentTaken DEF c
  <2>5. Reported(a, c) BY <2>1, <2>3, <2>4, ReportedAsDue
  <2> QED BY <1>2, <2>3, <2>4, <2>5 DEF c, Reads
<1> QED BY <1>1, <1>2 DEF Reads

-----------------------------------------------------------------------------
(* What is read back. *)

LEMMA NothingIsNoLexeme == Parser!NoToken \notin Lexemes
BY DEF Lexemes, LexemeTypes, Parser!NoToken, Parser!Punctuation

LEMMA LexemesOnTheWay ==
    ASSUME text \in Seq(Lexemes), next_token \in Lexemes \cup {Parser!NoToken}
    PROVE  /\ OnTheWay \in Seq(Lexemes)
           /\ AllRead <=> OnTheWay = <<>>
           /\ next_token # Parser!NoToken =>
                  Head(OnTheWay) = next_token /\ Tail(OnTheWay) = text
<1>1. CASE next_token = Parser!NoToken BY <1>1 DEF OnTheWay, AllRead
<1>2. CASE next_token # Parser!NoToken
  <2>1. next_token \in Lexemes BY <1>2
  <2>2. /\ <<next_token>> \o text \in Seq(Lexemes) /\ <<next_token>> \o text # <<>>
        /\ Head(<<next_token>> \o text) = next_token /\ Tail(<<next_token>> \o text) = text
    BY <2>1, Queue
  <2>3. OnTheWay = <<next_token>> \o text BY <1>2 DEF OnTheWay
  <2> QED BY <1>2, <2>2, <2>3 DEF AllRead
<1> QED BY <1>1, <1>2

\* A word of the other character set is none that a reader can read.
LEMMA InTheCharacterSet ==
    ASSUME NEW v \in {"v1", "v2"}, version \in {v, "detect"}, NEW a, NEW x, NEW b,
           Reads(v, a, x, b)
    PROVE  Parser!InCharacterSet(x)
<1> SUFFICES ASSUME x.type = "WORD", x.class = "onlyV2", version = "v1" PROVE FALSE
  BY DEF Parser!InCharacterSet
<1>1. v = "v1" OBVIOUS
<1>2. ~IsName(x, v) /\ ~IsOther(x, v) /\ ~IsValue(x, v)
  BY <1>1 DEF IsName, IsOther, IsValue, QuotedString, Lexeme
<1>3. \A type \in LexemeTypes : x # Mark(type) BY DEF Mark, Lexeme
<1>4. \A c : ~Moves(v, c, x, b) BY <1>2, <1>3 DEF Moves, LexemeTypes
<1> QED BY <1>4 DEF Reads

\* The reader reads on as the parser does.
LEMMA ReadsOn ==
    ASSUME NEW v \in {"v1", "v2"}, version \in {v, "detect"}, ReadOn,
           text \in Seq(Lexemes), next_token \in Lexemes \cup {Parser!NoToken},
           NEW a \in Places, Stands(a), NEW b \in Places, Path(v, a, OnTheWay, b)
    PROVE  /\ text' \in Seq(Lexemes) /\ next_token' \in Lexemes \cup {Parser!NoToken}
           /\ version' \in {v, "detect"}
           /\ \E c \in Places : Stands(c)' /\ Reported(a, c) /\ Path(v, c, OnTheWay', b)
<1> DEFINE x == Head(OnTheWay)
           rest == Tail(OnTheWay)
<1>1. /\ OnTheWay \in Seq(Lexemes) /\ OnTheWay # <<>>
      /\ next_token # Parser!NoToken => x = next_token /\ rest = text
  BY LexemesOnTheWay DEF ReadOn
<1>2. x \in Lexemes /\ rest \in Seq(Lexemes) BY <1>1, HeadTailProperties
<1>3. PICK d \in Places : Reads(v, a, x, d) /\ Path(v, d, rest, b) BY <1>1, FirstStep
<1>4. next_token = Parser!NoToken => x = Head(text) /\ rest = Tail(text) BY DEF OnTheWay
<1> HIDE DEF x, rest
<1>5. Parser!Handle(x) /\ text' = rest
  <2>1. Parser!InCharacterSet(x) BY <1>3, InTheCharacterSet
  <2> QED BY <1>1, <1>4, <2>1 DEF ReadOn
<1>6. PICK c \in Places :
          /\ Stands(c)' /\ version' \in {v, "detect"} /\ Reported(a, c)
          /\ \/ next_token' = Parser!NoToken /\ c = d
             \/ next_token' = x /\ Reads(v, c, x, d)
  BY <1>2, <1>3, <1>5, LexemeTaken
<1>7. Path(v, c, OnTheWay', b)
  <2>1. CASE next_token' = Parser!NoToken /\ c = d
    BY <1>3, <1>5, <2>1 DEF OnTheWay
  <2>2. CASE next_token' = x /\ Reads(v, c, x, d)
    <3>1. OnTheWay' = <<x>> \o rest BY <1>2, <1>5, <2>2, NothingIsNoLexeme DEF OnTheWay
    <3> QED BY <1>2, <1>3, <2>2, <3>1, StepFirst
  <2> QED BY <1>6, <2>1, <2>2
<1> QED BY <1>2, <1>5, <1>6, <1>7

\* What a step that reports something does to what is left.
LEMMA ReportIsOver ==
    ASSUME NEW a \in Places, NEW b, Reported(a, b), ~AllRead, a.left = said,
           said' = IF ReadsBack /\ said # <<>> THEN Tail(said) ELSE said
    PROVE  /\ b.left = said' /\ said' \in Seq(Sayings) /\ ~Parser!Finished'
           /\ event'.kind # "NONE" =>
                  /\ said # <<>> /\ ~event'.slashdashed
                  /\ event'.kind = Head(said).kind /\ event'.annotated = Head(said).annotated
<1>1. said \in Seq(Sayings) BY DEF Places
<1>2. CASE event' = Parser!Event("NONE", FALSE, FALSE) /\ b.left = a.left
  <2>1. event'.kind = "NONE" BY <1>2 DEF Parser!Event
  <2>2. said' = said BY <2>1 DEF ReadsBack
  <2> QED BY <1>1, <1>2, <2>1, <2>2 DEF Parser!Finished
<1>3. ASSUME NEW s \in Sayings, event' = Parser!Event(s.kind, FALSE, s.annotated),
             a.left # <<>>, Head(a.left) = s, b.left = Tail(a.left)
      PROVE  /\ b.left = said' /\ said' \in Seq(Sayings) /\ ~Parser!Finished'
             /\ said # <<>> /\ ~event'.slashdashed
             /\ event'.kind = Head(said).kind /\ event'.annotated = Head(said).annotated
  <2>1. /\ event'.kind = s.kind /\ event'.slashdashed = FALSE /\ event'.annotated = s.annotated
    BY <1>3 DEF Parser!Event
  <2>2. s.kind \in {"START_NODE", "END_NODE", "ARGUMENT", "PROPERTY"} BY DEF Sayings
  <2>3. said' = Tail(said) BY <1>3, <2>1, <2>2 DEF ReadsBack
  <2>4. said' \in Seq(Sayings) BY <1>1, <1>3, <2>3, HeadTailProperties
  <2> QED BY <1>3, <2>1, <2>2, <2>3, <2>4 DEF Parser!Finished
<1> QED BY <1>2, <1>3 DEF Reported

\* What the property says of a step.
AsWritten ==
    ReadsBack /\ event'.kind \notin {"EOF", "PARSE_ERROR"}
        => /\ said # <<>>
           /\ event'.kind = Head(said).kind
           /\ event'.annotated = Head(said).annotated
           /\ ~event'.slashdashed

\* Between two calls of the emitter the parser stands where they have left the text.
LEMMA AllIsRead ==
    ASSUME ReadIInv, AllRead, ~Parser!Finished
    PROVE  \E a \in Places : /\ a.left = said /\ Stands(a)
                             /\ result # "false" => Settled(a)
<1>1. PICK a \in Places, b \in Places :
          /\ a.left = said /\ Stands(a) /\ Path(emitter.opt.version, a, OnTheWay, b)
          /\ result # "false" => Settled(b)
  BY DEF ReadIInv, Parser!Finished
<1>2. OnTheWay = <<>> BY DEF OnTheWay, AllRead
<1>3. b = a BY <1>1, <1>2, NoPath
<1> QED BY <1>1, <1>3

LEMMA EndIsRead ==
    ASSUME RoundTripIInv, ReadEnd
    PROVE  said = <<>> /\ event'.kind = "EOF" /\ text' = text /\ next_token' = next_token
           /\ version' = version
<1>1. AllRead /\ result = "true" /\ ~Parser!Finished /\ text' = text
  BY DEF ReadEnd, Parser!EofInNode, Parser!EofOutsideNode
<1>2. PICK a \in Places : a.left = said /\ Stands(a) /\ Settled(a)
  BY <1>1, AllIsRead DEF RoundTripIInv
<1>3. emitter.start_of_line /\ emitter.depth = 0
  BY <1>1 DEF RoundTripIInv, CatIInv, TrueMeansWritten, SinkIInv, BracesMatchDepth,
              LineStartIsKnown
<1>4. a.stage = "none" /\ a.blocks = 0 /\ a.at = "line" /\ said = <<>>
  BY <1>2, <1>3 DEF Settled, AtLine
<1>5. Bears(a) /\ flags = SpotFlags(a) BY <1>2, <1>4, Upright
<1>6. mode = "OUTSIDE_NODE" /\ depth = 0 /\ slashdash_depth = -1 /\ flags = {}
  BY <1>4, <1>5 DEF Bears, SpotFlags, Outside
<1>7. ~Parser!Incomplete
  <2>1. ~(depth > 0) /\ ~(slashdash_depth > 0) BY <1>6
  <2> QED BY <1>6, <2>1 DEF Parser!Incomplete
<1>8. Parser!EofOutsideNode BY <1>6 DEF ReadEnd, Parser!EofInNode
<1>9. event' = Parser!EndOfDocument /\ version' = version /\ next_token' = next_token
  BY <1>7, <1>8 DEF Parser!EofOutsideNode
<1>10. event'.kind = "EOF" BY <1>9 DEF Parser!EndOfDocument, Parser!Event
<1> QED BY <1>1, <1>4, <1>9, <1>10

LEMMA ReadKeeps ==
    ASSUME RoundTripIInv, Read
    PROVE  ReadIInv' /\ AsWritten
<1>1. /\ emitter' = emitter /\ in_node_list' = in_node_list /\ result' = result
      /\ said' = IF ReadsBack /\ said # <<>> THEN Tail(said) ELSE said
  BY DEF Read, catVars, emitterVars, sinkVars
<1>2. /\ result \in {"reading", "true", "false"} /\ version \in {emitter.opt.version, "detect"}
      /\ text \in Seq(Lexemes) /\ said \in Seq(Sayings)
      /\ next_token \in Lexemes \cup {Parser!NoToken}
  BY DEF RoundTripIInv, ReadIInv
<1>3. emitter.opt.version \in {"v1", "v2"}
  BY OptionsAssumption DEF RoundTripIInv, CatIInv, SinkIInv, EmitterRecords
<1>4. \A b : Settled(b)' <=> Settled(b) BY <1>1 DEF Settled
<1>5. CASE ReadOn
  <2>1. ~AllRead BY <1>5 DEF ReadOn
  <2>2. PICK a \in Places, b \in Places :
            /\ a.left = said /\ Stands(a) /\ Path(emitter.opt.version, a, OnTheWay, b)
            /\ result # "false" => Settled(b)
    BY <2>1 DEF RoundTripIInv, ReadIInv
  <2>3. /\ text' \in Seq(Lexemes) /\ next_token' \in Lexemes \cup {Parser!NoToken}
        /\ version' \in {emitter.opt.version, "detect"}
        /\ \E c \in Places :
               /\ Stands(c)' /\ Reported(a, c) /\ Path(emitter.opt.version, c, OnTheWay', b)
    BY <1>2, <1>3, <1>5, <2>2, ReadsOn
  <2>4. PICK c \in Places :
            Stands(c)' /\ Reported(a, c) /\ Path(emitter.opt.version, c, OnTheWay', b)
    BY <2>3
  <2>5. /\ c.left = said' /\ said' \in Seq(Sayings) /\ ~Parser!Finished'
        /\ event'.kind # "NONE" =>
               /\ said # <<>> /\ ~event'.slashdashed
               /\ event'.kind = Head(said).kind /\ event'.annotated = Head(said).annotated
    BY <1>1, <2>1, <2>2, <2>4, ReportIsOver
  <2>6. AsWritten BY <2>5 DEF AsWritten, ReadsBack
  <2>7. \E p, q \in Places :
            /\ p.left = said' /\ Stands(p)' /\ Path(emitter'.opt.version, p, OnTheWay', q)
            /\ result' # "false" => Settled(q)'
    BY <1>1, <1>4, <2>2, <2>4, <2>5
  <2>8. ReadIInv' BY <1>1, <1>2, <2>3, <2>5, <2>7 DEF ReadIInv
  <2> QED BY <2>6, <2>8
<1>6. CASE ReadEnd
  <2>1. said = <<>> /\ event'.kind = "EOF" /\ text' = text /\ next_token' = next_token
        /\ version' = version
    BY <1>6, EndIsRead
  <2>2. said' = said BY <1>1, <2>1
  <2>3. AllRead' BY <1>6, <2>1 DEF ReadEnd, AllRead
  <2>4. result' = "true" BY <1>1, <1>6 DEF ReadEnd
  <2>5. ReadIInv' BY <1>1, <1>2, <2>1, <2>2, <2>3, <2>4 DEF ReadIInv
  <2> QED BY <2>1, <2>5 DEF AsWritten
<1> QED BY <1>5, <1>6 DEF Read

-----------------------------------------------------------------------------
(* What the functions of the emitter write can be read. *)

\* Where the text leaves its reader: at the start of a line, at one that has been
\* indented perhaps, or behind something.
Begun(b, n, L) ==
    b \in Places /\ b.stage = "none" /\ b.blocks = n /\ b.at \in {"line", "indented"} /\ b.left = L
At(v, b, n, L, spot) ==
    CASE spot = "start" -> AtLine(b, n, L)
      [] spot = "begun" -> Begun(b, n, L)
      [] OTHER -> InLine(v, b, n, L)

\* What has been written since the reader stood at a can be read, and as long as every
\* write has gone through it leads to such a spot.
Goes(v, a, e, n, L, spot) ==
    \E b \in Places : Path(v, a, e.out, b) /\ (e.ok => At(v, b, n, L, spot))

LEMMA PartWritten ==
    ASSUME NEW e \in EmitterRecords, e.ok, NEW s \in Seq(Lexemes)
    PROVE  \E k \in 0..Len(s) : Write(e, s).out = e.out \o SubSeq(s, 1, k)
<1> DEFINE k == IF Len(s) <= e.room THEN Len(s) ELSE e.room
<1>1. Len(s) \in Nat /\ e.room \in Nat BY LenProperties DEF EmitterRecords
<1>2. k \in 0..Len(s) BY <1>1
<1>3. Write(e, s) = [e EXCEPT !.out = @ \o SubSeq(s, 1, k), !.room = @ - k,
                              !.ok = k = Len(s), !.broken = @ \/ k < Len(s)]
  BY DEF Write
<1> HIDE DEF k
<1>4. Write(e, s).out = e.out \o SubSeq(s, 1, k) BY <1>3 DEF EmitterRecords
<1> QED BY <1>2, <1>4

LEMMA Carried ==
    ASSUME NEW v, NEW a, NEW e \in EmitterRecords, NEW s \in Seq(Lexemes),
           NEW n, NEW L, NEW w, Goes(v, a, e, n, L, w),
           NEW m, NEW M, NEW u,
           \A b : At(v, b, n, L, w) => \E c : At(v, c, m, M, u) /\ Path(v, b, s, c)
    PROVE  Goes(v, a, Write(e, s), m, M, u)
<1>1. PICK b \in Places : Path(v, a, e.out, b) /\ (e.ok => At(v, b, n, L, w)) BY DEF Goes
<1>2. e.out \in Seq(Lexemes) BY DEF EmitterRecords
<1>3. CASE ~e.ok
  <2>1. Write(e, s) = e BY <1>3 DEF Write
  <2> QED BY <1>1, <1>3, <2>1 DEF Goes
<1>4. CASE e.ok
  <2>1. PICK c : At(v, c, m, M, u) /\ Path(v, b, s, c) BY <1>1, <1>4
  <2>2. c \in Places BY <2>1, PathIsTyped
  <2>3. CASE Write(e, s).ok
    <3>1. Write(e, s).out = e.out \o s BY <1>4, <2>3, LexemesWritten
    <3>2. Path(v, a, e.out \o s, c) BY <1>1, <1>2, <2>1, Joined
    <3> QED BY <2>1, <2>2, <3>1, <3>2 DEF Goes
  <2>4. CASE ~Write(e, s).ok
    <3>1. PICK k \in 0..Len(s) : Write(e, s).out = e.out \o SubSeq(s, 1, k)
      BY <1>4, PartWritten
    <3>2. PICK d \in Places : Path(v, b, SubSeq(s, 1, k), d) BY <2>1, PathBegun
    <3>3. SubSeq(s, 1, k) \in Seq(Lexemes)
      <4>1. Len(s) \in Nat BY LenProperties
      <4>2. \A i \in 1..k : s[i] \in Lexemes BY <4>1, ElementOfSeq
      <4>3. k \in Nat BY <4>1
      <4> QED BY <4>2, <4>3, SubSeqProperties
    <3>4. Path(v, a, e.out \o SubSeq(s, 1, k), d) BY <1>1, <1>2, <3>2, <3>3, Joined
    <3> QED BY <2>4, <3>1, <3>4 DEF Goes
  <2> QED BY <2>3, <2>4
<1> QED BY <1>3, <1>4

\* Only what was written and whether it went through count.
LEMMA SameText ==
    ASSUME NEW v, NEW a, NEW e, NEW w, NEW n, NEW L, NEW spot, Goes(v, a, e, n, L, spot),
           w.out = e.out, w.ok => e.ok
    PROVE  Goes(v, a, w, n, L, spot)
BY DEF Goes

\* A line that has come to its end.
LEMMA LineOver ==
    ASSUME NEW v, NEW n, NEW M \in Seq(Sayings), NEW b, InLine(v, b, n, <<EndSaid>> \o M)
    PROVE  \E c : AtLine(c, n, M) /\ Path(v, b, <<Mark("NEWLINE")>>, c)
<1> DEFINE x == Mark("NEWLINE")
           L == <<EndSaid>> \o M
<1>1. L \in Seq(Sayings) BY SayingsAreTyped, Queue
<1>2. x.type = "NEWLINE" BY DEF Mark, Lexeme
<1>3. \A d : d \in Places /\ d.left = L => Due(d, "END_NODE", FALSE) /\ Tail(d.left) = M
  BY First DEF EndSaid
<1>4. \A d \in Places : d.at = "word" /\ d.stage = "none" /\ d.blocks = n /\ d.left = L
          => AtLine(NodeOver(d), n, M) /\ NodeOver(d) \in Places /\ Moves(v, d, x, NodeOver(d))
  <2> HIDE DEF L
  <2> SUFFICES ASSUME NEW d \in Places, d.at = "word", d.stage = "none", d.blocks = n, d.left = L
               PROVE  /\ AtLine(NodeOver(d), n, M) /\ NodeOver(d) \in Places
                      /\ Moves(v, d, x, NodeOver(d))
    OBVIOUS
  <2>1. Due(d, "END_NODE", FALSE) /\ Tail(d.left) = M BY <1>3
  <2>2. NodeOver(d) \in Places /\ AtLine(NodeOver(d), n, M)
    BY <2>1 DEF NodeOver, Places, Spots, AtLine
  <2>3. Moves(v, d, x, NodeOver(d)) BY <2>1 DEF Moves
  <2> QED BY <2>2, <2>3
<1>5. b \in Places /\ b.stage = "none" /\ b.blocks = n BY DEF InLine
<1>6. CASE b.at = "word" /\ b.left = L
  <2>1. AtLine(NodeOver(b), n, M) /\ NodeOver(b) \in Places /\ Reads(v, b, x, NodeOver(b))
    BY <1>4, <1>5, <1>6 DEF Reads
  <2> QED BY <1>5, <2>1, OneStep
<1>7. CASE b.at = "key" /\ (b.bare => v = "v2") /\ b.left = <<ArgumentSaid>> \o L
  <2> DEFINE d == Argued(b)
  <2> HIDE DEF L
  <2>1. Due(b, "ARGUMENT", FALSE) /\ Tail(b.left) = L BY <1>1, <1>7, First DEF ArgumentSaid
  <2>2. Argues(v, b, x) BY <1>2, <1>5, <1>7, <2>1 DEF Argues
  <2>3. d \in Places /\ d.at = "word" /\ d.stage = "none" /\ d.blocks = n /\ d.left = L
    BY <1>1, <1>5, <1>7, <2>1 DEF Argued, Places, Spots
  <2> HIDE DEF d
  <2>4. AtLine(NodeOver(d), n, M) /\ NodeOver(d) \in Places /\ Moves(v, d, x, NodeOver(d))
    BY <1>4, <2>3
  <2>5. Reads(v, b, x, NodeOver(d)) BY <2>2, <2>4 DEF Reads, d
  <2> QED BY <1>5, <2>4, <2>5, OneStep
<1> QED BY <1>6, <1>7 DEF InLine

\* _emit_node_preamble
LEMMA PreambleRead ==
    ASSUME NEW v, NEW a, NEW e \in EmitterRecords, NEW n, NEW M \in Seq(Sayings),
           IF e.start_of_line THEN Goes(v, a, e, n, M, "start")
                              ELSE Goes(v, a, e, n, <<EndSaid>> \o M, "line")
    PROVE  Goes(v, a, Preamble(e), n, M, "begun")
<1> DEFINE before == IF e.start_of_line THEN <<>> ELSE <<Mark("NEWLINE")>>
           i == Indentation(e)
           w == Write(e, before \o i)
           ws == Mark("WHITESPACE")
           nl == Mark("NEWLINE")
<1>1. ws \in Lexemes /\ nl \in Lexemes BY MarksAreLexemes DEF LexemeTypes
<1>2. before \in Seq(Lexemes) /\ i \in Seq(Lexemes) /\ before \o i \in Seq(Lexemes)
  <2>1. before \in Seq(Lexemes) /\ i \in Seq(Lexemes)
    BY <1>1, EmptySeq DEF Indentation
  <2> QED BY <2>1, ConcatProperties
<1>3. \A b : AtLine(b, n, M) => \E c : Begun(c, n, M) /\ Path(v, b, i, c)
  <2> SUFFICES ASSUME NEW b, AtLine(b, n, M)
               PROVE  \E c : Begun(c, n, M) /\ Path(v, b, i, c)
    OBVIOUS
  <2>1. b \in Places /\ b.stage = "none" /\ b.blocks = n /\ b.at = "line" /\ b.left = M
    BY DEF AtLine
  <2>2. CASE i = <<>> BY <2>1, <2>2, NoPath DEF Begun
  <2>3. CASE i = <<ws>>
    <3> DEFINE c == [b EXCEPT !.at = "indented"]
    <3>1. c \in Places /\ Begun(c, n, M) BY <2>1 DEF Places, Spots, Begun
    <3>2. Reads(v, b, ws, c) BY <2>1 DEF Reads, Moves
    <3> HIDE DEF c, ws
    <3>3. Path(v, b, <<ws>>, c) BY <2>1, <3>1, <3>2, OneStep
    <3> QED BY <2>3, <3>1, <3>3
  <2> QED BY <2>2, <2>3 DEF Indentation
<1>4. Goes(v, a, w, n, M, "begun")
  <2>1. CASE e.start_of_line
    <3>1. before \o i = i
      <4>1. before = <<>> BY <2>1
      <4> HIDE DEF before, i
      <4> QED BY <1>2, <4>1, ConcatEmptySeq
    <3>2. \A b : At(v, b, n, M, "start")
                   => \E c : At(v, c, n, M, "begun") /\ Path(v, b, before \o i, c)
      BY <1>3, <3>1 DEF At
    <3>3. Goes(v, a, e, n, M, "start") BY <2>1
    <3> HIDE DEF before, i
    <3> QED BY <1>2, <3>2, <3>3, Carried
  <2>2. CASE ~e.start_of_line
    <3>1. before = <<nl>> BY <2>2
    <3> HIDE DEF before, i, nl
    <3>2. \A b : InLine(v, b, n, <<EndSaid>> \o M)
                   => \E c : Begun(c, n, M) /\ Path(v, b, before \o i, c)
      <4> SUFFICES ASSUME NEW b, InLine(v, b, n, <<EndSaid>> \o M)
                   PROVE  \E c : Begun(c, n, M) /\ Path(v, b, before \o i, c)
        OBVIOUS
      <4>1. PICK d : AtLine(d, n, M) /\ Path(v, b, before, d) BY <3>1, LineOver DEF nl
      <4>2. PICK c : Begun(c, n, M) /\ Path(v, d, i, c) BY <1>3, <4>1
      <4> QED BY <1>2, <4>1, <4>2, Joined
    <3>3. \A b : At(v, b, n, <<EndSaid>> \o M, "line")
                   => \E c : At(v, c, n, M, "begun") /\ Path(v, b, before \o i, c)
      BY <3>2 DEF At
    <3>4. Goes(v, a, e, n, <<EndSaid>> \o M, "line") BY <2>2
    <3> DEFINE L == <<EndSaid>> \o M
    <3> HIDE DEF L
    <3>5. Goes(v, a, e, n, L, "line")
          /\ \A b : At(v, b, n, L, "line")
                   => \E c : At(v, c, n, M, "begun") /\ Path(v, b, before \o i, c)
      BY <3>3, <3>4 DEF L
    <3> QED BY <1>2, <3>5, Carried
  <2> QED BY <2>1, <2>2
<1>5. /\ Preamble(e) = IF w.ok THEN [w EXCEPT !.start_of_line = FALSE] ELSE w
      /\ w \in EmitterRecords
  BY <1>2, LexemesWritten DEF Preamble, Makes
<1> HIDE DEF w
<1>6. Preamble(e).out = w.out /\ Preamble(e).ok = w.ok BY <1>5 DEF EmitterRecords
<1> QED BY <1>4, <1>6, SameText

\* kdl_emit_node
LEMMA NodeRead ==
    ASSUME WrittenAsMeant, NEW opt \in Options, NEW type \in Names \cup {None},
           NEW name \in Names, NEW n, NEW N \in Seq(Sayings), NEW b,
           Begun(b, n, <<Says("START_NODE", type # None)>> \o N)
    PROVE  \E c : /\ InLine(opt.version, c, n, N)
                  /\ Path(opt.version, b,
                          Append(Annotation(type, opt), BareString(name, opt)), c)
<1> DEFINE v == opt.version
           x == BareString(name, opt)
           s == Annotation(type, opt)
           d == Annotated(b, type)
           c == ItemOver(d)
<1>1. b \in Places /\ b.stage = "none" /\ b.blocks = n /\ b.at \in {"line", "indented"}
      /\ b.left = <<Says("START_NODE", type # None)>> \o N
  BY DEF Begun
<1>2. Path(v, b, s, d) /\ d \in Places /\ s \in Seq(Lexemes)
  BY <1>1, AnnotationRead DEF Annotatable
<1>3. IsName(x, v) BY NameRead
<1>4. x \in Lexemes BY <1>3, NamesAreLexemes
<1>5. /\ d.at = b.at /\ d.blocks = n /\ d.left = b.left
      /\ d.stage = IF type = None THEN "none" ELSE "ended"
  BY <1>1 DEF Annotated, Places
<1>6. Append(s, x) = s \o <<x>>
  <2> HIDE DEF s, x
  <2> QED BY <1>2, <1>4, AppendIsConcat
<1> HIDE DEF s, x, v, d
<1>7. Due(d, "START_NODE", type # None) /\ Tail(d.left) = N BY <1>1, <1>5, First
<1>8. c \in Places /\ InLine(v, c, n, N)
  BY <1>2, <1>5, <1>7 DEF ItemOver, Places, Spots, Stages, InLine
<1>9. (type # None) = (d.stage = "ended") BY <1>5
<1>10. Reads(v, d, x, c) BY <1>1, <1>3, <1>5, <1>7, <1>9 DEF Reads, Moves
<1> HIDE DEF c
<1>11. Path(v, d, <<x>>, c) BY <1>2, <1>8, <1>10, OneStep
<1>12. <<x>> \in Seq(Lexemes) BY <1>4
<1>13. Path(v, b, s \o <<x>>, c) BY <1>2, <1>11, <1>12, Joined
<1> QED BY <1>6, <1>8, <1>13 DEF v, s, x

LEMMA NodeGoes ==
    ASSUME WrittenAsMeant, NEW e \in EmitterRecords, NEW type \in Names \cup {None},
           NEW name \in Names, NEW n, NEW N \in Seq(Sayings), NEW a,
           IF e.start_of_line
           THEN Goes(e.opt.version, a, e, n, <<Says("START_NODE", type # None)>> \o N, "start")
           ELSE Goes(e.opt.version, a, e, n,
                     <<EndSaid>> \o (<<Says("START_NODE", type # None)>> \o N), "line")
    PROVE  Goes(e.opt.version, a, EmitNode(e, type, name), n, N, "line")
<1> DEFINE v == e.opt.version
           p == Preamble(e)
           M == <<Says("START_NODE", type # None)>> \o N
           s == Append(Annotation(type, e.opt), BareString(name, e.opt))
<1>1. e.opt \in Options BY DEF EmitterRecords
<1>2. M \in Seq(Sayings) BY SayingsAreTyped, Queue
<1>3. p \in EmitterRecords
  <2> DEFINE t == (IF e.start_of_line THEN <<>> ELSE <<Mark("NEWLINE")>>) \o Indentation(e)
             w == Write(e, t)
  <2>1. t \in Seq(Lexemes)
    <3> DEFINE before == IF e.start_of_line THEN <<>> ELSE <<Mark("NEWLINE")>>
    <3>1. before \in Seq(Lexemes) /\ Indentation(e) \in Seq(Lexemes)
      BY MarkIsLexeme, EmptySeq DEF Indentation, LexemeTypes
    <3> HIDE DEF before
    <3>2. before \o Indentation(e) \in Seq(Lexemes) BY <3>1, ConcatProperties
    <3> QED BY <3>2 DEF before
  <2>2. p = IF w.ok THEN [w EXCEPT !.start_of_line = FALSE] ELSE w BY DEF Preamble
  <2> HIDE DEF t
  <2>3. w \in EmitterRecords BY <2>1, LexemesWritten DEF Makes
  <2> HIDE DEF w
  <2> QED BY <2>2, <2>3 DEF EmitterRecords
<1>4. Goes(v, a, p, n, M, "begun")
  <2> HIDE DEF M, p
  <2>1. IF e.start_of_line THEN Goes(v, a, e, n, M, "start")
                           ELSE Goes(v, a, e, n, <<EndSaid>> \o M, "line")
    BY DEF M
  <2> HIDE DEF v
  <2> QED BY <1>2, <2>1, PreambleRead DEF p
<1>5. s \in Seq(Lexemes)
  <2>1. BareString(name, e.opt) \in Lexemes BY <1>1, NameRead, NamesAreLexemes
  <2>2. Annotation(type, e.opt) \in Seq(Lexemes)
    <3>1. type \in TextKinds \cup {None} BY NamesAreTexts
    <3> QED BY <1>1, <3>1, AnnotationIsInline
  <2> QED BY <2>1, <2>2, AppendProperties
<1>6. \A b : At(v, b, n, M, "begun") => \E c : At(v, c, n, N, "line") /\ Path(v, b, s, c)
  <2> SUFFICES ASSUME NEW b, Begun(b, n, M)
               PROVE  \E c : InLine(v, c, n, N) /\ Path(v, b, s, c)
    BY DEF At
  <2> QED BY <1>1, NodeRead
<1>7. EmitNode(e, type, name) = Write(p, s) BY DEF EmitNode
<1> HIDE DEF p, s, M, v
<1>8. Goes(v, a, Write(p, s), n, N, "line") BY <1>3, <1>4, <1>5, <1>6, Carried
<1> QED BY <1>7, <1>8 DEF v

\* kdl_emit_arg
LEMMA ArgumentGoes ==
    ASSUME WrittenAsMeant, NEW e \in EmitterRecords, NEW val \in Values,
           NEW n, NEW L \in Seq(Sayings), NEW a,
           Goes(e.opt.version, a, e, n,
                <<Says("ARGUMENT", val.type_annotation # None)>> \o L, "line")
    PROVE  Goes(e.opt.version, a, EmitArg(e, val), n, L, "line")
<1> DEFINE v == e.opt.version
           M == <<Says("ARGUMENT", val.type_annotation # None)>> \o L
           ws == <<Mark("WHITESPACE")>>
           s == Value(val, e.opt)
<1>1. e.opt \in Options BY DEF EmitterRecords
<1>2. ws \o s \in Seq(Lexemes)
  <2>1. ws \in Seq(Lexemes) BY MarkIsLexeme DEF LexemeTypes
  <2>2. s \in Seq(Lexemes) BY <1>1, ValueBegins
  <2> HIDE DEF ws, s
  <2> QED BY <2>1, <2>2, ConcatProperties
<1>3. \A b : At(v, b, n, M, "line") => \E c : At(v, c, n, L, "line") /\ Path(v, b, ws \o s, c)
  BY <1>1, ArgumentRead DEF At
<1>4. EmitArg(e, val) = Write(e, ws \o s) /\ Goes(v, a, e, n, M, "line") BY DEF EmitArg
<1> DEFINE t == ws \o s
<1> HIDE DEF M, v, t
<1>5. Goes(v, a, Write(e, t), n, L, "line") BY <1>2, <1>3, <1>4, Carried DEF t
<1> QED BY <1>4, <1>5 DEF v, t

\* kdl_emit_property
LEMMA PropertyGoes ==
    ASSUME WrittenAsMeant, NEW e \in EmitterRecords, NEW val \in Values, NEW name \in Names,
           NEW n, NEW L \in Seq(Sayings), NEW a,
           Goes(e.opt.version, a, e, n,
                <<Says("PROPERTY", val.type_annotation # None)>> \o L, "line")
    PROVE  Goes(e.opt.version, a, EmitProperty(e, name, val), n, L, "line")
<1> DEFINE v == e.opt.version
           M == <<Says("PROPERTY", val.type_annotation # None)>> \o L
           key == <<Mark("WHITESPACE"), BareString(name, e.opt), Mark("EQUALS")>>
           s == Value(val, e.opt)
<1>1. e.opt \in Options BY DEF EmitterRecords
<1>2. key \o s \in Seq(Lexemes)
  <2>1. BareString(name, e.opt) \in Lexemes BY <1>1, NameRead, NamesAreLexemes
  <2>2. key \in Seq(Lexemes) BY <2>1, MarkIsLexeme, Tuples DEF LexemeTypes
  <2>3. s \in Seq(Lexemes) BY <1>1, ValueBegins
  <2> HIDE DEF key, s
  <2> QED BY <2>2, <2>3, ConcatProperties
<1>3. \A b : At(v, b, n, M, "line") => \E c : At(v, c, n, L, "line") /\ Path(v, b, key \o s, c)
  BY <1>1, PropertyRead DEF At
<1>4. EmitProperty(e, name, val) = Write(e, key \o s) /\ Goes(v, a, e, n, M, "line")
  BY DEF EmitProperty
<1> DEFINE t == key \o s
<1> HIDE DEF M, v, t
<1>5. Goes(v, a, Write(e, t), n, L, "line") BY <1>2, <1>3, <1>4, Carried DEF t
<1> QED BY <1>4, <1>5 DEF v, t

\* proplist_emit: what is still to be reported once k properties have been written.
Telling(sorted, k) ==
    [i \in 1..(Len(sorted) - k) |-> Says("PROPERTY", sorted[k + i].value.type_annotation # None)]

LEMMA TellingOn ==
    ASSUME NEW sorted \in Seq(HeldProps), NEW k \in 1..Len(sorted)
    PROVE  Telling(sorted, k - 1) =
               <<Says("PROPERTY", sorted[k].value.type_annotation # None)>> \o Telling(sorted, k)
<1> DEFINE n == Len(sorted)
           y == Says("PROPERTY", sorted[k].value.type_annotation # None)
           t == Telling(sorted, k)
           u == Telling(sorted, k - 1)
           w == <<y>> \o t
<1>1. n \in Nat BY LenProperties
<1>2. \A j \in 1..n : Says("PROPERTY", sorted[j].value.type_annotation # None) \in Sayings
  BY SayingsAreTyped
<1>3. /\ t \in Seq(Sayings) /\ Len(t) = n - k
      /\ \A i \in 1..(n - k) : t[i] = Says("PROPERTY", sorted[k + i].value.type_annotation # None)
  <2> HIDE DEF n
  <2>1. n - k \in Nat BY <1>1 DEF n
  <2>2. \A i \in 1..(n - k) :
            Says("PROPERTY", sorted[k + i].value.type_annotation # None) \in Sayings
    <3> SUFFICES ASSUME NEW i \in 1..(n - k)
                 PROVE  Says("PROPERTY", sorted[k + i].value.type_annotation # None) \in Sayings
      OBVIOUS
    <3>1. k + i \in 1..n BY <1>1
    <3> QED BY <1>2, <3>1 DEF n
  <2>3. t = [i \in 1..(n - k) |-> Says("PROPERTY", sorted[k + i].value.type_annotation # None)]
    BY DEF Telling, n
  <2> HIDE DEF t
  <2>4. t \in Seq(Sayings) /\ Len(t) = n - k BY <2>1, <2>2, <2>3, IsASeq
  <2> QED BY <2>3, <2>4
<1>4. /\ u \in Seq(Sayings) /\ Len(u) = n - k + 1
      /\ \A i \in 1..(n - k + 1) :
            u[i] = Says("PROPERTY", sorted[k - 1 + i].value.type_annotation # None)
  <2> HIDE DEF n
  <2>1. n - k + 1 \in Nat /\ n - (k - 1) = n - k + 1 BY <1>1 DEF n
  <2>2. \A i \in 1..(n - k + 1) :
            Says("PROPERTY", sorted[k - 1 + i].value.type_annotation # None) \in Sayings
    <3> SUFFICES ASSUME NEW i \in 1..(n - k + 1)
                 PROVE  Says("PROPERTY", sorted[k - 1 + i].value.type_annotation # None) \in Sayings
      OBVIOUS
    <3>1. k - 1 + i \in 1..n BY <1>1 DEF n
    <3> QED BY <1>2, <3>1 DEF n
  <2>3. u = [i \in 1..(n - k + 1) |->
                Says("PROPERTY", sorted[k - 1 + i].value.type_annotation # None)]
    BY <2>1 DEF Telling, n
  <2> HIDE DEF u
  <2>4. u \in Seq(Sayings) /\ Len(u) = n - k + 1 BY SMTT(60), <2>1, <2>2, <2>3, IsASeq
  <2> QED BY <2>3, <2>4
<1>5. y \in Sayings BY SayingsAreTyped
<1> HIDE DEF t, u
<1> DEFINE o == <<y>>
<1>6. o \in Seq(Sayings) /\ Len(o) = 1 /\ o[1] = y BY <1>5
<1> HIDE DEF o
<1>7. /\ o \o t \in Seq(Sayings) /\ Len(o \o t) = 1 + (n - k)
      /\ \A i \in 1..(1 + (n - k)) : (o \o t)[i] = IF i <= 1 THEN o[i] ELSE t[i - 1]
  <2>1. /\ o \o t \in Seq(Sayings) /\ Len(o \o t) = Len(o) + Len(t)
        /\ \A i \in 1..(Len(o) + Len(t)) :
              (o \o t)[i] = IF i <= Len(o) THEN o[i] ELSE t[i - Len(o)]
    BY <1>3, <1>6, ConcatProperties
  <2> HIDE DEF n
  <2> QED BY <1>3, <1>6, <2>1
<1> DEFINE c == o \o t
<1> HIDE DEF c, n
<1>8. \A i \in 1..Len(u) : u[i] = c[i]
  <2> SUFFICES ASSUME NEW i \in 1..Len(u) PROVE u[i] = c[i] OBVIOUS
  <2>1. n - k \in Nat /\ i \in 1..(n - k + 1) /\ i \in 1..(1 + (n - k)) BY <1>1, <1>4 DEF n
  <2>2. CASE i = 1
    <3>1. k - 1 + i = k BY <1>1, <2>2
    <3> QED BY SMTT(60), <1>4, <1>6, <1>7, <2>1, <2>2, <3>1 DEF c
  <2>3. CASE i # 1
    <3>1. i - 1 \in 1..(n - k) /\ ~(i <= 1) /\ k + (i - 1) = k - 1 + i BY <1>1, <2>1, <2>3
    <3>2. u[i] = Says("PROPERTY", sorted[k + (i - 1)].value.type_annotation # None)
      BY <1>4, <2>1, <3>1
    <3>3. c[i] = t[i - 1] BY <1>7, <2>1, <3>1 DEF c
    <3> QED BY <1>3, <3>1, <3>2, <3>3
  <2> QED BY <2>2, <2>3
<1>9. Len(u) = Len(c) /\ c \in Seq(Sayings) BY <1>1, <1>4, <1>7 DEF c, n
<1>10. u = c BY <1>4, <1>8, <1>9, SeqEqual
<1> QED BY <1>10 DEF u, c, o, t

LEMMA PropertiesGo ==
    ASSUME WrittenAsMeant, NEW e \in EmitterRecords, NEW d \in Int, NEW f \in BOOLEAN,
           InStep(e, d, f), e.ok /\ ~e.broken => ~e.start_of_line,
           NEW held \in Seq(HeldProps), NEW n, NEW L \in Seq(Sayings), NEW a,
           Goes(e.opt.version, a, e, n, Telling(Emission(held), 0) \o L, "line")
    PROVE  Goes(e.opt.version, a, EmitProperties(e, held), n, L, "line")
<1> DEFINE sorted == Emission(held)
           w == WritingProperties(e, sorted)
           v == e.opt.version
           T == {k \in 0..Len(sorted) : Goes(v, a, w[k], n, Telling(sorted, k) \o L, "line")}
<1>1. sorted \in Seq(HeldProps) BY EmissionOfHeld
<1> HIDE DEF sorted
<1>2. Len(sorted) \in Nat BY <1>1, LenProperties
<1>3. /\ \A k \in 0..Len(sorted) : w[k] \in Writing(e, d, f)
      /\ w[0] = e
      /\ \A k \in 1..Len(sorted) :
             w[k] = EmitProperty(w[k - 1], KeyTexts[sorted[k].name], sorted[k].value)
  BY <1>1, WritingTurns
<1> HIDE DEF w
<1>4. 0 \in T BY <1>2, <1>3 DEF sorted
<1>5. ASSUME NEW k \in 1..Len(sorted), k - 1 \in T PROVE k \in T
  <2>1. k \in 0..Len(sorted) /\ k - 1 \in 0..Len(sorted) BY <1>2
  <2>2. sorted[k] \in HeldProps BY <1>1, ElementOfSeq
  <2>3. sorted[k].value \in Values /\ sorted[k].name \in Keys BY <2>2 DEF HeldProps
  <2>4. KeyTexts[sorted[k].name] \in Names
    <3>1. KeyTexts[sorted[k].name] \in TextKinds
      BY <2>3, KeyTextsAssumption, ElementOfSeq DEF Keys
    <3>2. KeyTexts[sorted[k].name] # None BY <3>1 DEF TextKinds, None
    <3> QED BY <2>3, <3>2 DEF Names
  <2>5. w[k - 1] \in EmitterRecords /\ w[k - 1].opt = e.opt
    BY <1>3, <2>1 DEF Writing, Makes
  <2> DEFINE y == Says("PROPERTY", sorted[k].value.type_annotation # None)
             t == Telling(sorted, k)
  <2>6. Telling(sorted, k - 1) = <<y>> \o t BY <1>1, TellingOn
  <2>7. y \in Sayings BY SayingsAreTyped
  <2>8. t \in Seq(Sayings)
    <3> DEFINE m == Len(sorted) - k
               At1(i) == Says("PROPERTY", sorted[k + i].value.type_annotation # None)
    <3>1. m \in Nat BY <1>2
    <3>2. \A i \in 1..m : At1(i) \in Sayings BY SayingsAreTyped
    <3>3. t = [i \in 1..m |-> At1(i)] BY DEF Telling
    <3> HIDE DEF m, At1, t
    <3> QED BY <3>1, <3>2, <3>3, IsASeq
  <2> HIDE DEF t
  <2>9. t \o L \in Seq(Sayings) BY <2>8, ConcatProperties
  <2>10. (<<y>> \o t) \o L = <<y>> \o (t \o L)
    <3>1. <<y>> \in Seq(Sayings) BY <2>7
    <3> HIDE DEF y
    <3> QED BY <2>8, <3>1, ConcatAssociative
  <2>11. Goes(v, a, w[k - 1], n, <<y>> \o (t \o L), "line")
    BY <1>5, <2>6, <2>10
  <2>12. Goes(v, a, w[k], n, t \o L, "line")
    <3>1. w[k] = EmitProperty(w[k - 1], KeyTexts[sorted[k].name], sorted[k].value) BY <1>3
    <3>2. w[k - 1].opt.version = v BY <2>5
    <3> DEFINE x == w[k - 1]
               val == sorted[k].value
               name == KeyTexts[sorted[k].name]
               M == t \o L
    <3>3. x \in EmitterRecords /\ val \in Values /\ name \in Names /\ M \in Seq(Sayings)
          /\ x.opt.version = v
          /\ Goes(v, a, x, n, <<Says("PROPERTY", val.type_annotation # None)>> \o M, "line")
      BY <2>3, <2>4, <2>5, <2>9, <2>11, <3>2
    <3> HIDE DEF x, val, name, M, v
    <3>4. Goes(v, a, EmitProperty(x, name, val), n, M, "line") BY <3>3, PropertyGoes
    <3> QED BY <3>1, <3>4 DEF x, val, name, M
  <2> QED BY <2>1, <2>12 DEF t
<1> HIDE DEF T
<1>6. 0..Len(sorted) \subseteq T BY <1>2, <1>4, <1>5, UpTo
<1>7. Goes(v, a, w[Len(sorted)], n, Telling(sorted, Len(sorted)) \o L, "line")
  <2>1. Len(sorted) \in 0..Len(sorted) BY <1>2
  <2> QED BY <1>6, <2>1 DEF T
<1>8. Telling(sorted, Len(sorted)) \o L = L
  <2>1. Len(sorted) - Len(sorted) = 0 BY <1>2
  <2>2. Telling(sorted, Len(sorted)) = <<>> BY <2>1 DEF Telling
  <2> QED BY <2>2, ConcatEmptySeq
<1> QED BY <1>7, <1>8 DEF EmitProperties, w, sorted

\* kdl_start_emitting_children
LEMMA ChildrenBegun ==
    ASSUME NEW v, NEW n \in Nat, n < MaxDepth, NEW L \in Seq(Sayings), NEW b, InLine(v, b, n, L)
    PROVE  \E c : /\ AtLine(c, n + 1, L)
                  /\ Path(v, b, <<Mark("WHITESPACE"), Mark("START_CHILDREN"), Mark("NEWLINE")>>, c)
<1> DEFINE ws == Mark("WHITESPACE")
           x == Mark("START_CHILDREN")
           nl == Mark("NEWLINE")
           s == <<x, nl>>
<1>1. ws \in Lexemes /\ x \in Lexemes /\ nl \in Lexemes /\ x.type = "START_CHILDREN"
  BY MarksAreLexemes DEF LexemeTypes
<1>2. /\ s \in Seq(Lexemes) /\ s # <<>> /\ s[1] = x /\ s = <<x>> \o <<nl>>
      /\ <<ws>> \o s = <<ws, x, nl>> /\ <<nl>> \in Seq(Lexemes)
  <2> HIDE DEF ws, x, nl
  <2>1. <<x>> \o <<nl>> = <<x, nl>> /\ <<ws>> \o (<<x>> \o <<nl>>) = <<ws, x, nl>>
    BY <1>1, Tuples
  <2>2. s \in Seq(Lexemes) /\ s # <<>> /\ s[1] = x /\ <<nl>> \in Seq(Lexemes) BY <1>1
  <2> QED BY <2>1, <2>2
<1> HIDE DEF s
<1>3. s \in Seq(Lexemes) /\ s # <<>> /\ s[1].type \notin {"EQUALS", "WHITESPACE"}
  BY <1>1, <1>2
<1>4. PICK e \in Places :
          /\ e.at = "entry" /\ e.stage = "none" /\ e.blocks = n /\ e.left = L
          /\ Behind(v, b, e)
  BY EntryBegun
<1>5. /\ e \in Places /\ e.at = "entry" /\ e.stage = "none" /\ e.blocks = n /\ e.left = L
  BY <1>4
<1>6. e.blocks + 1 \in Nat BY <1>5
<1> DEFINE d == BlockOpen(e)
           c == [d EXCEPT !.at = "line"]
<1>7. d \in Places /\ d.at = "opened" /\ d.stage = "none" /\ d.blocks = n + 1 /\ d.left = L
  <2> HIDE DEF x, s, nl, ws
  <2> QED BY <1>5, <1>6 DEF BlockOpen, Places, Spots
<1>8. Reads(v, e, x, d) BY <1>4 DEF Reads, Moves
<1> HIDE DEF d
<1>9. c \in Places /\ AtLine(c, n + 1, L) BY <1>7 DEF Places, Spots, AtLine
<1>10. Reads(v, d, nl, c) BY <1>7 DEF Reads, Moves
<1> HIDE DEF c, ws, x, nl
<1>11. Path(v, d, <<nl>>, c) BY <1>7, <1>9, <1>10, OneStep
<1>12. Path(v, e, s, c) BY <1>1, <1>2, <1>4, <1>7, <1>8, <1>11, StepFirst
<1>13. Path(v, b, <<ws>> \o s, c) BY <1>2, <1>3, <1>4, <1>12 DEF Behind, ws
<1> QED BY <1>2, <1>9, <1>13 DEF ws, x, nl

LEMMA ChildrenGo ==
    ASSUME NEW v, NEW e \in EmitterRecords, NEW n \in Nat, n < MaxDepth,
           NEW L \in Seq(Sayings), NEW a, Goes(v, a, e, n, L, "line")
    PROVE  Goes(v, a, StartEmittingChildren(e), n + 1, L, "start")
<1> DEFINE d == [e EXCEPT !.start_of_line = TRUE, !.depth = @ + 1]
           s == <<Mark("WHITESPACE"), Mark("START_CHILDREN"), Mark("NEWLINE")>>
<1>1. CASE ~e.ok
  <2>1. StartEmittingChildren(e) = e BY <1>1 DEF StartEmittingChildren
  <2> QED BY <1>1, <2>1 DEF Goes
<1>2. CASE e.ok
  <2>1. StartEmittingChildren(e) = Write(d, s) BY <1>2 DEF StartEmittingChildren
  <2>2. d \in EmitterRecords /\ d.out = e.out /\ d.ok = e.ok
    <3>1. e.depth + 1 \in Nat BY DEF EmitterRecords
    <3> QED BY <3>1 DEF EmitterRecords
  <2>3. s \in Seq(Lexemes)
    <3>1. /\ Mark("WHITESPACE") \in Lexemes /\ Mark("START_CHILDREN") \in Lexemes
          /\ Mark("NEWLINE") \in Lexemes
      BY MarksAreLexemes DEF LexemeTypes
    <3> QED BY <3>1
  <2>4. \A b : At(v, b, n, L, "line") => \E c : At(v, c, n + 1, L, "start") /\ Path(v, b, s, c)
    BY ChildrenBegun DEF At
  <2> HIDE DEF d, s
  <2>5. Goes(v, a, d, n, L, "line") BY <2>2, SameText
  <2> QED BY <2>1, <2>2, <2>3, <2>4, <2>5, Carried
<1> QED BY <1>1, <1>2

\* kdl_finish_emitting_children
LEMMA BlockFinished ==
    ASSUME NEW v, NEW n \in Nat, n > 0, NEW N \in Seq(Sayings), NEW b,
           Begun(b, n, <<EndSaid>> \o N)
    PROVE  \E c : /\ AtLine(c, n - 1, N)
                  /\ Path(v, b, <<Mark("END_CHILDREN"), Mark("NEWLINE")>>, c)
<1> DEFINE x == Mark("END_CHILDREN")
           nl == Mark("NEWLINE")
           d == BlockOver(b)
           c == NodeOver(d)
<1>1. x \in Lexemes /\ nl \in Lexemes BY MarksAreLexemes DEF LexemeTypes
<1>2. <<x>> \o <<nl>> = <<x, nl>> /\ <<nl>> \in Seq(Lexemes)
  <2> HIDE DEF x, nl
  <2> QED BY <1>1, Tuples
<1>3. b \in Places /\ b.stage = "none" /\ b.blocks = n /\ b.at \in {"line", "indented"}
      /\ b.left = <<EndSaid>> \o N
  BY DEF Begun
<1>4. n - 1 \in Nat OBVIOUS
<1>5. d \in Places /\ d.at = "closed" /\ d.stage = "none" /\ d.blocks = n - 1 /\ d.left = b.left
  BY <1>3, <1>4 DEF BlockOver, Places, Spots
<1>6. Reads(v, b, x, d) BY <1>3 DEF Reads, Moves
<1> HIDE DEF d
<1>7. Due(d, "END_NODE", FALSE) /\ Tail(d.left) = N BY <1>3, <1>5, First DEF EndSaid
<1>8. c \in Places /\ AtLine(c, n - 1, N) BY <1>5, <1>7 DEF NodeOver, Places, Spots, AtLine
<1>9. Reads(v, d, nl, c) BY <1>5, <1>7 DEF Reads, Moves
<1> HIDE DEF c, x, nl
<1>10. Path(v, d, <<nl>>, c) BY <1>5, <1>8, <1>9, OneStep
<1>11. Path(v, b, <<x>> \o <<nl>>, c) BY <1>1, <1>2, <1>3, <1>5, <1>6, <1>10, StepFirst
<1> QED BY <1>2, <1>8, <1>11 DEF x, nl

LEMMA FinishGoes ==
    ASSUME NEW v, NEW e \in EmitterRecords, NEW N \in Seq(Sayings), NEW a,
           IF e.start_of_line THEN Goes(v, a, e, e.depth, <<EndSaid>> \o N, "start")
           ELSE Goes(v, a, e, e.depth, <<EndSaid>> \o (<<EndSaid>> \o N), "line")
    PROVE  Goes(v, a, FinishEmittingChildren(e), e.depth - 1, N, "start")
<1> DEFINE d == [e EXCEPT !.depth = @ - 1]
           n == e.depth
           M == <<EndSaid>> \o N
           line == Preamble(d)
           s == <<Mark("END_CHILDREN"), Mark("NEWLINE")>>
           w == FinishEmittingChildren(e)
<1>1. n \in Nat /\ M \in Seq(Sayings) BY SayingsAreTyped, Queue DEF EmitterRecords
<1>2. \E b \in Places : Path(v, a, e.out, b) BY DEF Goes
<1>3. CASE ~e.ok \/ n = 0
  <2>1. w = IF ~e.ok THEN e ELSE [e EXCEPT !.ok = FALSE] BY <1>3 DEF FinishEmittingChildren
  <2>2. w.out = e.out /\ ~w.ok BY <2>1 DEF EmitterRecords
  <2> QED BY <1>2, <2>2 DEF Goes
<1>4. CASE e.ok /\ n > 0
  <2>1. w = IF line.ok THEN Write([line EXCEPT !.start_of_line = TRUE], s) ELSE line
    BY <1>4 DEF FinishEmittingChildren
  <2>2. d \in EmitterRecords /\ d.out = e.out /\ d.ok = e.ok /\ d.start_of_line = e.start_of_line
    <3>1. e.depth - 1 \in Nat BY <1>1, <1>4
    <3> QED BY <3>1 DEF EmitterRecords
  <2> HIDE DEF d, w
  <2>3. Goes(v, a, line, n, M, "begun")
    <3>1. IF d.start_of_line THEN Goes(v, a, d, n, M, "start")
                             ELSE Goes(v, a, d, n, <<EndSaid>> \o M, "line")
      BY <2>2 DEF Goes
    <3> HIDE DEF M, n
    <3> QED BY <1>1, <2>2, <3>1, PreambleRead
  <2>4. line \in EmitterRecords
    <3> DEFINE before == IF d.start_of_line THEN <<>> ELSE <<Mark("NEWLINE")>>
               t == before \o Indentation(d)
               x == Write(d, t)
    <3>1. before \in Seq(Lexemes) /\ Indentation(d) \in Seq(Lexemes)
      BY MarkIsLexeme, EmptySeq DEF Indentation, LexemeTypes
    <3>2. t \in Seq(Lexemes)
      <4> HIDE DEF before
      <4> QED BY <3>1, ConcatProperties
    <3>3. line = IF x.ok THEN [x EXCEPT !.start_of_line = FALSE] ELSE x BY DEF Preamble
    <3> HIDE DEF t
    <3>4. x \in EmitterRecords BY <2>2, <3>2, LexemesWritten DEF Makes
    <3> HIDE DEF x
    <3> QED BY <3>3, <3>4 DEF EmitterRecords
  <2> HIDE DEF line
  <2>5. CASE ~line.ok BY <2>1, <2>3, <2>5 DEF Goes, w
  <2>6. CASE line.ok
    <3> DEFINE y == [line EXCEPT !.start_of_line = TRUE]
    <3>1. y \in EmitterRecords /\ y.out = line.out /\ y.ok = line.ok
      BY <2>4 DEF EmitterRecords
    <3>2. s \in Seq(Lexemes)
      <4>1. Mark("END_CHILDREN") \in Lexemes /\ Mark("NEWLINE") \in Lexemes
        BY MarksAreLexemes DEF LexemeTypes
      <4> QED BY <4>1
    <3>3. \A b : At(v, b, n, M, "begun") => \E c : At(v, c, n - 1, N, "start") /\ Path(v, b, s, c)
      BY <1>1, <1>4, BlockFinished DEF At
    <3> HIDE DEF y, s, M, n
    <3>4. Goes(v, a, y, n, M, "begun") BY <2>3, <3>1, SameText
    <3>5. Goes(v, a, Write(y, s), n - 1, N, "start") BY <3>1, <3>2, <3>3, <3>4, Carried
    <3> QED BY <2>1, <2>6, <3>5 DEF y, n, w
  <2> QED BY <2>5, <2>6 DEF w
<1>5. n = 0 \/ n > 0 BY <1>1
<1> QED BY <1>3, <1>4, <1>5

\* kdl_emit_end, called when every block has been closed.
LEMMA EndGoes ==
    ASSUME NEW v, NEW e \in EmitterRecords, NEW n \in Int, NEW f \in BOOLEAN, InStep(e, n, f),
           e.depth = 0, NEW a,
           IF e.start_of_line THEN Goes(v, a, e, 0, <<>>, "start")
                              ELSE Goes(v, a, e, 0, <<EndSaid>> \o <<>>, "line")
    PROVE  Goes(v, a, EmitEnd(e), 0, <<>>, "start")
<1> DEFINE nl == <<Mark("NEWLINE")>>
           line == Write(e, nl)
           w == EmitEnd(e)
<1>1. Closing(e)[e.depth] = e BY ClosingTurns
<1>2. w = IF ~e.ok \/ e.start_of_line THEN e
          ELSE IF line.ok THEN [line EXCEPT !.start_of_line = TRUE] ELSE line
  BY <1>1 DEF EmitEnd
<1>3. CASE e.start_of_line BY <1>2, <1>3
<1>4. CASE ~e.start_of_line
  <2>1. nl \in Seq(Lexemes) BY MarkIsLexeme DEF LexemeTypes
  <2>2. <<>> \in Seq(Sayings) BY EmptySeq
  <2> DEFINE L == <<EndSaid>> \o <<>>
  <2>3. \A b : At(v, b, 0, L, "line") => \E c : At(v, c, 0, <<>>, "start") /\ Path(v, b, nl, c)
    BY <2>2, LineOver DEF At
  <2>4. Goes(v, a, e, 0, L, "line") BY <1>4
  <2> HIDE DEF L, nl
  <2>5. Goes(v, a, line, 0, <<>>, "start") BY <2>1, <2>3, <2>4, Carried
  <2>6. line \in EmitterRecords BY <2>1, LexemesWritten DEF Makes
  <2>7. ~e.ok => line = e BY DEF Write
  <2> HIDE DEF line, w
  <2>8. w.out = line.out /\ (w.ok <=> line.ok)
    BY <1>2, <1>4, <2>6, <2>7 DEF EmitterRecords
  <2> QED BY <2>5, <2>8, SameText DEF w
<1> QED BY <1>3, <1>4

-----------------------------------------------------------------------------
(* A step of ckdl-cat. *)

\* More has been written, which is still to be reported.
Owing(a, says) == [a EXCEPT !.left = a.left \o says]

LEMMA OwingStands ==
    ASSUME NEW a \in Places, Stands(a), NEW says \in Seq(Sayings)
    PROVE  /\ Owing(a, says) \in Places /\ Stands(Owing(a, says))
           /\ Owing(a, says).left = a.left \o says
<1> DEFINE c == Owing(a, says)
<1>1. a.left \o says \in Seq(Sayings) BY ConcatProperties DEF Places
<1>2. /\ c \in Places /\ c.left = a.left \o says /\ c.at = a.at /\ c.stage = a.stage
      /\ c.bare = a.bare /\ c.blocks = a.blocks
  BY <1>1 DEF Owing, Places
<1> HIDE DEF c
<1>3. StageFlags(c) = StageFlags(a) /\ SpotFlags(c) = SpotFlags(a)
  BY <1>2 DEF StageFlags, SpotFlags, BareFlags
<1>4. Bears(c) BY <1>2 DEF Stands, Bears
<1>5. next_token = Parser!NoToken => Follows(c) BY <1>2 DEF Stands, Follows
<1>6. Stands(c) BY <1>3, <1>4, <1>5 DEF Stands
<1> QED BY <1>2, <1>6 DEF c

LEMMA OwingAt ==
    ASSUME NEW v, NEW a \in Places, NEW n, NEW L \in Seq(Sayings), NEW says \in Seq(Sayings)
    PROVE  /\ AtLine(a, n, L) => AtLine(Owing(a, says), n, L \o says)
           /\ InLine(v, a, n, L) => InLine(v, Owing(a, says), n, L \o says)
<1> DEFINE c == Owing(a, says)
           K == <<ArgumentSaid>>
<1>1. a.left \o says \in Seq(Sayings) BY ConcatProperties DEF Places
<1>2. /\ c \in Places /\ c.left = a.left \o says /\ c.at = a.at /\ c.stage = a.stage
      /\ c.bare = a.bare /\ c.blocks = a.blocks
  BY <1>1 DEF Owing, Places
<1>3. K \in Seq(Sayings) BY SayingsAreTyped
<1> HIDE DEF c, K
<1>4. (K \o L) \o says = K \o (L \o says) BY <1>3, ConcatAssociative
<1>5. AtLine(a, n, L) => AtLine(c, n, L \o says) BY <1>2 DEF AtLine
<1>6. InLine(v, a, n, L) => InLine(v, c, n, L \o says)
  <2> SUFFICES ASSUME InLine(v, a, n, L) PROVE InLine(v, c, n, L \o says) OBVIOUS
  <2>1. CASE a.at = "word" /\ a.left = L BY <1>2, <2>1 DEF InLine
  <2>2. CASE a.at = "key" /\ (a.bare => v = "v2") /\ a.left = K \o L
    BY <1>2, <1>4, <2>2 DEF InLine, K
  <2> QED BY <2>1, <2>2 DEF InLine, K
<1> QED BY <1>5, <1>6 DEF c

LEMMA ReadUpTo ==
    ASSUME RoundTripIInv, AllRead, result = "reading"
    PROVE  /\ ~Parser!Finished
           /\ \E a \in Places : a.left = said /\ Stands(a) /\ Settled(a)
<1>1. ReadIInv BY DEF RoundTripIInv
<1>2. ~Parser!Finished BY <1>1 DEF ReadIInv
<1> QED BY <1>1, <1>2, AllIsRead

\* What the first call of a step finds.
LEMMA WritingBegins ==
    ASSUME RoundTripIInv, AllRead, result = "reading", NEW room \in Nat,
           NEW says \in Seq(Sayings)
    PROVE  \E a \in Places :
               /\ a.left = said /\ Stands(a)
               /\ LET e == Calling(emitter, room)
                      v == e.opt.version
                      c == Owing(a, says)
                      K == IF in_node_list THEN <<EndSaid>> ELSE <<>>
                  IN IF e.start_of_line THEN Goes(v, c, e, e.depth, says, "start")
                                        ELSE Goes(v, c, e, e.depth, K \o says, "line")
<1> DEFINE e == Calling(emitter, room)
           v == e.opt.version
           K == IF in_node_list THEN <<EndSaid>> ELSE <<>>
<1>1. PICK a \in Places : a.left = said /\ Stands(a) /\ Settled(a) BY ReadUpTo
<1> DEFINE c == Owing(a, says)
<1>2. c \in Places BY <1>1, OwingStands
<1>3. /\ e.opt = emitter.opt /\ e.depth = emitter.depth
      /\ e.start_of_line = emitter.start_of_line /\ e.out = <<>>
  BY DEF Calling, RoundTripIInv, CatIInv, SinkIInv, EmitterRecords
<1>4. K \in Seq(Sayings) /\ <<>> \in Seq(Sayings) BY SayingsAreTyped, EmptySeq
<1>5. IF e.start_of_line THEN AtLine(a, e.depth, <<>>) ELSE InLine(v, a, e.depth, K)
  BY <1>1, <1>3 DEF Settled
<1> HIDE DEF e, K, v
<1>6. <<>> \o says = says BY ConcatEmptySeq
<1>7. IF e.start_of_line THEN AtLine(c, e.depth, says) ELSE InLine(v, c, e.depth, K \o says)
  <2>1. CASE e.start_of_line
    <3>1. AtLine(c, e.depth, <<>> \o says) BY <1>4, <1>5, <2>1, OwingAt
    <3> QED BY <1>6, <2>1, <3>1
  <2>2. CASE ~e.start_of_line BY <1>4, <1>5, <2>2, OwingAt
  <2> QED BY <2>1, <2>2
<1> HIDE DEF c
<1>8. Path(v, c, e.out, c) BY <1>2, <1>3, NoPath
<1>9. IF e.start_of_line THEN Goes(v, c, e, e.depth, says, "start")
                         ELSE Goes(v, c, e, e.depth, K \o says, "line")
  BY <1>2, <1>7, <1>8 DEF Goes, At
<1> QED BY <1>1, <1>9 DEF e, v, K, c

\* Where the calls have come to, unless one has failed.
Arrived(e, n, L, spot, between) ==
    /\ n = e.depth
    /\ IF e.start_of_line THEN spot = "start" /\ L = <<>>
       ELSE spot = "line" /\ L = IF between THEN <<EndSaid>> ELSE <<>>

LEMMA WritingEnds ==
    ASSUME RoundTripIInv, AllRead, result = "reading",
           NEW a \in Places, a.left = said, Stands(a),
           NEW says \in Seq(Sayings), Written(says),
           NEW e \in EmitterRecords, e.opt = emitter.opt, emitter' = Called(e),
           NEW n, NEW L, NEW spot, Goes(e.opt.version, Owing(a, says), e, n, L, spot),
           e.ok => Arrived(e, n, L, spot, in_node_list'),
           result' \in {"reading", "true", "false"}, result' # "false" => e.ok
    PROVE  ReadIInv'
<1> DEFINE c == Owing(a, says)
           v == e.opt.version
<1>1. /\ text' = emitter'.out /\ said' = said \o says
      /\ mode' = mode /\ flags' = flags /\ depth' = depth
      /\ slashdash_depth' = slashdash_depth
      /\ waiting_type_annotation' = waiting_type_annotation
      /\ next_token' = next_token /\ event' = event /\ last' = last /\ version' = version
  BY DEF Written, parserVars
<1>2. ~Parser!Finished /\ version \in {v, "detect"} BY ReadUpTo DEF RoundTripIInv, ReadIInv
<1>3. /\ emitter'.out = e.out /\ emitter'.opt = e.opt /\ emitter'.depth = e.depth
      /\ emitter'.start_of_line = e.start_of_line
  BY DEF Called, EmitterRecords
<1>4. next_token = Parser!NoToken BY DEF AllRead
<1>5. c \in Places /\ Stands(c) /\ c.left = said \o says BY OwingStands
<1> HIDE DEF c
<1>6. Stands(c)'
  BY <1>1, <1>5 DEF Stands, Bears, Follows, StageFlags, SpotFlags, BareFlags
<1>7. OnTheWay' = e.out BY <1>1, <1>3, <1>4 DEF OnTheWay
<1>8. PICK b \in Places : Path(v, c, e.out, b) /\ (e.ok => At(v, b, n, L, spot))
  BY DEF Goes, c
<1>9. result' # "false" => Settled(b)'
  <2> SUFFICES ASSUME e.ok PROVE Settled(b)' OBVIOUS
  <2>1. At(v, b, n, L, spot) /\ Arrived(e, n, L, spot, in_node_list') BY <1>8
  <2>2. CASE e.start_of_line BY <1>3, <2>1, <2>2 DEF At, Arrived, Settled
  <2>3. CASE ~e.start_of_line BY <1>3, <2>1, <2>3 DEF At, Arrived, Settled
  <2> QED BY <2>2, <2>3
<1>10. said' \in Seq(Sayings) BY <1>1, <1>5 DEF Places
<1>11. text' \in Seq(Lexemes) BY <1>1, <1>3 DEF EmitterRecords
<1>12. ~Parser!Finished' BY <1>1, <1>2 DEF Parser!Finished
<1>13. next_token' \in Lexemes \cup {Parser!NoToken} BY <1>1, <1>4
<1>14. version' \in {emitter'.opt.version, "detect"} BY <1>1, <1>2, <1>3
<1>15. \E p, q \in Places :
           /\ p.left = said' /\ Stands(p)' /\ Path(emitter'.opt.version, p, OnTheWay', q)
           /\ result' # "false" => Settled(q)'
  BY <1>1, <1>3, <1>5, <1>6, <1>7, <1>8, <1>9
<1> QED BY <1>10, <1>11, <1>12, <1>13, <1>14, <1>15 DEF ReadIInv

LEMMA GoesNowhere ==
    ASSUME NEW v, NEW a, NEW e, NEW n, NEW L, NEW spot, Goes(v, a, e, n, L, spot), ~e.ok,
           NEW m, NEW M, NEW u
    PROVE  Goes(v, a, e, m, M, u)
BY DEF Goes

\* What the properties held back make ckdl-cat say.
LEMMA PropertiesSaid ==
    ASSUME CatTypes
    PROVE  /\ SaidProperties = Telling(Emission(props), 0)
           /\ SaidProperties \in Seq(Sayings)
<1> DEFINE sorted == Emission(props)
           s == SaidProperties
           n == Len(sorted)
<1>1. sorted \in Seq(HeldProps) BY EmissionOfHeld DEF CatTypes
<1>2. s = [i \in 1..n |-> Says("PROPERTY", sorted[i].value.type_annotation # None)]
  BY DEF SaidProperties, Said, Says
<1> HIDE DEF sorted, s
<1>3. n \in Nat BY <1>1, LenProperties
<1>4. n - 0 = n /\ \A i \in 1..n : 0 + i = i BY <1>3
<1>5. Telling(sorted, 0) = s BY <1>2, <1>4 DEF Telling
<1>6. \A i \in 1..n : Says("PROPERTY", sorted[i].value.type_annotation # None) \in Sayings
  <2> SUFFICES ASSUME NEW i \in 1..n
               PROVE  Says("PROPERTY", sorted[i].value.type_annotation # None) \in Sayings
    OBVIOUS
  <2>1. (sorted[i].value.type_annotation # None) \in BOOLEAN OBVIOUS
  <2> QED BY <2>1, SayingsAreTyped
<1>7. s \in Seq(Sayings)
  <2> HIDE DEF n
  <2>1. s \in [1..n -> Sayings] BY <1>2, <1>6
  <2> QED BY <1>3, <2>1
<1> QED BY <1>5, <1>7 DEF sorted, s

LEMMA NamesWritten ==
    /\ Texts \subseteq Names
    /\ \A val \in Values : val.type_annotation \in Names \cup {None}
<1>1. None \notin TextKinds BY DEF None, TextKinds
<1> QED BY <1>1, TextsAssumption DEF Names

\* The node before gets its children, and then the node is written.
LEMMA StartNodeWritten ==
    ASSUME WrittenAsMeant, RoundTripIInv, AllRead, result = "reading", NEW room \in Nat,
           NEW type \in Texts \cup {None}, NEW name \in Texts,
           CatStartNode(type, name, room), Written(Append(SaidBefore, Said("START_NODE", type)))
    PROVE  ReadIInv'
<1> DEFINE e == Calling(emitter, room)
           p == BeforeNode(e)
           w == EmitNode(p, type, name)
           x == Says("START_NODE", type # None)
           says == Append(SaidBefore, Said("START_NODE", type))
<1>1. /\ e \in EmitterRecords /\ InStep(e, nesting, fresh) /\ e.ok
      /\ e.opt = emitter.opt /\ e.depth = emitter.depth
      /\ e.start_of_line = emitter.start_of_line /\ e.broken = emitter.broken
  BY CallBegins DEF RoundTripIInv, CatIInv
<1>2. /\ Makes(e, p) /\ InStep(p, nesting, fresh)
      /\ p.ok => p.depth = emitter.depth + (IF in_node_list THEN 0 ELSE 1)
  BY BeforeNodeEmitted DEF RoundTripIInv
<1>3. /\ nesting \in Int /\ fresh \in BOOLEAN /\ emitter.depth \in Nat
      /\ in_node_list \in BOOLEAN /\ props \in Seq(HeldProps)
      /\ open = emitter.depth + (IF in_node_list THEN 0 ELSE 1)
      /\ ~in_node_list => ~emitter.start_of_line
  BY Zenon DEF RoundTripIInv, CatIInv, SinkIInv, CatTypes, EmitterRecords, ReadingInLine,
         EmitterFollowsTheNodes
<1>4. /\ Emitted(w) /\ result' = Returned(w) /\ in_node_list' = FALSE /\ open < MaxDepth
  BY DEF CatStartNode
<1>5. type \in Names \cup {None} /\ name \in Names BY NamesWritten
<1>6. x \in Sayings /\ Said("START_NODE", type) = x
  <2>1. (type # None) \in BOOLEAN OBVIOUS
  <2>2. Says("START_NODE", type # None) \in Sayings BY <2>1, SayingsAreTyped
  <2> QED BY <2>2 DEF Said, Says
<1> HIDE DEF x
<1> DEFINE M == <<x>>
           N == <<>>
           T == SaidProperties
<1>7. M \in Seq(Sayings) /\ M \o N = M /\ N \in Seq(Sayings)
  BY <1>6, ConcatEmptySeq, EmptySeq
<1>8. T = Telling(Emission(props), 0) /\ T \in Seq(Sayings)
  BY PropertiesSaid DEF RoundTripIInv, CatIInv
<1> HIDE DEF M, N, T
<1>9. says \in Seq(Sayings) /\ says = IF in_node_list THEN M ELSE T \o M
  <2>1. CASE in_node_list
    <3>1. says = Append(<<>>, x) BY <1>6, <2>1 DEF SaidBefore
    <3>2. Append(<<>>, x) = M BY DEF M
    <3> HIDE DEF says
    <3> QED BY <1>7, <2>1, <3>1, <3>2
  <2>2. CASE ~in_node_list
    <3>1. says = Append(T, x) BY <1>6, <2>2 DEF SaidBefore, T
    <3>2. Append(T, x) = T \o M BY <1>6, <1>8, AppendIsConcat DEF M
    <3> QED BY <1>7, <1>8, <2>2, <3>1, <3>2, ConcatProperties
  <2> QED BY <2>1, <2>2
<1> HIDE DEF says
<1>10. PICK a \in Places :
           /\ a.left = said /\ Stands(a)
           /\ IF e.start_of_line
              THEN Goes(e.opt.version, Owing(a, says), e, e.depth, says, "start")
              ELSE Goes(e.opt.version, Owing(a, says), e, e.depth,
                        (IF in_node_list THEN <<EndSaid>> ELSE <<>>) \o says, "line")
  BY <1>9, WritingBegins
<1> DEFINE c == Owing(a, says)
           v == e.opt.version
           n == emitter.depth + (IF in_node_list THEN 0 ELSE 1)
<1> HIDE DEF c, w
<1>11. p \in EmitterRecords /\ p.opt = e.opt BY <1>2 DEF Makes
<1>12. IF p.start_of_line THEN Goes(v, c, p, n, M, "start")
                          ELSE Goes(v, c, p, n, <<EndSaid>> \o M, "line")
  <2>1. CASE in_node_list
    <3>1. p = e BY <2>1 DEF BeforeNode
    <3>2. n = e.depth BY <1>1, <1>3, <2>1
    <3> QED BY <1>9, <1>10, <2>1, <3>1, <3>2 DEF c
  <2>2. CASE ~in_node_list
    <3> DEFINE q == EmitProperties(e, props)
               d == emitter.depth
               L == T \o M
    <3>1. Goes(v, c, e, d, L, "line")
      <4>1. Goes(v, c, e, d, <<>> \o says, "line") BY <1>1, <1>3, <1>10, <2>2 DEF c
      <4>2. <<>> \o says = L BY <1>9, <2>2, ConcatEmptySeq
      <4> QED BY <4>1, <4>2
    <3>2. e.ok /\ ~e.broken => ~e.start_of_line BY <1>1, <1>3, <2>2
    <3> HIDE DEF e, n, d
    <3>3. Goes(v, c, q, d, M, "line")
      BY <1>1, <1>3, <1>7, <1>8, <3>1, <3>2, PropertiesGo
    <3>4. Makes(e, q) /\ InStep(q, nesting, fresh) /\ q \in EmitterRecords
      BY <1>1, <1>3, <3>2, PropertiesEmitted DEF Makes
    <3>5. p = StartEmittingChildren(q) BY <2>2 DEF BeforeNode
    <3> HIDE DEF q, p
    <3>6. d \in Nat /\ n = d + 1 /\ d < MaxDepth BY <1>3, <1>4, <2>2, MaxDepthAssumption DEF n, d
    <3>7. Goes(v, c, p, n, M, "start") BY <1>7, <3>3, <3>4, <3>5, <3>6, ChildrenGo
    <3>8. q.ok => p.start_of_line BY <1>3, <3>4, <3>5, ChildrenStarted
    <3>9. ~q.ok => ~p.ok BY <3>5 DEF StartEmittingChildren
    <3>10. CASE q.ok BY <3>7, <3>8, <3>10
    <3>11. CASE ~q.ok BY <3>7, <3>9, <3>11, GoesNowhere
    <3> QED BY <3>10, <3>11
  <2> QED BY <2>1, <2>2
<1> HIDE DEF p, n, e
<1>13. Goes(p.opt.version, c, w, n, N, "line")
  <2>1. /\ p.start_of_line => Goes(p.opt.version, c, p, n, M \o N, "start")
        /\ ~p.start_of_line => Goes(p.opt.version, c, p, n, <<EndSaid>> \o (M \o N), "line")
    BY <1>7, <1>11, <1>12 DEF v
  <2>2. IF p.start_of_line
        THEN Goes(p.opt.version, c, p, n, <<Says("START_NODE", type # None)>> \o N, "start")
        ELSE Goes(p.opt.version, c, p, n,
                  <<EndSaid>> \o (<<Says("START_NODE", type # None)>> \o N), "line")
    BY <2>1 DEF M, x
  <2> QED BY <1>5, <1>7, <1>11, <2>2, NodeGoes DEF w
<1>14. /\ Makes(p, w) /\ w.depth = p.depth
       /\ w.ok => ~w.start_of_line
  <2>1. type \in TextKinds \cup {None} /\ name \in TextKinds BY TextsAssumption
  <2> QED BY <1>2, <1>3, <1>11, <2>1, NodeEmitted DEF w
<1>15. w \in EmitterRecords /\ w.opt = emitter.opt /\ (w.ok => p.ok)
  BY <1>1, <1>11, <1>14 DEF Makes
<1>16. w.ok => Arrived(w, n, N, "line", in_node_list')
  BY <1>2, <1>4, <1>14, <1>15 DEF Arrived, n, N
<1>17. emitter' = Called(w) BY <1>4 DEF Emitted
<1>18. result' \in {"reading", "true", "false"} /\ (result' # "false" => w.ok)
  BY <1>4 DEF Returned
<1>19. Written(says) BY DEF says
<1>20. Goes(w.opt.version, Owing(a, says), w, n, N, "line") BY <1>11, <1>13, <1>15, <1>1 DEF c
<1> QED BY <1>9, <1>10, <1>15, <1>16, <1>17, <1>18, <1>19, <1>20, WritingEnds

\* The children of the node end, or its properties are written.
LEMMA EndNodeWritten ==
    ASSUME WrittenAsMeant, RoundTripIInv, AllRead, result = "reading", NEW room \in Nat,
           CatEndNode(room), Written(Append(SaidBefore, Said("END_NODE", None)))
    PROVE  ReadIInv'
<1> DEFINE e == Calling(emitter, room)
           w == IF in_node_list THEN FinishEmittingChildren(e) ELSE EmitProperties(e, props)
           says == Append(SaidBefore, Said("END_NODE", None))
<1>1. /\ e \in EmitterRecords /\ InStep(e, nesting, fresh) /\ e.ok
      /\ e.opt = emitter.opt /\ e.depth = emitter.depth
      /\ e.start_of_line = emitter.start_of_line /\ e.broken = emitter.broken
  BY CallBegins DEF RoundTripIInv, CatIInv
<1>2. /\ nesting \in Int /\ fresh \in BOOLEAN /\ emitter.depth \in Nat
      /\ in_node_list \in BOOLEAN /\ props \in Seq(HeldProps)
      /\ ~in_node_list => ~emitter.start_of_line
  BY Zenon DEF RoundTripIInv, CatIInv, SinkIInv, CatTypes, EmitterRecords, ReadingInLine
<1>3. Emitted(w) /\ result' = Returned(w) /\ in_node_list' = TRUE BY DEF CatEndNode
<1>4. Said("END_NODE", None) = EndSaid BY DEF Said, Says, EndSaid
<1> DEFINE M == <<EndSaid>>
           N == <<>>
           T == SaidProperties
<1>5. M \in Seq(Sayings) /\ M \o N = M /\ N \in Seq(Sayings)
  BY SayingsAreTyped, ConcatEmptySeq, EmptySeq
<1>6. T = Telling(Emission(props), 0) /\ T \in Seq(Sayings)
  BY PropertiesSaid DEF RoundTripIInv, CatIInv
<1> HIDE DEF M, N, T
<1>7. says \in Seq(Sayings) /\ says = IF in_node_list THEN M ELSE T \o M
  <2>1. CASE in_node_list
    <3>1. says = Append(<<>>, EndSaid) BY <1>4, <2>1 DEF SaidBefore
    <3>2. Append(<<>>, EndSaid) = M BY DEF M
    <3> HIDE DEF says
    <3> QED BY <1>5, <2>1, <3>1, <3>2
  <2>2. CASE ~in_node_list
    <3>1. says = Append(T, EndSaid) BY <1>4, <2>2 DEF SaidBefore, T
    <3>2. Append(T, EndSaid) = T \o M BY <1>6, SayingsAreTyped, AppendIsConcat DEF M
    <3> QED BY <1>5, <1>6, <2>2, <3>1, <3>2, ConcatProperties
  <2> QED BY <2>1, <2>2
<1> HIDE DEF says
<1>8. PICK a \in Places :
           /\ a.left = said /\ Stands(a)
           /\ IF e.start_of_line
              THEN Goes(e.opt.version, Owing(a, says), e, e.depth, says, "start")
              ELSE Goes(e.opt.version, Owing(a, says), e, e.depth,
                        (IF in_node_list THEN <<EndSaid>> ELSE <<>>) \o says, "line")
  BY <1>7, WritingBegins
<1> DEFINE c == Owing(a, says)
           v == e.opt.version
<1> HIDE DEF c, w
<1>9. CASE in_node_list
  <2>1. IF e.start_of_line THEN Goes(v, c, e, e.depth, <<EndSaid>> \o N, "start")
                           ELSE Goes(v, c, e, e.depth, <<EndSaid>> \o (<<EndSaid>> \o N), "line")
    <3>1. <<EndSaid>> \o N = says BY <1>5, <1>7, <1>9 DEF M
    <3> QED BY <1>8, <1>9, <3>1 DEF c
  <2>2. w = FinishEmittingChildren(e) BY <1>9 DEF w
  <2> HIDE DEF e
  <2>3. Goes(v, c, w, e.depth - 1, N, "start") BY <1>1, <1>5, <2>1, <2>2, FinishGoes
  <2>4. /\ Makes(e, w)
        /\ w.ok => w.depth = e.depth - 1 /\ w.start_of_line
    BY <1>1, <1>2, <2>2, ChildrenFinished
  <2>5. w \in EmitterRecords /\ w.opt = emitter.opt BY <1>1, <2>4 DEF Makes
  <2>6. w.ok => Arrived(w, e.depth - 1, N, "start", in_node_list')
    BY <2>4 DEF Arrived, N
  <2>7. Goes(w.opt.version, Owing(a, says), w, e.depth - 1, N, "start")
    BY <1>1, <2>3, <2>5 DEF c
  <2> DEFINE n == e.depth - 1
  <2> HIDE DEF n
  <2>8. emitter' = Called(w) BY <1>3 DEF Emitted
  <2>9. result' \in {"reading", "true", "false"} /\ (result' # "false" => w.ok)
    BY <1>3 DEF Returned
  <2>10. Written(says) BY DEF says
  <2>11. /\ w.ok => Arrived(w, n, N, "start", in_node_list')
         /\ Goes(w.opt.version, Owing(a, says), w, n, N, "start")
    BY <2>6, <2>7 DEF n
  <2> QED BY <1>7, <1>8, <2>5, <2>8, <2>9, <2>10, <2>11, WritingEnds
<1>10. CASE ~in_node_list
  <2> DEFINE d == emitter.depth
             L == T \o M
  <2>1. Goes(v, c, e, d, L, "line")
    <3>1. Goes(v, c, e, d, <<>> \o says, "line") BY <1>1, <1>2, <1>8, <1>10 DEF c
    <3>2. <<>> \o says = L BY <1>7, <1>10, ConcatEmptySeq
    <3> QED BY <3>1, <3>2
  <2>2. e.ok /\ ~e.broken => ~e.start_of_line BY <1>1, <1>2, <1>10
  <2>3. w = EmitProperties(e, props) BY <1>10 DEF w
  <2> HIDE DEF e, d
  <2>4. Goes(v, c, w, d, M, "line")
    BY <1>1, <1>2, <1>5, <1>6, <2>1, <2>2, <2>3, PropertiesGo
  <2>5. /\ Makes(e, w) /\ w \in EmitterRecords /\ w.depth = e.depth
        /\ w.start_of_line = e.start_of_line
    BY <1>1, <1>2, <2>2, <2>3, PropertiesEmitted DEF Makes
  <2>6. w.opt = emitter.opt BY <1>1, <2>5 DEF Makes
  <2>7. Arrived(w, d, M, "line", in_node_list')
    BY <1>1, <1>2, <1>3, <1>10, <2>5 DEF Arrived, d, M
  <2>8. Goes(w.opt.version, Owing(a, says), w, d, M, "line") BY <1>1, <2>4, <2>6 DEF c
  <2>9. emitter' = Called(w) BY <1>3 DEF Emitted
  <2>10. result' \in {"reading", "true", "false"} /\ (result' # "false" => w.ok)
    BY <1>3 DEF Returned
  <2>11. Written(says) BY DEF says
  <2> QED BY <1>7, <1>8, <2>5, <2>6, <2>7, <2>8, <2>9, <2>10, <2>11, WritingEnds
<1> QED BY <1>2, <1>9, <1>10

\* An argument is written at once, a property is held back.
LEMMA ArgumentWritten ==
    ASSUME WrittenAsMeant, RoundTripIInv, AllRead, result = "reading", NEW room \in Nat,
           NEW val \in Values, CatArgument(val, room),
           Written(<<Said("ARGUMENT", val.type_annotation)>>)
    PROVE  ReadIInv'
<1> DEFINE e == Calling(emitter, room)
           w == EmitArg(e, val)
           x == Says("ARGUMENT", val.type_annotation # None)
           s == <<Mark("WHITESPACE")>> \o Value(val, e.opt)
           says == <<Said("ARGUMENT", val.type_annotation)>>
<1>1. /\ e \in EmitterRecords /\ InStep(e, nesting, fresh) /\ e.ok
      /\ e.opt = emitter.opt /\ e.depth = emitter.depth
      /\ e.start_of_line = emitter.start_of_line
  BY CallBegins DEF RoundTripIInv, CatIInv
<1>2. nesting \in Int /\ fresh \in BOOLEAN BY DEF RoundTripIInv, CatIInv, SinkIInv
<1>3. in_node_list = FALSE /\ ~emitter.start_of_line
  BY Zenon DEF CatArgument, RoundTripIInv, CatIInv, ReadingInLine, CatTypes
<1>4. Emitted(w) /\ result' = Returned(w) /\ in_node_list' = in_node_list
  BY DEF CatArgument
<1>5. x \in Sayings /\ says = <<x>>
  <2>1. (val.type_annotation # None) \in BOOLEAN OBVIOUS
  <2>2. x \in Sayings BY <2>1, SayingsAreTyped
  <2> QED BY <2>2 DEF Said, Says
<1> HIDE DEF x, says
<1> DEFINE N == <<>>
<1>6. says \in Seq(Sayings) /\ N \in Seq(Sayings) /\ <<x>> \o N = says
  <2>1. says \in Seq(Sayings) BY <1>5
  <2>2. says \o <<>> = says BY <2>1, ConcatEmptySeq
  <2> QED BY <1>5, <2>1, <2>2, EmptySeq
<1> HIDE DEF N
<1>7. PICK a \in Places :
           /\ a.left = said /\ Stands(a)
           /\ IF e.start_of_line
              THEN Goes(e.opt.version, Owing(a, says), e, e.depth, says, "start")
              ELSE Goes(e.opt.version, Owing(a, says), e, e.depth,
                        (IF in_node_list THEN <<EndSaid>> ELSE <<>>) \o says, "line")
  BY <1>6, WritingBegins
<1> DEFINE c == Owing(a, says)
           d == emitter.depth
<1> HIDE DEF c, w, s
<1>8. Goes(e.opt.version, c, e, d, <<x>> \o N, "line")
  <2>1. <<>> \o says = says BY <1>6, ConcatEmptySeq
  <2> QED BY <1>1, <1>3, <1>6, <1>7, <2>1 DEF c
<1> HIDE DEF e, d
<1>9. Goes(e.opt.version, c, w, d, N, "line") BY <1>1, <1>6, <1>8, ArgumentGoes DEF w, x
<1>10. /\ Makes(e, w) /\ w \in EmitterRecords /\ w.depth = e.depth
       /\ w.start_of_line = e.start_of_line /\ w.opt = emitter.opt
  <2>1. e.opt \in Options BY <1>1 DEF EmitterRecords
  <2>2. val \in AllValues BY ValuesAssumption DEF AllValues
  <2>3. Inline(s) BY <2>1, <2>2, ArgIsInline DEF s
  <2>4. w = Write(e, s) BY DEF EmitArg, w, s
  <2>5. e.ok /\ ~e.broken => ~e.start_of_line BY <1>1, <1>3
  <2>6. Makes(e, w) /\ w.depth = e.depth /\ w.start_of_line = e.start_of_line
    BY <1>1, <1>2, <2>3, <2>4, <2>5, EntryEmitted
  <2> QED BY <1>1, <2>6 DEF Makes
<1>11. Arrived(w, d, N, "line", in_node_list')
  BY <1>1, <1>3, <1>4, <1>10 DEF Arrived, d, N
<1>12. emitter' = Called(w) BY <1>4 DEF Emitted
<1>13. result' \in {"reading", "true", "false"} /\ (result' # "false" => w.ok)
  BY <1>4 DEF Returned
<1>14. Written(says) BY DEF says
<1>15. Goes(w.opt.version, Owing(a, says), w, d, N, "line") BY <1>1, <1>9, <1>10 DEF c
<1> QED BY <1>6, <1>7, <1>10, <1>11, <1>12, <1>13, <1>14, <1>15, WritingEnds

LEMMA PropertyHeldBack ==
    ASSUME RoundTripIInv, AllRead, result = "reading",
           NEW key \in Keys, NEW val \in Values, CatProperty(key, val), Written(<<>>)
    PROVE  ReadIInv'
<1> DEFINE e == Calling(emitter, 0)
           says == <<>>
           K == IF in_node_list THEN <<EndSaid>> ELSE <<>>
           spot == IF e.start_of_line THEN "start" ELSE "line"
           L == IF e.start_of_line THEN <<>> ELSE K
<1>1. /\ e \in EmitterRecords /\ InStep(e, nesting, fresh) /\ e.ok
      /\ e.opt = emitter.opt /\ e.depth = emitter.depth
      /\ e.start_of_line = emitter.start_of_line
  BY CallBegins DEF RoundTripIInv, CatIInv
<1>2. /\ Emitted(e) /\ result' = "reading" /\ in_node_list' = in_node_list
  BY DEF CatProperty
<1>3. says \in Seq(Sayings) /\ K \o says = K
  <2>1. K \in Seq(Sayings) BY SayingsAreTyped, EmptySeq
  <2> HIDE DEF K
  <2> QED BY <2>1, EmptySeq, ConcatEmptySeq
<1> HIDE DEF K
<1>4. PICK a \in Places :
           /\ a.left = said /\ Stands(a)
           /\ IF e.start_of_line
              THEN Goes(e.opt.version, Owing(a, says), e, e.depth, says, "start")
              ELSE Goes(e.opt.version, Owing(a, says), e, e.depth, K \o says, "line")
  <2> HIDE DEF says
  <2>1. says \in Seq(Sayings) BY <1>3
  <2> QED BY <2>1, WritingBegins DEF K
<1>5. Goes(e.opt.version, Owing(a, says), e, e.depth, L, spot) BY <1>3, <1>4
<1>6. Arrived(e, e.depth, L, spot, in_node_list') BY <1>2 DEF Arrived, K
<1>7. emitter' = Called(e) BY <1>2 DEF Emitted
<1>8. Written(says) OBVIOUS
<1> HIDE DEF L, spot, says, e
<1> QED BY <1>1, <1>2, <1>3, <1>4, <1>5, <1>6, <1>7, <1>8, WritingEnds

\* The last line ends.
LEMMA DocumentEndWritten ==
    ASSUME RoundTripIInv, AllRead, result = "reading", NEW room \in Nat,
           CatEnd(room), Written(<<>>)
    PROVE  ReadIInv'
<1> DEFINE e == Calling(emitter, room)
           w == EmitEnd(e)
           says == <<>>
<1>1. /\ e \in EmitterRecords /\ InStep(e, nesting, fresh) /\ e.ok
      /\ e.opt = emitter.opt /\ e.depth = emitter.depth
      /\ e.start_of_line = emitter.start_of_line
  BY CallBegins DEF RoundTripIInv, CatIInv
<1>2. nesting \in Int /\ fresh \in BOOLEAN /\ emitter.depth \in Nat
  BY DEF RoundTripIInv, CatIInv, SinkIInv, EmitterRecords
<1>3. in_node_list /\ emitter.depth = 0
  <2>1. open = 0 BY DEF CatEnd, Source!Complete
  <2>2. open = emitter.depth + (IF in_node_list THEN 0 ELSE 1)
    BY DEF RoundTripIInv, CatIInv, EmitterFollowsTheNodes
  <2> QED BY <1>2, <2>1, <2>2
<1>4. Emitted(w) /\ result' = IF w.ok THEN "true" ELSE "false" BY DEF CatEnd
<1>5. says \in Seq(Sayings) BY EmptySeq
<1> HIDE DEF says
<1>6. PICK a \in Places :
           /\ a.left = said /\ Stands(a)
           /\ IF e.start_of_line
              THEN Goes(e.opt.version, Owing(a, says), e, e.depth, says, "start")
              ELSE Goes(e.opt.version, Owing(a, says), e, e.depth,
                        (IF in_node_list THEN <<EndSaid>> ELSE <<>>) \o says, "line")
  BY <1>5, WritingBegins
<1> DEFINE c == Owing(a, says)
           v == e.opt.version
<1> HIDE DEF c, w
<1>7. IF e.start_of_line THEN Goes(v, c, e, 0, <<>>, "start")
                         ELSE Goes(v, c, e, 0, <<EndSaid>> \o <<>>, "line")
  BY <1>1, <1>3, <1>6 DEF c, says
<1> HIDE DEF e
<1>8. e.depth = 0 BY <1>1, <1>3
<1>9. Goes(v, c, w, 0, <<>>, "start") BY <1>1, <1>2, <1>7, <1>8, EndGoes DEF w
<1>10. /\ Makes(e, w)
       /\ w.ok => w.depth = 0 /\ w.start_of_line
  BY <1>1, <1>2, EndEmitted DEF w
<1>11. w \in EmitterRecords /\ w.opt = emitter.opt BY <1>1, <1>10 DEF Makes
<1>12. w.ok => Arrived(w, 0, <<>>, "start", in_node_list') BY <1>10 DEF Arrived
<1>13. emitter' = Called(w) BY <1>4 DEF Emitted
<1>14. result' \in {"reading", "true", "false"} /\ (result' # "false" => w.ok) BY <1>4
<1>15. Written(says) BY DEF says
<1>16. Goes(w.opt.version, Owing(a, says), w, 0, <<>>, "start") BY <1>1, <1>9, <1>11 DEF c
<1> QED BY <1>5, <1>6, <1>11, <1>12, <1>13, <1>14, <1>15, <1>16, WritingEnds

-----------------------------------------------------------------------------
(* Every step. *)

LEMMA RoundTripBegins ==
    ASSUME RoundTripInit
    PROVE  RoundTripIInv
<1>1. CatInit /\ Parser!Init /\ version \in {emitter.opt.version, "detect"} /\ text = <<>>
      /\ said = <<>>
  BY DEF RoundTripInit
<1>2. CatIInv BY <1>1, CatInitially
<1>3. PICK opt \in Options : emitter = NewEmitter(opt) BY <1>1 DEF CatInit, SinkInit
<1>4. emitter.start_of_line = TRUE /\ emitter.depth = 0 BY <1>3 DEF NewEmitter
<1>5. /\ mode = "OUTSIDE_NODE" /\ flags = {} /\ depth = 0 /\ slashdash_depth = -1
      /\ waiting_type_annotation = FALSE /\ next_token = Parser!NoToken
      /\ event = Parser!NoEvent /\ last = "NONE"
  BY <1>1 DEF Parser!Init
<1>6. ~Parser!Finished BY <1>5 DEF Parser!Finished, Parser!NoEvent, Parser!Event
<1> DEFINE a == [at |-> "line", stage |-> "none", bare |-> FALSE, blocks |-> 0, left |-> <<>>]
<1>7. /\ a \in Places /\ a.left = said /\ a.at = "line" /\ a.stage = "none" /\ a.blocks = 0
      /\ AtLine(a, 0, <<>>)
  <2>1. <<>> \in Seq(Sayings) BY EmptySeq
  <2> QED BY <1>1, <2>1 DEF Places, Spots, Stages, AtLine
<1> HIDE DEF a
<1>8. Bears(a)
  <2>1. a.at \in Outside /\ a.stage \notin {"named", "ended"} BY <1>7 DEF Outside
  <2>2. depth = 2 * a.blocks + 0 BY <1>5, <1>7
  <2> QED BY <1>5, <2>1, <2>2 DEF Bears
<1>9. flags = StageFlags(a) \cup SpotFlags(a) BY <1>5, <1>7 DEF StageFlags, SpotFlags
<1>10. Follows(a) BY <1>5 DEF Follows
<1>11. Stands(a) BY <1>5, <1>8, <1>9, <1>10 DEF Stands
<1>12. Settled(a) BY <1>4, <1>7 DEF Settled
<1>13. Path(emitter.opt.version, a, OnTheWay, a)
  <2>1. OnTheWay = <<>> BY <1>1, <1>5 DEF OnTheWay
  <2> QED BY <1>7, <2>1, NoPath
<1>14. result = "reading" BY <1>1 DEF CatInit
<1>15. text \in Seq(Lexemes) /\ said \in Seq(Sayings) BY <1>1, EmptySeq
<1>16. ReadIInv BY <1>1, <1>5, <1>6, <1>7, <1>11, <1>12, <1>13, <1>14, <1>15 DEF ReadIInv
<1> QED BY <1>2, <1>16 DEF RoundTripIInv

LEMMA RoundTripStutters ==
    ASSUME RoundTripIInv, UNCHANGED roundTripVars
    PROVE  RoundTripIInv'
<1>1. UNCHANGED catVars BY DEF roundTripVars
<1>2. CatIInv' BY <1>1, CatStutters DEF RoundTripIInv
<1>3. /\ emitter' = emitter /\ in_node_list' = in_node_list /\ result' = result
      /\ text' = text /\ said' = said
      /\ mode' = mode /\ flags' = flags /\ depth' = depth
      /\ slashdash_depth' = slashdash_depth
      /\ waiting_type_annotation' = waiting_type_annotation
      /\ next_token' = next_token /\ event' = event /\ last' = last /\ version' = version
  BY DEF roundTripVars, catVars, emitterVars, sinkVars, parserVars
<1>4. \A a : Stands(a)' <=> Stands(a) BY <1>3 DEF Stands, Bears, Follows
<1>5. \A a : Settled(a)' <=> Settled(a) BY <1>3 DEF Settled
<1>6. OnTheWay' = OnTheWay /\ (AllRead' <=> AllRead)
      /\ (Parser!Finished' <=> Parser!Finished)
  BY <1>3 DEF OnTheWay, AllRead, Parser!Finished
<1>7. ReadIInv BY DEF RoundTripIInv
<1>8. \/ event'.kind = "EOF" /\ result' = "true" /\ AllRead' /\ said' = <<>>
      \/ /\ ~Parser!Finished'
         /\ \E a, b \in Places :
               /\ a.left = said' /\ Stands(a)'
               /\ Path(emitter'.opt.version, a, OnTheWay', b)
               /\ result' # "false" => Settled(b)'
  <2>1. CASE event.kind = "EOF" /\ result = "true" /\ AllRead /\ said = <<>>
    BY <1>3, <1>6, <2>1
  <2>2. CASE ~(event.kind = "EOF" /\ result = "true" /\ AllRead /\ said = <<>>)
    <3>1. /\ ~Parser!Finished
          /\ \E a, b \in Places :
                /\ a.left = said /\ Stands(a)
                /\ Path(emitter.opt.version, a, OnTheWay, b)
                /\ result # "false" => Settled(b)
      BY <1>7, <2>2 DEF ReadIInv
    <3>2. PICK a \in Places, b \in Places :
              /\ a.left = said /\ Stands(a) /\ Path(emitter.opt.version, a, OnTheWay, b)
              /\ result # "false" => Settled(b)
      BY <3>1
    <3>3. \E p, q \in Places :
              /\ p.left = said' /\ Stands(p)' /\ Path(emitter'.opt.version, p, OnTheWay', q)
              /\ result' # "false" => Settled(q)'
      BY <1>3, <1>4, <1>5, <1>6, <3>2
    <3> QED BY <1>6, <3>1, <3>3
  <2> QED BY <2>1, <2>2
<1>9. ReadIInv' BY <1>3, <1>7, <1>8 DEF ReadIInv
<1> QED BY <1>2, <1>9 DEF RoundTripIInv

LEMMA WriteOnIsCat ==
    ASSUME NEW room \in Rooms, WriteOn(room)
    PROVE  CatNext
<1>1. CatRead(room) BY DEF WriteOn, CatRead
<1> QED BY <1>1 DEF CatNext

LEMMA RoundTripIsCat ==
    ASSUME RoundTripNext
    PROVE  CatNext \/ UNCHANGED catVars
<1>1. ASSUME NEW room \in Rooms, WriteOn(room) PROVE CatNext BY <1>1, WriteOnIsCat
<1>2. Read => UNCHANGED catVars BY DEF Read
<1>3. UNCHANGED roundTripVars => UNCHANGED catVars BY DEF roundTripVars
<1> QED BY <1>1, <1>2, <1>3 DEF RoundTripNext

LEMMA WriteOnKeeps ==
    ASSUME WrittenAsMeant, RoundTripIInv, NEW room \in Rooms, WriteOn(room)
    PROVE  RoundTripIInv' /\ AsWritten
<1>1. AllRead /\ result = "reading" BY DEF WriteOn
<1>2. room \in Nat BY RoomsAssumption
<1>3. CatIInv' BY WriteOnIsCat, CatSteps DEF RoundTripIInv
<1>4. ASSUME NEW type \in Texts \cup {None}, NEW name \in Texts,
             CatStartNode(type, name, room),
             Written(Append(SaidBefore, Said("START_NODE", type)))
      PROVE  ReadIInv'
  BY <1>1, <1>2, <1>4, StartNodeWritten
<1>5. ASSUME CatEndNode(room), Written(Append(SaidBefore, Said("END_NODE", None)))
      PROVE  ReadIInv'
  BY <1>1, <1>2, <1>5, EndNodeWritten
<1>6. ASSUME NEW val \in Values, CatArgument(val, room),
             Written(<<Said("ARGUMENT", val.type_annotation)>>)
      PROVE  ReadIInv'
  BY <1>1, <1>2, <1>6, ArgumentWritten
<1>7. ASSUME NEW key \in Keys, NEW val \in Values, CatProperty(key, val), Written(<<>>)
      PROVE  ReadIInv'
  BY <1>1, <1>7, PropertyHeldBack
<1>8. ASSUME CatEnd(room), Written(<<>>) PROVE ReadIInv'
  BY <1>1, <1>2, <1>8, DocumentEndWritten
<1>9. ReadIInv' BY <1>4, <1>5, <1>6, <1>7, <1>8 DEF WriteOn
<1>10. ~ReadsBack BY <1>1 DEF ReadsBack
<1> QED BY <1>3, <1>9, <1>10 DEF RoundTripIInv, AsWritten

LEMMA RoundTripSteps ==
    ASSUME WrittenAsMeant, RoundTripIInv, [RoundTripNext]_roundTripVars
    PROVE  RoundTripIInv' /\ [AsWritten]_<<parserVars, said>>
<1>1. ASSUME NEW room \in Rooms, WriteOn(room) PROVE RoundTripIInv' /\ AsWritten
  BY <1>1, WriteOnKeeps
<1>2. CASE Read
  <2>1. CatIInv' BY <1>2, CatStutters DEF Read, RoundTripIInv
  <2> QED BY <1>2, <2>1, ReadKeeps DEF RoundTripIInv
<1>3. CASE UNCHANGED roundTripVars
  <2>1. UNCHANGED <<parserVars, said>> BY <1>3 DEF roundTripVars
  <2> QED BY <1>3, <2>1, RoundTripStutters
<1> QED BY <1>1, <1>2, <1>3 DEF RoundTripNext

\* A lexeme that a reader can read, standing where the parser does, is one the tokenizer
\* makes of the text there.
LEMMA ReadableIsAvailable ==
    ASSUME NEW v \in {"v1", "v2"}, version \in {v, "detect"}, ~Parser!Finished,
           NEW a \in Places, Stands(a), NEW x, NEW b, Reads(v, a, x, b),
           next_token # Parser!NoToken => x = next_token
    PROVE  Parser!Available(x)
<1>1. CASE next_token # Parser!NoToken BY <1>1 DEF Parser!Available
<1>2. CASE next_token = Parser!NoToken
  <2>1. Parser!InCharacterSet(x) BY InTheCharacterSet
  <2>2. Follows(a) /\ Bears(a) BY <1>2 DEF Stands
  <2>3. \A type \in LexemeTypes : Mark(type).type = type BY DEF Mark, Lexeme
  <2>4. \A c : IsName(x, v) \/ IsValue(x, v) => x.type \in {"STRING", "WORD"}
    BY DEF IsName, IsOther, IsValue, QuotedString, Lexeme
  <2>5. x.type = "WHITESPACE" => a.stage = "none" /\ a.at \in {"line", "word", "key"}
    BY <2>3, <2>4 DEF Reads, Argues, Moves, LexemeTypes
  <2>6. (a.at \in {"word", "key"} /\ a.stage = "none")
            => x.type \in {"WHITESPACE", "NEWLINE", "EQUALS"}
    <3> SUFFICES ASSUME a.at \in {"word", "key"}, a.stage = "none"
                 PROVE  x.type \in {"WHITESPACE", "NEWLINE", "EQUALS"}
      OBVIOUS
    <3>1. CASE Moves(v, a, x, b) BY <2>3, <3>1 DEF Moves, LexemeTypes
    <3>2. CASE Argues(v, a, x) /\ Moves(v, Argued(a), x, b)
      <4>1. Argued(a).at = "word" /\ Argued(a).stage = "none"
        BY <3>2 DEF Argues, Argued, Places
      <4> QED BY <2>3, <3>2, <4>1 DEF Moves, LexemeTypes
    <3> QED BY <3>1, <3>2 DEF Reads
  <2>7. a.stage = "named" => x.type = "END_TYPE"
    BY <2>3 DEF Reads, Argues, Moves, LexemeTypes
  <2>8. Parser!CanFollow(last, x.type)
    BY <2>2, <2>5, <2>6, <2>7 DEF Follows, Parser!CanFollow
  <2>9. x.type = "START_CHILDREN" => a.at \notin Outside /\ a.blocks < MaxDepth
    <3> SUFFICES ASSUME x.type = "START_CHILDREN"
                 PROVE  a.at \notin Outside /\ a.blocks < MaxDepth
      OBVIOUS
    <3>1. CASE Moves(v, a, x, b) BY <2>3, <2>4, <3>1 DEF Moves, LexemeTypes, Outside
    <3>2. CASE Argues(v, a, x) /\ Moves(v, Argued(a), x, b)
      <4>1. Argued(a).blocks = a.blocks /\ a.at \notin Outside
        BY <3>2 DEF Argues, Argued, Places, Outside
      <4> QED BY <2>3, <2>4, <3>2, <4>1 DEF Moves, LexemeTypes
    <3> QED BY <3>1, <3>2 DEF Reads
  <2>10. Parser!WithinBounds(x)
    <3>1. a.at \notin Outside => depth = 2 * a.blocks + 1 BY <2>2 DEF Bears
    <3>2. a.blocks \in Nat BY DEF Places
    <3> QED BY <2>9, <3>1, <3>2, MaxDepthAssumption DEF Parser!WithinBounds
  <2> QED BY <1>2, <2>1, <2>8, <2>10 DEF Parser!Available
<1> QED BY <1>1, <1>2

\* Only strings that look like a keyword or a number are written as something else, and
\* infinities as something that v1 does not know: every string that does not is meant.
LEMMA MostIsMeant ==
    ASSUME \A name \in Names : name \notin {"keyword", "special", "numeric"},
           \A val \in Values :
               val.type = "STRING" => val.text \notin {"keyword", "special", "numeric"},
           \A val \in Values, opt \in Options :
               val.type = "INFINITE" => opt.version = "v2"
    PROVE  WrittenAsMeant
<1> SUFFICES ASSUME NEW opt \in Options
             PROVE  /\ \A name \in Names :
                           Parser!Reading(BareString(name, opt).class, opt.version) = "string"
                    /\ \A val \in Values :
                           Parser!Reading(ValueLexeme(val, opt).class, opt.version) =
                               IF val.type = "STRING" THEN "string" ELSE "other"
  BY DEF WrittenAsMeant
<1>1. opt.version \in {"v1", "v2"} BY OptionsAssumption
<1>2. ASSUME NEW string \in TextKinds, string \notin {"keyword", "special", "numeric"}
      PROVE  Parser!Reading(BareString(string, opt).class, opt.version) = "string"
  <2>1. /\ WordClass["plain"] = "either" /\ WordClass["unicode"] = "either"
        /\ WordClass["hash"] = "onlyV1" /\ WordClass["newer"] = "onlyV2"
    BY DEF WordClass
  <2>2. \A type, class : Lexeme(type, class).class = class BY DEF Lexeme
  <2>3. BareString(string, opt).class \in {"either", IF opt.version = "v1" THEN "onlyV1" ELSE "onlyV2"}
    BY <1>1, <1>2, <2>1, <2>2 DEF BareString, IsIdentifier, QuotedString
  <2> QED BY <1>1, <2>3 DEF Parser!Reading, Parser!V1Reading, Parser!V2Reading
<1>3. ASSUME NEW val \in Values
      PROVE  Parser!Reading(ValueLexeme(val, opt).class, opt.version) =
                 IF val.type = "STRING" THEN "string" ELSE "other"
  <2>1. val.type \in {"STRING", "NUMBER", "INFINITE", "KEYWORD"} /\ val.text \in TextKinds
    BY ValuesAssumption
  <2>2. CASE val.type = "STRING"
    <3>1. ValueLexeme(val, opt) = IF opt.version = "v1" THEN QuotedString
                                  ELSE BareString(val.text, opt)
      BY <1>1, <2>2 DEF ValueLexeme
    <3>2. Parser!Reading(QuotedString.class, opt.version) = "string"
      BY DEF QuotedString, Lexeme, Parser!Reading, Parser!V1Reading, Parser!V2Reading
    <3> QED BY <1>2, <2>1, <2>2, <3>1, <3>2
  <2>3. CASE val.type # "STRING"
    <3>1. \/ ValueLexeme(val, opt).class = "number"
          \/ ValueLexeme(val, opt).class = "keywordV2" /\ opt.version = "v2"
          \/ ValueLexeme(val, opt).class = "keywordV1" /\ opt.version = "v1"
      BY <1>1, <2>1, <2>3 DEF ValueLexeme, Lexeme
    <3> QED BY <2>3, <3>1 DEF Parser!Reading, Parser!V1Reading, Parser!V2Reading
  <2> QED BY <2>2, <2>3
<1> QED BY <1>2, <1>3, NamesAreTexts

-----------------------------------------------------------------------------
(* What ckdl-cat and the parser promise each other. *)

\* The calls of the emitter are those of ckdl-cat, whatever the parser makes of the text.
THEOREM RoundTripIsACat == RoundTripSpec => CatSpec
<1>1. RoundTripInit => CatInit BY DEF RoundTripInit
<1>2. [RoundTripNext]_roundTripVars => [CatNext]_catVars
  <2>1. UNCHANGED roundTripVars => UNCHANGED catVars BY DEF roundTripVars
  <2> QED BY <2>1, RoundTripIsCat
<1> QED BY <1>1, <1>2, PTL DEF RoundTripSpec, CatSpec

\* The parser stands where ckdl-cat has left the text, all the time.
THEOREM RoundTripInvariant ==
    ASSUME WrittenAsMeant
    PROVE  RoundTripSpec => []RoundTripIInv
<1>1. RoundTripInit => RoundTripIInv BY RoundTripBegins
<1>2. RoundTripIInv /\ [RoundTripNext]_roundTripVars => RoundTripIInv' BY RoundTripSteps
<1> QED BY <1>1, <1>2, PTL DEF RoundTripSpec

\* Every event the parser reports is the next of those that were written: the same kind,
\* annotated alike, and not commented out.
THEOREM EventsComeBack ==
    ASSUME WrittenAsMeant
    PROVE  RoundTripSpec => ReadsWhatWasWritten
<1>1. RoundTripIInv /\ [RoundTripNext]_roundTripVars => [AsWritten]_<<parserVars, said>>
  BY RoundTripSteps
<1>2. RoundTripSpec => [][AsWritten]_<<parserVars, said>>
  BY <1>1, RoundTripInvariant, PTL DEF RoundTripSpec
<1> QED BY <1>2 DEF ReadsWhatWasWritten, AsWritten

\* At the end of the document none of them is missing.
THEOREM NothingIsLost ==
    ASSUME WrittenAsMeant
    PROVE  RoundTripSpec => []ReadsAllThatWasWritten
<1>1. RoundTripIInv => ReadsAllThatWasWritten
  BY DEF RoundTripIInv, ReadIInv, ReadsAllThatWasWritten, Parser!Finished
<1> QED BY <1>1, RoundTripInvariant, PTL

\* The parser never reports an error in a text that the emitter has written.
THEOREM WritingIsAccepted ==
    ASSUME WrittenAsMeant
    PROVE  RoundTripSpec => []WrittenTextIsAccepted
<1>1. RoundTripIInv => WrittenTextIsAccepted
  BY DEF RoundTripIInv, ReadIInv, WrittenTextIsAccepted, Parser!Finished
<1> QED BY <1>1, RoundTripInvariant, PTL

\* And it does not stop short of one: each lexeme that was written is what the tokenizer
\* finds behind those before it.
NextCanBeRead == ~AllRead => Parser!Available(Head(OnTheWay))

THEOREM WritingIsReadable ==
    ASSUME WrittenAsMeant
    PROVE  RoundTripSpec => []NextCanBeRead
<1>1. RoundTripIInv => NextCanBeRead
  <2> SUFFICES ASSUME RoundTripIInv, ~AllRead PROVE Parser!Available(Head(OnTheWay))
    BY DEF NextCanBeRead
  <2> DEFINE v == emitter.opt.version
  <2>1. v \in {"v1", "v2"}
    BY OptionsAssumption DEF RoundTripIInv, CatIInv, SinkIInv, EmitterRecords
  <2>2. ReadIInv BY DEF RoundTripIInv
  <2>3. OnTheWay \in Seq(Lexemes) /\ OnTheWay # <<>>
        /\ (next_token # Parser!NoToken => Head(OnTheWay) = next_token)
    BY <2>2, LexemesOnTheWay DEF ReadIInv
  <2>4. ~Parser!Finished /\ version \in {v, "detect"}
        /\ \E a, b \in Places : Stands(a) /\ Path(v, a, OnTheWay, b)
    BY <2>2 DEF ReadIInv
  <2>5. PICK a \in Places, b \in Places : Stands(a) /\ Path(v, a, OnTheWay, b) BY <2>4
  <2>6. PICK c \in Places : Reads(v, a, Head(OnTheWay), c) BY <2>3, <2>5, FirstStep
  <2> QED BY <2>1, <2>3, <2>4, <2>5, <2>6, ReadableIsAvailable
<1> QED BY <1>1, RoundTripInvariant, PTL

==============================================================================
