--------------------------- MODULE KdlReaderProofs ---------------------------
(***************************************************************************)
(* Safety of the parser and its reader, and of the strings that pass       *)
(* between them, for every vocabulary and every depth of nesting: what     *)
(* reaches the reader follows from the shapes of the parser's steps        *)
(* (KdlParserProofs).                                                      *)
(***************************************************************************)
EXTENDS KdlStrings, KdlParserProofs

-----------------------------------------------------------------------------
(* The inductive invariant. *)

\* The reader has been told of the end of the stream only if that is where it is.
EndIsLatest == latest \in {"EOF", "PARSE_ERROR"} => Finished

IInv ==
    /\ ParserIInv
    /\ open \in 0..(MaxBlocks + 1)
    /\ latest \in EventKinds \ {"COMMENT"}
    /\ OpenNodesAreBalanced
    /\ EndIsLatest

LEMMA InitIInv == ReaderInit => IInv
<1> SUFFICES ASSUME ReaderInit PROVE IInv OBVIOUS
<1> USE MaxBlocksAssumption DEF ReaderInit
<1>1. ParserIInv BY ParserIInvInit
<1>2. OpenNodesAreBalanced /\ EndIsLatest
  BY DEF Init, OpenNodesAreBalanced, EndIsLatest
<1> QED BY <1>1, <1>2 DEF IInv, EventKinds

LEMMA Half ==
    ASSUME NEW n \in Nat, NEW k \in Nat, k <= 2 * n + 2
    PROVE  k \div 2 \in 0..(n + 1)
<1>1. k \div 2 \in Int /\ 2 * (k \div 2) <= k /\ k < 2 * (k \div 2) + 2 OBVIOUS
<1> DEFINE h == k \div 2
<1> HIDE DEF h
<1>2. h \in Int /\ 2 * h <= k /\ k < 2 * h + 2 BY <1>1 DEF h
<1>3. h \in 0..(n + 1) BY <1>2
<1> QED BY <1>3 DEF h

\* What a delivered event does to the reader, and what any other does.
LEMMA Deliveries ==
    ASSUME Deliver, NEW kind, event'.kind = kind
    PROVE  /\ event'.slashdashed => UNCHANGED <<open, latest>>
           /\ ~event'.slashdashed /\ kind \notin {"NONE", "COMMENT"} =>
                 /\ latest' = kind
                 /\ open' = CASE kind = "START_NODE" -> open + 1
                             [] kind = "END_NODE" -> open - 1
                             [] OTHER -> open
           /\ kind \notin {"START_NODE", "END_NODE"} => open' = open
BY DEF Deliver, Delivered

\* What reaches the reader in a step of the parser, shape by shape.
LEMMA OpenNodesStep ==
    ASSUME IInv, NEW tok \in Handled, StepOn(tok), Deliver
    PROVE  OpenNodesAreBalanced' /\ open' \in Int
<1> USE MaxBlocksAssumption
<1>1. TypeOK /\ ModeFollowsDepth /\ OpenNodesAreBalanced BY DEF IInv, ParserIInv
<1>2. Shape(tok) BY <1>1, StepShape
<1>3. /\ depth \in 0..(2 * MaxBlocks + 1)
      /\ slashdash_depth \in -1..(2 * MaxBlocks + 2)
      /\ mode \in {"OUTSIDE_NODE", "IN_NODE"}
      /\ waiting_type_annotation \in BOOLEAN
      /\ open \in Nat
  BY <1>1 DEF IInv, TypeOK
<1> DEFINE Goal == OpenNodesAreBalanced' /\ open' \in Int
<1> USE <1>1, <1>3 DEF ModeFollowsDepth, OpenNodesAreBalanced
<1>4. ASSUME event' \in QuietEvents PROVE open' = open BY <1>4, QuietEvent, Deliveries
<1>5. CASE Plain
  <2>1. event' \in QuietEvents BY <1>5 DEF Plain, QuietEvents
  <2> QED BY <1>4, <1>5, <2>1 DEF Plain
<1>6. CASE Armed(tok) BY <1>4, <1>6 DEF Armed, HiddenFrom, QuietEvents
<1>7. CASE NodeStarted
  <2>1. /\ slashdash_depth' = IF slashdash_depth = depth + 2 THEN -1 ELSE slashdash_depth
        /\ event'.kind = "START_NODE"
        /\ event'.slashdashed <=> slashdash_depth >= 0
    BY <1>7, StartedNode
  <2>2. open' = IF slashdash_depth < 0 THEN open + 1 ELSE open BY <2>1, Deliveries
  <2>3. depth % 2 = 0 /\ depth' = depth + 1 BY <1>7 DEF NodeStarted
  <2> QED BY <2>1, <2>2, <2>3
<1>8. CASE NodeEnded
  <2>1. /\ slashdash_depth' = IF slashdash_depth = depth THEN -1 ELSE slashdash_depth
        /\ event'.kind = "END_NODE"
        /\ event'.slashdashed <=> slashdash_depth >= 0
    BY <1>8, EndedNode
  <2>2. open' = IF slashdash_depth < 0 THEN open - 1 ELSE open BY <2>1, Deliveries
  <2>3. depth % 2 = 1 /\ depth' = depth - 1 BY <1>8 DEF NodeEnded
  <2> QED BY <2>1, <2>2, <2>3
<1>9. CASE BlockStarted(tok) BY <1>4, <1>9 DEF BlockStarted, QuietEvents
<1>10. CASE BlockEnded BY <1>4, <1>10 DEF BlockEnded, SlashdashEndingAt, QuietEvents
<1>11. CASE EntryRead
  <2>1. /\ slashdash_depth' = IF slashdash_depth = depth + 1 THEN -1 ELSE slashdash_depth
        /\ event'.kind \in {"ARGUMENT", "PROPERTY"}
    BY <1>11, ReadEntry
  <2>2. open' = open BY <2>1, Deliveries
  <2> QED BY <1>11, <2>1, <2>2 DEF EntryRead
<1>12. CASE DocumentEnded BY <1>4, <1>12 DEF DocumentEnded, QuietEvents
<1> QED BY <1>2, <1>5, <1>6, <1>7, <1>8, <1>9, <1>10, <1>11, <1>12 DEF Shape

LEMMA IInvStep ==
    ASSUME IInv, NEW tok \in Handled, StepOn(tok), Deliver PROVE IInv'
<1> USE MaxBlocksAssumption
<1>1. ParserIInv' BY ParserIInvStep DEF IInv
<1>2. OpenNodesAreBalanced' /\ open' \in Int BY OpenNodesStep
<1>3. open' \in 0..(MaxBlocks + 1)
  <2>1. /\ depth' \in 0..(2 * MaxBlocks + 1)
        /\ slashdash_depth' \in -1..(2 * MaxBlocks + 2)
        /\ open' = IF slashdash_depth' < 0 THEN (depth' + 1) \div 2
                                           ELSE slashdash_depth' \div 2
    BY <1>1, <1>2 DEF ParserIInv, TypeOK, OpenNodesAreBalanced
  <2>2. CASE slashdash_depth' < 0
    <3> DEFINE d == depth'
    <3>1. d \in 0..(2 * MaxBlocks + 1) BY <2>1
    <3> HIDE DEF d
    <3>2. d + 1 \in Nat /\ d + 1 <= 2 * MaxBlocks + 2 BY <3>1
    <3>3. depth' + 1 \in Nat /\ depth' + 1 <= 2 * MaxBlocks + 2 BY <3>2 DEF d
    <3>4. (depth' + 1) \div 2 \in 0..(MaxBlocks + 1) BY <3>3, Half
    <3> QED BY <2>1, <2>2, <3>4
  <2>3. CASE slashdash_depth' >= 0
    <3>1. slashdash_depth' \in Nat /\ slashdash_depth' <= 2 * MaxBlocks + 2 BY <2>1, <2>3
    <3>2. slashdash_depth' \div 2 \in 0..(MaxBlocks + 1) BY <3>1, Half
    <3>3. open' = slashdash_depth' \div 2 BY <2>1, <2>3
    <3> QED BY <3>2, <3>3
  <2>4. slashdash_depth' \in Int BY <2>1
  <2> QED BY <2>2, <2>3, <2>4
<1>4. latest' \in EventKinds \ {"COMMENT"}
  <2>1. event'.kind \in EventKinds BY <1>1 DEF ParserIInv, TypeOK
  <2> QED BY <2>1 DEF IInv, Deliver, Delivered
<1>5. EndIsLatest'
  <2>1. latest \notin {"EOF", "PARSE_ERROR"} BY NotFinished DEF IInv, EndIsLatest
  <2> QED BY <2>1 DEF Deliver, EndIsLatest, Finished
<1> QED BY <1>1, <1>2, <1>3, <1>4, <1>5 DEF IInv

LEMMA IInvNext == IInv /\ [ReaderNext]_readerVars => IInv'
<1> SUFFICES ASSUME IInv, [ReaderNext]_readerVars PROVE IInv' OBVIOUS
<1>1. CASE Read BY <1>1, NextIsAStep, IInvStep DEF Read
<1>2. CASE UNCHANGED readerVars
  <2>1. UNCHANGED <<parserVars, open, latest>> BY <1>2 DEF readerVars
  <2>2. ParserIInv' BY <2>1, ParserIInvStutter DEF IInv
  <2> QED BY <2>1, <2>2 DEF IInv, OpenNodesAreBalanced, EndIsLatest, Finished,
                            parserVars, place
<1> QED BY <1>1, <1>2 DEF ReaderNext, Stopped

LEMMA Invariance == ReaderSafety => []IInv
<1>1. ReaderInit => IInv BY InitIInv
<1>2. IInv /\ [ReaderNext]_readerVars => IInv' BY IInvNext
<1> QED BY <1>1, <1>2, PTL DEF ReaderSafety

-----------------------------------------------------------------------------
(* The theorems. *)

\* Every field of the parser keeps its type, depth stays within the nesting of the
\* document, and the stack of read_from is never popped when it is empty.
THEOREM TypeCorrect == ReaderSafety => []ReaderTypeOK
<1>1. IInv => ReaderTypeOK BY DEF IInv, ParserIInv, ReaderTypeOK
<1> QED BY <1>1, Invariance, PTL

\* The parser is in a node exactly at odd depth: nodes and children blocks alternate,
\* whatever slashdashes and errors the document holds.
THEOREM Alternation == ReaderSafety => []ModeFollowsDepth
<1>1. IInv => ModeFollowsDepth BY DEF IInv, ParserIInv
<1> QED BY <1>1, Invariance, PTL

\* The height of the reader's stack is a function of depth and slashdash_depth, for
\* documents of any length and nesting, dangling slashdashes included.
THEOREM Balance == ReaderSafety => []OpenNodesAreBalanced
<1>1. IInv => OpenNodesAreBalanced BY DEF IInv
<1> QED BY <1>1, Invariance, PTL

\* The token that _next_event_in_node puts back is never stale: the character set it
\* was read under is still the tokenizer's when it is handled.
THEOREM PutBack_Current == ReaderSafety => []PutBackTokenIsCurrent
<1>1. IInv => PutBackTokenIsCurrent BY DEF IInv, ParserIInv
<1> QED BY <1>1, Invariance, PTL

\* No handler ever takes a parser from one version of KDL to another.
THEOREM VersionSettles == ReaderSafety => VersionIsFinal
<1>1. IInv /\ [ReaderNext]_readerVars => [version # "detect" => version' = version]_readerVars
  <2> SUFFICES ASSUME IInv, [ReaderNext]_readerVars
               PROVE  version # "detect" => version' = version
    OBVIOUS
  <2>1. CASE Read
    <3>1. PICK tok \in Handled : StepOn(tok) BY <2>1, NextIsAStep DEF Read
    <3> QED BY <3>1, StepVersion DEF VersionStep, IInv, ParserIInv
  <2>2. CASE UNCHANGED readerVars BY <2>2 DEF readerVars, parserVars
  <2> QED BY <2>1, <2>2 DEF ReaderNext, Stopped
<1> QED BY <1>1, Invariance, PTL DEF ReaderSafety, VersionIsFinal

-----------------------------------------------------------------------------
(* The parser and its reader implement KdlEvents. *)

LEMMA EventsInit == ReaderInit => Events!Init
BY DEF ReaderInit, Events!Init

LEMMA EventsStep ==
    ASSUME IInv, NEW tok \in Handled, StepOn(tok), Deliver
    PROVE  [Events!Next]_<<open, latest>>
<1> USE MaxBlocksAssumption
<1>1. TypeOK /\ ModeFollowsDepth /\ OpenNodesAreBalanced BY DEF IInv, ParserIInv
<1>2. Shape(tok) BY <1>1, StepShape
<1>3. Events!Reading BY NotFinished DEF IInv, EndIsLatest, Events!Reading
<1>4. /\ depth \in Nat /\ slashdash_depth \in Int /\ open \in Nat
      /\ waiting_type_annotation \in BOOLEAN
  BY <1>1 DEF IInv, TypeOK
<1> USE <1>1, <1>3, <1>4 DEF Events!Next, OpenNodesAreBalanced, ModeFollowsDepth
<1>5. CASE Plain
  <2>1. CASE event' = ParseError
    <3>1. event'.kind = "PARSE_ERROR" /\ ~event'.slashdashed
      BY <2>1 DEF ParseError, Event
    <3> QED BY <3>1, Deliveries DEF Events!Broken
  <2>2. CASE event' # ParseError
    <3>1. event'.kind \in {"NONE", "COMMENT"} BY <1>5, <2>2 DEF Plain, NoEvent, Event
    <3> QED BY <3>1 DEF Deliver, Delivered
  <2> QED BY <2>1, <2>2
<1>6. CASE Armed(tok) \/ BlockStarted(tok) \/ BlockEnded
  <2>1. event'.kind = "NONE" BY <1>6 DEF Armed, BlockStarted, BlockEnded, NoEvent, Event
  <2> QED BY <2>1 DEF Deliver, Delivered
<1>7. CASE NodeStarted
  <2>1. event'.kind = "START_NODE" BY <1>7, StartedNode
  <2> QED BY <2>1, Deliveries DEF Events!StartNode
<1>8. CASE NodeEnded
  <2>1. event'.kind = "END_NODE" /\ (event'.slashdashed <=> slashdash_depth >= 0)
    BY <1>8, EndedNode
  <2>2. slashdash_depth < 0 => open > 0 BY <1>8 DEF NodeEnded
  <2> QED BY <2>1, <2>2, Deliveries DEF Events!EndNode
<1>9. CASE EntryRead
  <2>1. /\ event'.kind \in {"ARGUMENT", "PROPERTY"}
        /\ event'.slashdashed <=> slashdash_depth >= 0
    BY <1>9, ReadEntry
  <2>2. slashdash_depth < 0 => open > 0 BY <1>9 DEF EntryRead
  <2> QED BY <2>1, <2>2, Deliveries DEF Events!Entry
<1>10. CASE DocumentEnded
  <2>1. event'.kind = "EOF" /\ ~event'.slashdashed
    BY <1>10 DEF DocumentEnded, EndOfDocument, Event
  <2>2. open = 0 BY <1>10 DEF DocumentEnded
  <2> QED BY <2>1, <2>2, Deliveries DEF Events!Complete
<1> QED BY <1>2, <1>5, <1>6, <1>7, <1>8, <1>9, <1>10 DEF Shape

\* The event stream of the parser, as read_from acts on it, is a behaviour of the
\* abstract stream: the stack is popped only when it holds a node, an argument or
\* property arrives only when it does (so current_node is never null), EOF only when
\* it is empty, and nothing after EOF or PARSE_ERROR.
THEOREM Implementation == ReaderSafety => KeepsPromises
<1>1. IInv /\ [ReaderNext]_readerVars => [Events!Next]_(Events!vars)
  <2> SUFFICES ASSUME IInv, [ReaderNext]_readerVars PROVE [Events!Next]_<<open, latest>>
    BY DEF Events!vars
  <2>1. CASE Read BY <2>1, NextIsAStep, EventsStep DEF Read
  <2>2. CASE UNCHANGED readerVars BY <2>2 DEF readerVars
  <2> QED BY <2>1, <2>2 DEF ReaderNext, Stopped
<1> QED BY <1>1, EventsInit, Invariance, PTL DEF ReaderSafety, KeepsPromises, Events!Spec

-----------------------------------------------------------------------------
(***************************************************************************)
(* The strings of an event are owned for as long as it points to them, for *)
(* every vocabulary and every depth of nesting.  What a handler does with  *)
(* strings is told by the flags it changes and the event it makes;         *)
(* StepKind says that these tell it right.                                 *)
(***************************************************************************)

Fates == Owners \cup {"none", "freed", "lost"}
StringRecords == [owned : SUBSET Owners, to : [Pointers -> Fates], lost : BOOLEAN]

\* No pointer dangles, and the annotation that waits is in the buffer for annotations,
\* which no other value is read into.
AllLive(s) ==
    /\ s \in StringRecords
    /\ \A p \in Pointers : s.to[p] \in s.owned \cup {"none"}
    /\ s.to["waiting_type_annotation"] \in {"none", "tmp_string_type"}

\* While a string may still become a key it is kept.
KeyIsKept ==
    flags \cap {"MAYBE_IN_PROPERTY", "IN_PROPERTY"} # {} =>
        "waiting_prop_name" \in strings.owned

StringsIInv ==
    /\ IInv
    /\ AllLive(strings)
    /\ EventStringsLive
    /\ KeyIsKept

-----------------------------------------------------------------------------
(* What the parts of a handler do to the strings. *)

LEMMA RedirectedTo ==
    ASSUME NEW to \in [Pointers -> Fates], NEW string \in Owners, NEW fate \in Fates
    PROVE  /\ Redirected(to, string, fate) \in [Pointers -> Fates]
           /\ \A p \in Pointers : Redirected(to, string, fate)[p] =
                  IF to[p] = string THEN fate ELSE to[p]
BY DEF Redirected

LEMMA Freed ==
    ASSUME NEW s \in StringRecords, NEW owner \in Owners
    PROVE  /\ FreeString(s, owner) \in StringRecords
           /\ FreeString(s, owner).owned = s.owned \ {owner}
           /\ \A p \in Pointers : FreeString(s, owner).to[p] =
                  IF s.to[p] = owner THEN "freed" ELSE s.to[p]
<1> DEFINE to == Redirected(s.to, owner, "freed")
<1>1. s.to \in [Pointers -> Fates] /\ s.owned \subseteq Owners /\ s.lost \in BOOLEAN
  BY DEF StringRecords
<1>2. /\ to \in [Pointers -> Fates]
      /\ \A p \in Pointers : to[p] = IF s.to[p] = owner THEN "freed" ELSE s.to[p]
  BY <1>1, RedirectedTo DEF Fates
<1>3. FreeString(s, owner) = [s EXCEPT !.owned = @ \ {owner}, !.to = to]
  BY DEF FreeString
<1> HIDE DEF to
<1> QED BY <1>1, <1>2, <1>3 DEF StringRecords

LEMMA Parsed ==
    ASSUME NEW s \in StringRecords, NEW owner \in Owners, NEW isText \in BOOLEAN
    PROVE  /\ ParseValue(s, owner, isText) \in StringRecords
           /\ ParseValue(s, owner, isText).owned =
                  IF isText THEN s.owned \cup {owner} ELSE s.owned \ {owner}
           /\ \A p \in Pointers : ParseValue(s, owner, isText).to[p] =
                  IF s.to[p] = owner THEN "freed" ELSE s.to[p]
<1> DEFINE f == FreeString(s, owner)
<1>1. /\ f \in StringRecords /\ f.owned = s.owned \ {owner}
      /\ \A p \in Pointers : f.to[p] = IF s.to[p] = owner THEN "freed" ELSE s.to[p]
  BY Freed
<1>2. ParseValue(s, owner, isText) =
          IF isText THEN [f EXCEPT !.owned = @ \cup {owner}] ELSE f
  BY DEF ParseValue
<1> HIDE DEF f
<1>3. CASE isText
  <2>1. ParseValue(s, owner, isText) = [f EXCEPT !.owned = @ \cup {owner}] BY <1>2, <1>3
  <2>2. /\ ParseValue(s, owner, isText) \in StringRecords
        /\ ParseValue(s, owner, isText).owned = f.owned \cup {owner}
        /\ ParseValue(s, owner, isText).to = f.to
    BY <1>1, <2>1 DEF StringRecords
  <2>3. f.owned \cup {owner} = s.owned \cup {owner} BY <1>1
  <2> QED BY <1>1, <1>3, <2>2, <2>3
<1>4. CASE ~isText BY <1>1, <1>2, <1>4
<1> QED BY <1>3, <1>4

LEMMA Moved ==
    ASSUME NEW s \in StringRecords, NEW from \in Owners, NEW onto \in Owners,
           from \in s.owned, from # onto
    PROVE  /\ MoveString(s, from, onto) \in StringRecords
           /\ MoveString(s, from, onto).owned = (s.owned \ {from}) \cup {onto}
           /\ \A p \in Pointers : MoveString(s, from, onto).to[p] =
                  IF s.to[p] = onto THEN "lost"
                  ELSE IF s.to[p] = from THEN onto ELSE s.to[p]
<1> DEFINE lost == Redirected(s.to, onto, "lost")
           to == Redirected(lost, from, onto)
<1>1. s.to \in [Pointers -> Fates] /\ s.owned \subseteq Owners /\ s.lost \in BOOLEAN
  BY DEF StringRecords
<1>2. /\ lost \in [Pointers -> Fates]
      /\ \A p \in Pointers : lost[p] = IF s.to[p] = onto THEN "lost" ELSE s.to[p]
  BY <1>1, RedirectedTo DEF Fates
<1>3. MoveString(s, from, onto) =
          [owned |-> (s.owned \ {from, onto}) \cup {onto}, to |-> to,
           lost |-> s.lost \/ onto \in s.owned]
  BY DEF MoveString
<1> HIDE DEF lost
<1>4. /\ to \in [Pointers -> Fates]
      /\ \A p \in Pointers : to[p] = IF lost[p] = from THEN onto ELSE lost[p]
  BY <1>2, RedirectedTo DEF Fates
<1>5. "lost" # from BY DEF Owners
<1>6. \A p \in Pointers : to[p] = IF s.to[p] = onto THEN "lost"
                                  ELSE IF s.to[p] = from THEN onto ELSE s.to[p]
  BY <1>2, <1>4, <1>5
<1> HIDE DEF to
<1>7. (s.lost \/ onto \in s.owned) \in BOOLEAN OBVIOUS
<1> QED BY <1>1, <1>3, <1>4, <1>6, <1>7 DEF StringRecords

LEMMA Pointed ==
    ASSUME NEW s \in StringRecords, NEW pointer \in Pointers, NEW owner \in Fates
    PROVE  /\ Point(s, pointer, owner) \in StringRecords
           /\ Point(s, pointer, owner).owned = s.owned
           /\ \A p \in Pointers : Point(s, pointer, owner).to[p] =
                  IF p = pointer THEN owner ELSE s.to[p]
BY DEF Point, StringRecords

LEMMA Taken ==
    ASSUME NEW s \in StringRecords
    PROVE  /\ TakeAnnotation(s) \in StringRecords
           /\ TakeAnnotation(s).owned = s.owned
           /\ \A p \in Pointers : TakeAnnotation(s).to[p] =
                  CASE p = "type_annotation" -> s.to["waiting_type_annotation"]
                    [] p = "waiting_type_annotation" -> "none"
                    [] OTHER -> s.to[p]
<1> DEFINE t == Point(s, "type_annotation", s.to["waiting_type_annotation"])
<1>1. s.to["waiting_type_annotation"] \in Fates BY DEF StringRecords, Pointers
<1>2. "type_annotation" \in Pointers /\ "waiting_type_annotation" \in Pointers
      /\ "none" \in Fates
  BY DEF Pointers, Fates
<1>3. /\ t \in StringRecords /\ t.owned = s.owned
      /\ \A p \in Pointers : t.to[p] = IF p = "type_annotation"
                                       THEN s.to["waiting_type_annotation"] ELSE s.to[p]
  <2> DEFINE held == s.to["waiting_type_annotation"]
  <2>1. held \in Fates /\ "type_annotation" \in Pointers BY <1>1, <1>2
  <2> HIDE DEF held
  <2>2. /\ Point(s, "type_annotation", held) \in StringRecords
        /\ Point(s, "type_annotation", held).owned = s.owned
        /\ \A p \in Pointers : Point(s, "type_annotation", held).to[p] =
               IF p = "type_annotation" THEN held ELSE s.to[p]
    BY <2>1, Pointed
  <2> QED BY <2>2 DEF held
<1>4. TakeAnnotation(s) = Point(t, "waiting_type_annotation", "none")
  BY DEF TakeAnnotation
<1> HIDE DEF t
<1>5. /\ TakeAnnotation(s) \in StringRecords /\ TakeAnnotation(s).owned = t.owned
      /\ \A p \in Pointers : TakeAnnotation(s).to[p] =
             IF p = "waiting_type_annotation" THEN "none" ELSE t.to[p]
  BY <1>2, <1>3, <1>4, Pointed
<1> QED BY <1>3, <1>5

-----------------------------------------------------------------------------
(* What the handlers do to the strings. *)

\* The event has been reset: only an annotation waits.
Reset(s) ==
    /\ AllLive(s)
    /\ \A p \in Pointers \ {"waiting_type_annotation"} : s.to[p] = "none"

LEMMA AfterReset ==
    ASSUME NEW s, AllLive(s)
    PROVE  /\ Reset(ResetEvent(s)) /\ ResetEvent(s).owned = s.owned
           /\ ResetEvent(s).to["waiting_type_annotation"] = s.to["waiting_type_annotation"]
<1> DEFINE to == [p \in Pointers |-> IF p = "waiting_type_annotation" THEN s.to[p] ELSE "none"]
<1>1. /\ s \in StringRecords /\ s.to \in [Pointers -> Fates]
      /\ \A p \in Pointers : s.to[p] \in s.owned \cup {"none"}
      /\ s.to["waiting_type_annotation"] \in {"none", "tmp_string_type"}
  BY DEF AllLive, StringRecords
<1>2. to \in [Pointers -> Fates] BY <1>1 DEF Fates
<1>3. /\ "waiting_type_annotation" \in Pointers
      /\ \A p \in Pointers : to[p] = IF p = "waiting_type_annotation" THEN s.to[p] ELSE "none"
  BY DEF Pointers
<1>4. ResetEvent(s) = [s EXCEPT !.to = to, !.lost = FALSE] BY DEF ResetEvent
<1> HIDE DEF to
<1>5. /\ ResetEvent(s) \in StringRecords /\ ResetEvent(s).to = to
      /\ ResetEvent(s).owned = s.owned
  BY <1>1, <1>2, <1>4 DEF StringRecords
<1> QED BY <1>1, <1>3, <1>5 DEF Reset, AllLive

LEMMA AnnotationRead ==
    ASSUME NEW s, Reset(s)
    PROVE  /\ AllLive(ReadAnnotation(s))
           /\ s.owned \subseteq ReadAnnotation(s).owned
           /\ ReadAnnotation(s).to["waiting_type_annotation"] = "tmp_string_type"
<1> DEFINE v == ParseValue(s, "tmp_string_type", TRUE)
<1> USE DEF Owners, Pointers, Fates
<1>1. s \in StringRecords BY DEF Reset, AllLive
<1>2. /\ v \in StringRecords /\ v.owned = s.owned \cup {"tmp_string_type"}
      /\ \A p \in Pointers : v.to[p] = IF s.to[p] = "tmp_string_type" THEN "freed" ELSE s.to[p]
  BY <1>1, Parsed
<1>3. ReadAnnotation(s) = Point(v, "waiting_type_annotation", "tmp_string_type")
  BY DEF ReadAnnotation
<1> HIDE DEF v
<1>4. /\ ReadAnnotation(s) \in StringRecords /\ ReadAnnotation(s).owned = v.owned
      /\ \A p \in Pointers : ReadAnnotation(s).to[p] =
             IF p = "waiting_type_annotation" THEN "tmp_string_type" ELSE v.to[p]
  BY <1>2, <1>3, Pointed
<1> QED BY <1>2, <1>4 DEF Reset, AllLive

LEMMA NodeNameRead ==
    ASSUME NEW s, Reset(s)
    PROVE  /\ AllLive(ReadNodeName(s))
           /\ ReadNodeName(s).to["name"] # "none"
           /\ ReadNodeName(s).to["type_annotation"] = s.to["waiting_type_annotation"]
           /\ ReadNodeName(s).to["waiting_type_annotation"] = "none"
<1> DEFINE v == ParseValue(s, "tmp_string_key", TRUE)
           n == Point(v, "name", "tmp_string_key")
<1> USE DEF Owners, Pointers, Fates
<1>1. s \in StringRecords BY DEF Reset, AllLive
<1>2. /\ v \in StringRecords /\ v.owned = s.owned \cup {"tmp_string_key"}
      /\ \A p \in Pointers : v.to[p] = IF s.to[p] = "tmp_string_key" THEN "freed" ELSE s.to[p]
  BY <1>1, Parsed
<1> HIDE DEF v
<1>3. /\ n \in StringRecords /\ n.owned = v.owned
      /\ \A p \in Pointers : n.to[p] = IF p = "name" THEN "tmp_string_key" ELSE v.to[p]
  BY <1>2, Pointed
<1>4. ReadNodeName(s) = TakeAnnotation(n) BY DEF ReadNodeName, v
<1> HIDE DEF n
<1>5. /\ ReadNodeName(s) \in StringRecords /\ ReadNodeName(s).owned = n.owned
      /\ \A p \in Pointers : ReadNodeName(s).to[p] =
             CASE p = "type_annotation" -> n.to["waiting_type_annotation"]
               [] p = "waiting_type_annotation" -> "none"
               [] OTHER -> n.to[p]
  BY <1>3, <1>4, Taken
<1> QED BY <1>2, <1>3, <1>5 DEF Reset, AllLive

LEMMA PossibleKeyKept ==
    ASSUME NEW s, Reset(s)
    PROVE  /\ AllLive(KeepPossibleKey(s))
           /\ "waiting_prop_name" \in KeepPossibleKey(s).owned
           /\ KeepPossibleKey(s).to["waiting_type_annotation"] =
                  s.to["waiting_type_annotation"]
<1> DEFINE v == ParseValue(s, "tmp_string_value", TRUE)
<1> USE DEF Owners, Pointers, Fates
<1>1. s \in StringRecords BY DEF Reset, AllLive
<1>2. /\ v \in StringRecords /\ v.owned = s.owned \cup {"tmp_string_value"}
      /\ \A p \in Pointers : v.to[p] = IF s.to[p] = "tmp_string_value" THEN "freed" ELSE s.to[p]
  BY <1>1, Parsed
<1>3. KeepPossibleKey(s) = MoveString(v, "tmp_string_value", "waiting_prop_name")
  BY DEF KeepPossibleKey
<1> HIDE DEF v
<1>4. /\ KeepPossibleKey(s) \in StringRecords
      /\ KeepPossibleKey(s).owned = (v.owned \ {"tmp_string_value"}) \cup {"waiting_prop_name"}
      /\ \A p \in Pointers : KeepPossibleKey(s).to[p] =
             IF v.to[p] = "waiting_prop_name" THEN "lost"
             ELSE IF v.to[p] = "tmp_string_value" THEN "waiting_prop_name" ELSE v.to[p]
  BY <1>2, <1>3, Moved
<1> QED BY <1>2, <1>4 DEF Reset, AllLive

LEMMA PossibleKeyReturned ==
    ASSUME NEW s, Reset(s), "waiting_prop_name" \in s.owned
    PROVE  /\ AllLive(ReturnPossibleKey(s))
           /\ ReturnPossibleKey(s).to["waiting_type_annotation"] =
                  s.to["waiting_type_annotation"]
<1> DEFINE m == MoveString(s, "waiting_prop_name", "tmp_string_value")
<1> USE DEF Owners, Pointers, Fates
<1>1. s \in StringRecords BY DEF Reset, AllLive
<1>2. /\ m \in StringRecords
      /\ m.owned = (s.owned \ {"waiting_prop_name"}) \cup {"tmp_string_value"}
      /\ \A p \in Pointers : m.to[p] =
             IF s.to[p] = "tmp_string_value" THEN "lost"
             ELSE IF s.to[p] = "waiting_prop_name" THEN "tmp_string_value" ELSE s.to[p]
  BY <1>1, Moved
<1>3. ReturnPossibleKey(s) = Point(m, "string", "tmp_string_value")
  BY DEF ReturnPossibleKey
<1> HIDE DEF m
<1>4. /\ ReturnPossibleKey(s) \in StringRecords /\ ReturnPossibleKey(s).owned = m.owned
      /\ \A p \in Pointers : ReturnPossibleKey(s).to[p] =
             IF p = "string" THEN "tmp_string_value" ELSE m.to[p]
  BY <1>2, <1>3, Pointed
<1> QED BY <1>2, <1>4 DEF Reset, AllLive

LEMMA ArgumentRead ==
    ASSUME NEW s, Reset(s), NEW isText \in BOOLEAN
    PROVE  /\ AllLive(ReadArgument(s, isText))
           /\ s.owned \ {"tmp_string_value"} \subseteq ReadArgument(s, isText).owned
           /\ ReadArgument(s, isText).to["name"] = "none"
           /\ ReadArgument(s, isText).to["type_annotation"] = s.to["waiting_type_annotation"]
           /\ ReadArgument(s, isText).to["waiting_type_annotation"] = "none"
           /\ ReadArgument(s, isText).to["string"] \in {"none", "tmp_string_value"}
<1> DEFINE v == ParseValue(s, "tmp_string_value", isText)
           text == IF isText THEN "tmp_string_value" ELSE "none"
           n == Point(v, "string", text)
<1> USE DEF Owners, Pointers, Fates
<1>1. s \in StringRecords BY DEF Reset, AllLive
<1>2. /\ v \in StringRecords
      /\ v.owned = IF isText THEN s.owned \cup {"tmp_string_value"}
                             ELSE s.owned \ {"tmp_string_value"}
      /\ \A p \in Pointers : v.to[p] = IF s.to[p] = "tmp_string_value" THEN "freed" ELSE s.to[p]
  BY ZenonT(60), <1>1, Parsed
<1> HIDE DEF v
<1>3. /\ n \in StringRecords /\ n.owned = v.owned
      /\ \A p \in Pointers : n.to[p] = IF p = "string" THEN text ELSE v.to[p]
  BY <1>2, Pointed
<1>4. ReadArgument(s, isText) = TakeAnnotation(n) BY DEF ReadArgument, v
<1> HIDE DEF n
<1>5. /\ ReadArgument(s, isText) \in StringRecords /\ ReadArgument(s, isText).owned = n.owned
      /\ \A p \in Pointers : ReadArgument(s, isText).to[p] =
             CASE p = "type_annotation" -> n.to["waiting_type_annotation"]
               [] p = "waiting_type_annotation" -> "none"
               [] OTHER -> n.to[p]
  BY <1>3, <1>4, Taken
<1> DEFINE m == ReadArgument(s, isText)
<1>6. /\ m.to["name"] = n.to["name"]
      /\ m.to["type_annotation"] = n.to["waiting_type_annotation"]
      /\ m.to["waiting_type_annotation"] = "none"
      /\ m.to["string"] = n.to["string"]
  BY <1>5
<1>7. m \in StringRecords /\ m.owned = v.owned BY <1>3, <1>5
<1> HIDE DEF m
<1>8. /\ m.to["string"] = text
      /\ m.to["name"] = v.to["name"]
      /\ m.to["type_annotation"] = v.to["waiting_type_annotation"]
  BY <1>3, <1>6
<1>9. /\ v.to["name"] = "none"
      /\ v.to["waiting_type_annotation"] = s.to["waiting_type_annotation"]
      /\ s.to["waiting_type_annotation"] \in (s.owned \cap {"tmp_string_type"}) \cup {"none"}
  BY <1>2 DEF Reset, AllLive
<1>10. /\ m.to["name"] = "none"
       /\ m.to["type_annotation"] = s.to["waiting_type_annotation"]
  BY <1>8, <1>9
<1>11. s.owned \ {"tmp_string_value"} \subseteq m.owned BY <1>2, <1>7
<1>12. \A p \in Pointers : m.to[p] \in m.owned \cup {"none"}
  <2>1. text \in m.owned \cup {"none"} BY <1>2, <1>7
  <2>2. s.to["waiting_type_annotation"] \in m.owned \cup {"none"} BY <1>9, <1>11
  <2> HIDE DEF text
  <2> QED BY <1>6, <1>8, <1>10, <2>1, <2>2
<1>13. AllLive(m) BY <1>6, <1>7, <1>12 DEF AllLive
<1> QED BY <1>6, <1>8, <1>10, <1>11, <1>13 DEF m

LEMMA PropertyRead ==
    ASSUME NEW s, Reset(s), "waiting_prop_name" \in s.owned, NEW isText \in BOOLEAN
    PROVE  /\ AllLive(ReadProperty(s, isText))
           /\ ReadProperty(s, isText).to["name"] # "none"
           /\ ReadProperty(s, isText).to["type_annotation"] = s.to["waiting_type_annotation"]
           /\ ReadProperty(s, isText).to["waiting_type_annotation"] = "none"
<1> DEFINE a == ReadArgument(s, isText)
           m == MoveString(a, "waiting_prop_name", "tmp_string_key")
<1> USE DEF Owners, Pointers, Fates
<1>1. /\ AllLive(a) /\ a.to["name"] = "none"
      /\ a.to["type_annotation"] = s.to["waiting_type_annotation"]
      /\ a.to["waiting_type_annotation"] = "none"
      /\ a.to["string"] \in {"none", "tmp_string_value"}
      /\ "waiting_prop_name" \in a.owned
  BY ArgumentRead
<1>2. ReadProperty(s, isText) = Point(m, "name", "tmp_string_key") BY DEF ReadProperty
<1> HIDE DEF a
<1>3. s.to["waiting_type_annotation"] \in {"none", "tmp_string_type"}
  BY DEF Reset, AllLive
<1>4. /\ m \in StringRecords
      /\ m.owned = (a.owned \ {"waiting_prop_name"}) \cup {"tmp_string_key"}
      /\ \A p \in Pointers : m.to[p] =
             IF a.to[p] = "tmp_string_key" THEN "lost"
             ELSE IF a.to[p] = "waiting_prop_name" THEN "tmp_string_key" ELSE a.to[p]
  BY <1>1, Moved DEF AllLive
<1>5. \A p \in Pointers : m.to[p] = a.to[p] BY <1>1, <1>3, <1>4
<1>6. \A p \in Pointers : m.to[p] \in m.owned \cup {"none"}
  BY <1>1, <1>3, <1>4, <1>5 DEF AllLive
<1> HIDE DEF m
<1>7. /\ ReadProperty(s, isText) \in StringRecords /\ ReadProperty(s, isText).owned = m.owned
      /\ \A p \in Pointers : ReadProperty(s, isText).to[p] =
             IF p = "name" THEN "tmp_string_key" ELSE m.to[p]
  BY <1>2, <1>4, Pointed
<1> QED BY <1>1, <1>3, <1>4, <1>5, <1>6, <1>7 DEF AllLive

-----------------------------------------------------------------------------
(* Which handler a step was, as Track tells it from the flags and the event. *)

KeyFlags == {"MAYBE_IN_PROPERTY", "IN_PROPERTY"}
NoNewKey == flags' \cap KeyFlags # {} => flags \cap KeyFlags # {}

AnnotationStep ==
    /\ event' = NoEvent
    /\ Ended("TYPE_ANNOTATION_START") /\ ~Began("MAYBE_IN_PROPERTY")
    /\ NoNewKey
    /\ waiting_type_annotation' = TRUE

PossibleKeyStep ==
    /\ event' = NoEvent
    /\ ~Ended("TYPE_ANNOTATION_START") /\ Began("MAYBE_IN_PROPERTY")
    /\ waiting_type_annotation' = waiting_type_annotation

\* An event that takes the annotation, and after which no key can be waiting.
OwnerStep(kind) ==
    /\ event'.kind = kind
    /\ event'.annotated = waiting_type_annotation
    /\ waiting_type_annotation' = FALSE
    /\ flags' \cap KeyFlags = {}

PendingStep ==
    /\ event'.kind = "ARGUMENT" /\ ~event'.annotated
    /\ Ended("MAYBE_IN_PROPERTY")
    /\ waiting_type_annotation' = waiting_type_annotation
    /\ flags' \cap KeyFlags = {}

QuietStep ==
    /\ event'.kind \in {"NONE", "END_NODE", "COMMENT", "EOF", "PARSE_ERROR"}
    /\ ~event'.annotated
    /\ event'.kind = "NONE" =>
           ~Ended("TYPE_ANNOTATION_START") /\ ~Began("MAYBE_IN_PROPERTY")
    /\ NoNewKey
    /\ waiting_type_annotation' = waiting_type_annotation

KindOfStep ==
    \/ AnnotationStep \/ PossibleKeyStep \/ PendingStep \/ QuietStep
    \/ OwnerStep("START_NODE")
    \/ OwnerStep("ARGUMENT") /\ ~Ended("MAYBE_IN_PROPERTY")
    \/ OwnerStep("PROPERTY") /\ "IN_PROPERTY" \in flags

\* What ApplySlashdash makes of the event, whatever the counter.
LEMMA AppliedEvent ==
    ASSUME NEW kind, NEW annotated, NEW d, ApplySlashdash(kind, annotated, d)
    PROVE  event'.kind = kind /\ event'.annotated = annotated
BY DEF ApplySlashdash, Event

LEMMA StepKind ==
    ASSUME TypeOK, NEW tok, StepOn(tok) PROVE KindOfStep
<1> USE DEF KindOfStep, NoNewKey, KeyFlags, Began, Ended, live, waiting
<1>0. /\ NoEvent.kind = "NONE" /\ ~NoEvent.annotated
      /\ ParseError.kind = "PARSE_ERROR" /\ ~ParseError.annotated
      /\ EndOfDocument.kind = "EOF" /\ ~EndOfDocument.annotated
      /\ Event("COMMENT", FALSE, FALSE).kind = "COMMENT"
      /\ ~Event("COMMENT", FALSE, FALSE).annotated
  BY DEF NoEvent, ParseError, EndOfDocument, Event
<1>1. ASSUME Fail(tok) PROVE QuietStep BY <1>0, <1>1 DEF Fail, QuietStep
<1>2. CASE Spacing(tok)
  BY <1>0, <1>2 DEF Spacing, AcceptSpacing, QuietStep
<1>3. CASE Slashdash(tok) BY <1>0, <1>3 DEF Slashdash, QuietStep
<1>4. CASE RejectBeforeDispatch(tok) BY <1>1, <1>4 DEF RejectBeforeDispatch
<1>5. CASE EofOutsideNode BY <1>0, <1>5 DEF EofOutsideNode, QuietStep
<1>6. CASE tok = NoToken /\ TokenizerError BY <1>1, <1>6 DEF TokenizerError
<1>7. CASE AnnotationName(tok) BY <1>7 DEF AnnotationName, AnnotationStep
<1>8. CASE AnnotationClose(tok) BY <1>0, <1>8 DEF AnnotationClose, QuietStep
<1>9. CASE RejectInAnnotation(tok) BY <1>1, <1>9 DEF RejectInAnnotation
<1>10. CASE AnnotationOpen(tok) BY <1>0, <1>10 DEF AnnotationOpen, QuietStep
<1>11. CASE NextNode(tok)
  <2>1. CASE BlankLine(tok)
    BY <1>0, <1>11, <2>1 DEF BlankLine, NodeCannotEndHere, WhitespaceBannedV1, QuietStep
  <2>2. CASE StartNode(tok)
    BY <2>2, AppliedEvent DEF StartNode, OwnerStep
  <2>3. CASE EndChildren(tok)
    BY <1>0, <1>11, <2>3 DEF NextNode, InAnnotation, EndChildren, QuietStep
  <2>4. CASE LineContinuationOutside(tok)
    BY <1>0, <2>4 DEF LineContinuationOutside, QuietStep
  <2>5. CASE RejectOutside(tok) BY <1>1, <2>5 DEF RejectOutside
  <2> QED BY <1>10, <1>11, <2>1, <2>2, <2>3, <2>4, <2>5 DEF NextNode
<1>12. CASE NextEventInNode(tok)
  <2>1. CASE LineContinuationEnd(tok) BY <1>0, <2>1 DEF LineContinuationEnd, QuietStep
  <2>2. CASE LineContinuation(tok)
    BY <1>0, <2>2 DEF LineContinuation, AcceptSpacing, QuietStep
  <2>3. CASE RejectLineContinuation(tok) BY <1>1, <2>3 DEF RejectLineContinuation
  <2>4. CASE "MAYBE_IN_PROPERTY" \in live /\ PropertyKey(tok)
    BY <1>0, <2>4 DEF PropertyKey, QuietStep
  <2>5. CASE "MAYBE_IN_PROPERTY" \in live /\ PendingArgument(tok)
    BY <2>5, AppliedEvent DEF PendingArgument, PendingStep
  <2>6. CASE RejectPending(tok) BY <1>1, <2>6 DEF RejectPending
  <2>7. CASE EndNode(tok)
    <3>1. event'.kind = "END_NODE" /\ ~event'.annotated
      BY <2>7, AppliedEvent DEF EndNode
    <3> QED BY <2>7, <3>1 DEF EndNode, QuietStep
  <2>8. CASE StartChildren(tok) /\ ~InAnnotation
    BY <1>0, <2>8 DEF StartChildren, InAnnotation, QuietStep
  <2>9. CASE PossibleKey(tok) /\ "MAYBE_IN_PROPERTY" \notin live
    BY <2>9 DEF PossibleKey, PossibleKeyStep
  <2>10. CASE Entry(tok) /\ "MAYBE_IN_PROPERTY" \notin live
    <3>1. CASE "IN_PROPERTY" \in live
      BY <2>10, <3>1, AppliedEvent DEF Entry, OwnerStep
    <3>2. CASE "IN_PROPERTY" \notin live
      BY <2>10, <3>2, AppliedEvent DEF Entry, OwnerStep
    <3> QED BY <3>1, <3>2
  <2>11. CASE RejectEntry(tok) BY <1>1, <2>11 DEF RejectEntry
  <2> QED BY <1>10, <1>12, <2>1, <2>2, <2>3, <2>4, <2>5, <2>6, <2>7, <2>8, <2>9,
             <2>10, <2>11 DEF NextEventInNode
<1> QED BY <1>2, <1>3, <1>4, <1>5, <1>6, <1>7, <1>8, <1>9, <1>11, <1>12
        DEF StepOn, Handle, EofInNode, Dispatch

-----------------------------------------------------------------------------
(* The invariant is inductive. *)

LEMMA StringsIInvInit == StringsInit => StringsIInv
<1> SUFFICES ASSUME StringsInit PROVE StringsIInv OBVIOUS
<1>1. IInv BY InitIInv DEF StringsInit
<1>2. strings = NoStrings BY DEF StringsInit
<1>3. /\ NoStrings \in StringRecords /\ NoStrings.owned = {}
      /\ \A p \in Pointers : NoStrings.to[p] = "none"
  BY DEF NoStrings, StringRecords, Fates
<1>4. /\ event.kind = "NONE" /\ ~event.annotated /\ flags = {}
      /\ ~waiting_type_annotation
  BY DEF StringsInit, ReaderInit, Init, NoEvent, Event
<1> QED BY <1>1, <1>2, <1>3, <1>4
        DEF StringsIInv, AllLive, EventStringsLive, KeyIsKept, Pointers

LEMMA StringsKept ==
    ASSUME StringsIInv, NEW tok \in Handled, StepOn(tok), Track(tok)
    PROVE  AllLive(strings') /\ EventStringsLive' /\ KeyIsKept'
<1> DEFINE s == ResetEvent(strings)
<1>1. TypeOK BY DEF StringsIInv, IInv, ParserIInv
<1>2. KindOfStep BY <1>1, StepKind
<1>3. /\ Reset(s) /\ s.owned = strings.owned
      /\ s.to["waiting_type_annotation"] = strings.to["waiting_type_annotation"]
  BY AfterReset DEF StringsIInv
<1>4. /\ waiting_type_annotation \in BOOLEAN
      /\ waiting_type_annotation <=> s.to["waiting_type_annotation"] # "none"
      /\ s.to["waiting_type_annotation"] \in {"none", "tmp_string_type"}
  BY <1>1, <1>3 DEF TypeOK, StringsIInv, EventStringsLive, AllLive
<1>5. TextOrNot(tok) \subseteq BOOLEAN BY DEF TextOrNot
<1>6. Track(tok) <=>
        CASE event'.kind = "NONE" /\ Ended("TYPE_ANNOTATION_START") ->
                 strings' = ReadAnnotation(s)
          [] event'.kind = "NONE" /\ Began("MAYBE_IN_PROPERTY") ->
                 strings' = KeepPossibleKey(s)
          [] event'.kind = "START_NODE" -> strings' = ReadNodeName(s)
          [] event'.kind = "ARGUMENT" /\ Ended("MAYBE_IN_PROPERTY") ->
                 strings' = ReturnPossibleKey(s)
          [] event'.kind = "ARGUMENT" /\ ~Ended("MAYBE_IN_PROPERTY") ->
                 \E isText \in TextOrNot(tok) : strings' = ReadArgument(s, isText)
          [] event'.kind = "PROPERTY" ->
                 \E isText \in TextOrNot(tok) : strings' = ReadProperty(s, isText)
          [] OTHER -> strings' = s
  BY DEF Track
<1> HIDE DEF s
<1>7. NoEvent.kind = "NONE" /\ ~NoEvent.annotated BY DEF NoEvent, Event
<1>8. KeyIsKept BY DEF StringsIInv
<1> USE DEF EventStringsLive, KeyIsKept
<1>9. CASE AnnotationStep
  <2>1. strings' = ReadAnnotation(s) BY <1>6, <1>7, <1>9 DEF AnnotationStep, Ended, Began
  <2> QED BY <1>3, <1>7, <1>8, <1>9, <2>1, AnnotationRead
          DEF AnnotationStep, NoNewKey, KeyFlags, AllLive
<1>10. CASE PossibleKeyStep
  <2>1. strings' = KeepPossibleKey(s) BY <1>6, <1>7, <1>10 DEF PossibleKeyStep, Ended, Began
  <2> QED BY <1>3, <1>4, <1>7, <1>10, <2>1, PossibleKeyKept DEF PossibleKeyStep, AllLive
<1>11. CASE PendingStep
  <2>1. strings' = ReturnPossibleKey(s) BY <1>6, <1>11 DEF PendingStep, Ended
  <2>2. "waiting_prop_name" \in s.owned BY <1>3, <1>8, <1>11 DEF PendingStep, Ended
  <2> QED BY <1>3, <1>4, <1>11, <2>1, <2>2, PossibleKeyReturned
          DEF PendingStep, KeyFlags, AllLive
<1>12. CASE QuietStep
  <2>1. strings' = s BY <1>6, <1>12 DEF QuietStep, Ended, Began
  <2> QED BY <1>3, <1>4, <1>8, <1>12, <2>1 DEF QuietStep, NoNewKey, KeyFlags, Reset, AllLive
<1>13. CASE OwnerStep("START_NODE")
  <2>1. strings' = ReadNodeName(s) BY <1>6, <1>13 DEF OwnerStep
  <2> QED BY <1>3, <1>4, <1>13, <2>1, NodeNameRead DEF OwnerStep, KeyFlags, AllLive
<1>14. CASE OwnerStep("ARGUMENT") /\ ~Ended("MAYBE_IN_PROPERTY")
  <2>1. PICK isText \in BOOLEAN : strings' = ReadArgument(s, isText)
    BY <1>5, <1>6, <1>14 DEF OwnerStep
  <2> QED BY <1>3, <1>4, <1>14, <2>1, ArgumentRead DEF OwnerStep, KeyFlags, AllLive
<1>15. CASE OwnerStep("PROPERTY") /\ "IN_PROPERTY" \in flags
  <2>1. PICK isText \in BOOLEAN : strings' = ReadProperty(s, isText)
    BY <1>5, <1>6, <1>15 DEF OwnerStep
  <2>2. "waiting_prop_name" \in s.owned BY <1>3, <1>8, <1>15
  <2> QED BY <1>3, <1>4, <1>15, <2>1, <2>2, PropertyRead DEF OwnerStep, KeyFlags, AllLive
<1> QED BY <1>2, <1>9, <1>10, <1>11, <1>12, <1>13, <1>14, <1>15 DEF KindOfStep

LEMMA StringsStepIsAStep ==
    ASSUME StringsStep
    PROVE  /\ \E tok \in Handled : StepOn(tok) /\ Track(tok)
           /\ Next
BY VocabularyAssumption DEF StringsStep, StepOn, Handled, Next

LEMMA StringsIInvStep == StringsIInv /\ [StringsNext]_stringsVars => StringsIInv'
<1> SUFFICES ASSUME StringsIInv, [StringsNext]_stringsVars PROVE StringsIInv' OBVIOUS
<1>1. CASE StringsStep /\ Deliver
  <2>1. PICK tok \in Handled : StepOn(tok) /\ Track(tok) BY <1>1, StringsStepIsAStep
  <2>2. IInv' BY <1>1, <2>1, IInvStep DEF StringsIInv
  <2>3. AllLive(strings') /\ EventStringsLive' /\ KeyIsKept' BY <2>1, StringsKept
  <2> QED BY <2>2, <2>3 DEF StringsIInv
<1>2. CASE UNCHANGED <<readerVars, strings>>
  <2>1. IInv' BY <1>2, IInvNext DEF StringsIInv
  <2> QED BY <1>2, <2>1 DEF readerVars, parserVars, waiting, StringsIInv,
                            EventStringsLive, KeyIsKept
<1> QED BY <1>1, <1>2 DEF StringsNext, Stopped, stringsVars

-----------------------------------------------------------------------------
(* The theorems. *)

\* What an event points to is owned until the next call, whatever was read, kept, moved
\* and freed by the handlers between.
THEOREM NothingDangles == StringsSpec => []EventStringsLive
<1>1. StringsIInv => EventStringsLive BY DEF StringsIInv
<1> QED BY <1>1, StringsIInvInit, StringsIInvStep, PTL DEF StringsSpec

\* Keeping track of the strings adds nothing to the parser and its reader: all that is
\* proved of those holds here.
THEOREM StringsImplementReader == StringsSpec => ReaderSafety
<1>1. StringsInit => ReaderInit BY DEF StringsInit
<1>2. [StringsNext]_stringsVars => [ReaderNext]_readerVars
  BY StringsStepIsAStep DEF StringsNext, stringsVars, ReaderNext, Read
<1> QED BY <1>1, <1>2, PTL DEF StringsSpec, ReaderSafety
=============================================================================
