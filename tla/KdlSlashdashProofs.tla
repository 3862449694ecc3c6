------------------------- MODULE KdlSlashdashProofs -------------------------
(***************************************************************************)
(* What /- removes, for every vocabulary and every depth of nesting: the   *)
(* two integers of the parser say of the open nodes and blocks what the    *)
(* auxiliary stack says of each of them.                                   *)
(***************************************************************************)
EXTENDS KdlSlashdash, KdlParserProofs, SequenceTheorems

-----------------------------------------------------------------------------
(* The inductive invariant. *)

Frames == [hidden : BOOLEAN, block : Blocks]

\* What is hidden begins at slashdash_depth and goes on to the top of the stack; a
\* slashdash that waits outside all that is hidden has the depth of its element.
CounterMarksHidden ==
    /\ slashdash_depth \in -1..(depth + 1) /\ slashdash_depth # 0
    /\ \A i \in 1..depth : scope[i].hidden <=> slashdash_depth \in 1..i
    /\ slashdash_depth = depth + 1 => armed
    /\ armed => slashdash_depth > 0

\* One open node at most has a block that is shown, the one at child_block_at_depth, and
\* what is open inside it is hidden.
ShownBlockIsNoted ==
    /\ child_block_at_depth \in {-1} \cup 1..depth
    /\ \A i \in 1..depth : scope[i].block = "shown" <=> child_block_at_depth = i
    /\ child_block_at_depth > 0 => ~(slashdash_depth \in 1..child_block_at_depth)
    /\ child_block_at_depth \in 1..(depth - 1) =>
           slashdash_depth \in 1..(child_block_at_depth + 1)

\* Blocks are marked in the nodes they belong to.  The flags tell which blocks the node has
\* had whose entries could come next.
FlagsFollowBlocks ==
    /\ "MAYBE_IN_PROPERTY" \in flags => flags \cap BlockFlags = {}
    /\ \A i \in 1..depth : i % 2 = 0 => scope[i].block = "none"
    /\ mode = "IN_NODE" =>
           /\ scope[depth].block # "none" => flags \cap BlockFlags # {}
           /\ scope[depth].block = "shown" => "END_OF_NODE" \in flags

Tracked ==
    /\ scope \in Seq(Frames) /\ Len(scope) = depth
    /\ CounterMarksHidden
    /\ ShownBlockIsNoted
    /\ FlagsFollowBlocks

SlashdashIInv ==
    /\ ParserIInv
    /\ armed \in BOOLEAN /\ dangled \in BOOLEAN
    /\ ~dangled => Tracked

-----------------------------------------------------------------------------
(* The stack. *)

LEMMA Pushed ==
    ASSUME NEW s \in Seq(Frames), NEW f \in Frames
    PROVE  /\ Append(s, f) \in Seq(Frames)
           /\ Len(Append(s, f)) = Len(s) + 1
           /\ \A i \in 1..Len(s) : Append(s, f)[i] = s[i]
           /\ Append(s, f)[Len(s) + 1] = f
BY AppendProperties

LEMMA Popped ==
    ASSUME NEW s \in Seq(Frames), Len(s) > 0
    PROVE  /\ Front(s) \in Seq(Frames)
           /\ Len(Front(s)) = Len(s) - 1
           /\ \A i \in 1..(Len(s) - 1) : Front(s)[i] = s[i]
           /\ Last(s) = s[Len(s)] /\ Last(s) \in Frames
<1> DEFINE n == Len(s) - 1
<1>0. n \in Nat /\ n + 1 = Len(s) BY LenProperties
<1>1. \A i \in 1..Len(s) : s[i] \in Frames BY ElementOfSeq
<1>2. Front(s) = SubSeq(s, 1, n) BY DEF Front
<1>3. \A i \in 1..n : s[i] \in Frames BY <1>0, <1>1
<1> HIDE DEF n
<1>4. /\ SubSeq(s, 1, n) \in Seq(Frames)
      /\ Len(SubSeq(s, 1, n)) = IF 1 <= n THEN n - 1 + 1 ELSE 0
      /\ \A i \in 1..(n - 1 + 1) : SubSeq(s, 1, n)[i] = s[1 + i - 1]
  BY <1>0, <1>3, SubSeqProperties
<1>5. /\ Front(s) \in Seq(Frames) /\ Len(Front(s)) = n
      /\ \A i \in 1..n : Front(s)[i] = s[i]
  BY <1>0, <1>2, <1>4
<1>6. Last(s) = s[Len(s)] /\ Last(s) \in Frames BY <1>0, <1>1 DEF Last
<1> QED BY <1>5, <1>6 DEF n

-----------------------------------------------------------------------------
(* What a step tells the stack. *)

\* A step handles one token and is tracked with it.
LEMMA TrackedStep ==
    ASSUME SlashdashStep PROVE \E tok \in Handled : StepOn(tok) /\ Track(tok)
BY VocabularyAssumption DEF SlashdashStep, StepOn, Handled

\* An accepted slashdash arms; every other step has one of the seven other shapes.
LEMMA ArmedOrNot ==
    ASSUME TypeOK, NEW tok, StepOn(tok)
    PROVE  \/ Armed(tok) /\ SlashdashSeen(tok)
           \/ /\ ~SlashdashSeen(tok)
              /\ \/ Plain \/ NodeStarted \/ NodeEnded \/ BlockStarted(tok)
                 \/ BlockEnded \/ EntryRead \/ DocumentEnded
<1>1. Shape(tok) BY StepShape
<1>2. IsSlashdash(tok) => event' = ParseError \/ Armed(tok) BY SlashdashShape
<1>3. NoEvent.kind = "NONE" /\ ParseError.kind = "PARSE_ERROR"
  BY DEF NoEvent, ParseError, Event
<1>4. Armed(tok) => SlashdashSeen(tok) BY <1>3 DEF Armed, SlashdashSeen
<1>5. SlashdashSeen(tok) => Armed(tok) BY <1>2, <1>3 DEF SlashdashSeen
<1> QED BY <1>1, <1>4, <1>5 DEF Shape

\* Whether the next element is hidden can be told from the counter alone.
LEMMA HiddenIsActive ==
    ASSUME ParserIInv, armed \in BOOLEAN, Tracked
    PROVE  /\ Hidden \in BOOLEAN /\ (Hidden <=> slashdash_depth > 0)
           /\ slashdash_depth > 0 <=> slashdash_depth >= 0
           /\ depth > 0 => (Last(scope).hidden <=> slashdash_depth \in 1..depth)
<1>1. depth \in Nat BY MaxBlocksAssumption DEF ParserIInv, TypeOK
<1>2. scope = <<>> <=> depth = 0 BY <1>1, EmptySeq DEF Tracked
<1>3. depth > 0 => Last(scope) = scope[depth] BY DEF Last, Tracked
<1>4. depth > 0 => (Last(scope).hidden <=> slashdash_depth \in 1..depth)
  BY <1>1, <1>3 DEF Tracked, CounterMarksHidden
<1>5. depth > 0 => Last(scope).hidden \in BOOLEAN
  BY <1>1, Popped DEF Tracked, Frames
<1>6. Hidden \in BOOLEAN
  BY <1>1, <1>2, <1>5 DEF Hidden, InHidden
<1>7. Hidden <=> slashdash_depth > 0
  BY <1>1, <1>2, <1>4 DEF Hidden, InHidden, Tracked, CounterMarksHidden
<1>8. slashdash_depth > 0 <=> slashdash_depth >= 0
  BY <1>1 DEF Tracked, CounterMarksHidden
<1> QED BY <1>4, <1>6, <1>7, <1>8

\* Opening a node or a block.
LEMMA ScopeEntered ==
    ASSUME ParserIInv, armed \in BOOLEAN, Tracked, NEW tok, Track(tok), ~dangled',
           depth' = depth + 1, ~SlashdashSeen(tok)
    PROVE  /\ armed' = FALSE
           /\ scope' \in Seq(Frames) /\ Len(scope') = depth'
           /\ \A i \in 1..depth : scope'[i] = scope[i]
           /\ scope'[depth'].hidden <=> slashdash_depth > 0
           /\ scope'[depth'].block = "none"
<1>1. depth \in Nat BY MaxBlocksAssumption DEF ParserIInv, TypeOK
<1>2. Entered /\ ~Left BY <1>1 DEF Entered, Left
<1>3. armed' = FALSE /\ scope' = Append(scope, Frame(Hidden, "none"))
  BY <1>2 DEF Track
<1>4. Hidden \in BOOLEAN /\ (Hidden <=> slashdash_depth > 0) BY HiddenIsActive
<1> DEFINE f == Frame(Hidden, "none")
<1>5. f \in Frames /\ f.hidden = Hidden /\ f.block = "none"
  BY <1>4 DEF Frame, Frames, Blocks
<1> HIDE DEF f
<1>6. /\ scope' \in Seq(Frames) /\ Len(scope') = Len(scope) + 1
      /\ \A i \in 1..Len(scope) : scope'[i] = scope[i]
      /\ scope'[Len(scope) + 1] = f
  BY <1>3, <1>5, Pushed DEF Tracked, f
<1> QED BY <1>3, <1>4, <1>5, <1>6 DEF Tracked

\* Nothing is closed while a slashdash waits.
LEMMA NotArmedWhenLeft ==
    ASSUME TypeOK, armed \in BOOLEAN, NEW tok, Track(tok), ~dangled', depth' = depth - 1
    PROVE  ~armed
BY MaxBlocksAssumption DEF TypeOK, Track, Left

-----------------------------------------------------------------------------
(* Each shape of step keeps the stack in step with the counters. *)

LEMMA KeptByPlain ==
    ASSUME ParserIInv, armed \in BOOLEAN, Tracked, NEW tok, Track(tok), ~dangled',
           Plain \/ DocumentEnded, ~SlashdashSeen(tok)
    PROVE  armed' \in BOOLEAN /\ Tracked'
<1>1. depth \in Nat BY MaxBlocksAssumption DEF ParserIInv, TypeOK
<1>2. UNCHANGED <<mode, depth, slashdash_depth, child_block_at_depth>> /\ BlockFlagsStay
  BY DEF Plain, DocumentEnded, BlockFlagsStay
<1>3. event' \in QuietEvents BY DEF Plain, DocumentEnded, QuietEvents
<1>4. ~EntryDone BY <1>3, QuietEvent DEF EntryDone
<1>5. ~Entered /\ ~Left BY <1>1, <1>2 DEF Entered, Left
<1>6. armed' = armed /\ scope' = scope BY <1>4, <1>5 DEF Track
<1>7. CounterMarksHidden' BY <1>2, <1>6 DEF Tracked, CounterMarksHidden
<1>8. ShownBlockIsNoted' BY <1>2, <1>6 DEF Tracked, ShownBlockIsNoted
<1>9. FlagsFollowBlocks'
  BY <1>2, <1>6 DEF Tracked, FlagsFollowBlocks, BlockFlagsStay, BlockFlags
<1> QED BY <1>2, <1>6, <1>7, <1>8, <1>9 DEF Tracked

LEMMA KeptByArmed ==
    ASSUME ParserIInv, armed \in BOOLEAN, Tracked, NEW tok, Track(tok), ~dangled',
           Armed(tok), SlashdashSeen(tok)
    PROVE  armed' \in BOOLEAN /\ Tracked'
<1>1. depth \in Nat BY MaxBlocksAssumption DEF ParserIInv, TypeOK
<1>2. UNCHANGED <<mode, depth, child_block_at_depth>> /\ BlockFlagsStay
      /\ slashdash_depth' = IF slashdash_depth < 0 THEN depth + 1 ELSE slashdash_depth
  BY DEF Armed, HiddenFrom
<1>3. ~Entered /\ ~Left BY <1>1, <1>2 DEF Entered, Left
<1>4. armed' = TRUE /\ scope' = scope BY <1>3 DEF Track
<1>5. CounterMarksHidden' BY <1>1, <1>2, <1>4 DEF Tracked, CounterMarksHidden
<1>6. ShownBlockIsNoted'
  BY <1>1, <1>2, <1>4 DEF Tracked, ShownBlockIsNoted, CounterMarksHidden
<1>7. FlagsFollowBlocks'
  BY <1>2, <1>4 DEF Tracked, FlagsFollowBlocks, BlockFlagsStay, BlockFlags
<1> QED BY <1>2, <1>4, <1>5, <1>6, <1>7 DEF Tracked

LEMMA KeptByNodeStarted ==
    ASSUME ParserIInv, armed \in BOOLEAN, Tracked, NEW tok, Track(tok), ~dangled',
           NodeStarted, ~SlashdashSeen(tok)
    PROVE  armed' \in BOOLEAN /\ Tracked'
<1>1. depth \in Nat /\ slashdash_depth \in Int /\ waiting_type_annotation \in BOOLEAN
  BY MaxBlocksAssumption DEF ParserIInv, TypeOK
<1>2. /\ mode = "OUTSIDE_NODE" /\ mode' = "IN_NODE" /\ depth' = depth + 1
      /\ flags' = {"WHITESPACE_REQUIRED"} /\ child_block_at_depth' = child_block_at_depth
  BY DEF NodeStarted
<1>3. slashdash_depth' = slashdash_depth
  BY <1>1, StartedNode DEF Tracked, CounterMarksHidden
<1>4. depth % 2 = 0 BY <1>1, <1>2 DEF ParserIInv, ModeFollowsDepth
<1>5. /\ armed' = FALSE
      /\ scope' \in Seq(Frames) /\ Len(scope') = depth'
      /\ \A i \in 1..depth : scope'[i] = scope[i]
      /\ scope'[depth'].hidden <=> slashdash_depth > 0
      /\ scope'[depth'].block = "none"
  BY <1>2, ScopeEntered
<1>6. CounterMarksHidden' BY <1>1, <1>2, <1>3, <1>5 DEF Tracked, CounterMarksHidden
<1>7. ShownBlockIsNoted'
  <2>1. child_block_at_depth # depth \/ depth = 0
    BY <1>1, <1>4 DEF Tracked, ShownBlockIsNoted, FlagsFollowBlocks
  <2> QED BY <1>1, <1>2, <1>3, <1>5, <2>1 DEF Tracked, ShownBlockIsNoted
<1>8. FlagsFollowBlocks'
  BY <1>1, <1>2, <1>5 DEF Tracked, FlagsFollowBlocks, BlockFlags
<1> QED BY <1>5, <1>6, <1>7, <1>8 DEF Tracked

LEMMA KeptByBlockStarted ==
    ASSUME ParserIInv, armed \in BOOLEAN, Tracked, NEW tok, Track(tok), ~dangled',
           BlockStarted(tok), ~SlashdashSeen(tok)
    PROVE  armed' \in BOOLEAN /\ Tracked'
<1>1. depth \in Nat BY MaxBlocksAssumption DEF ParserIInv, TypeOK
<1>2. /\ mode = "IN_NODE" /\ mode' = "OUTSIDE_NODE" /\ depth' = depth + 1 /\ flags' = {}
      /\ child_block_at_depth' = child_block_at_depth
      /\ slashdash_depth' = slashdash_depth
      /\ "END_OF_NODE" \in flags => slashdash_depth >= 0
  BY DEF BlockStarted
<1>3. /\ armed' = FALSE
      /\ scope' \in Seq(Frames) /\ Len(scope') = depth'
      /\ \A i \in 1..depth : scope'[i] = scope[i]
      /\ scope'[depth'].hidden <=> slashdash_depth > 0
      /\ scope'[depth'].block = "none"
  BY <1>2, ScopeEntered
<1>4. CounterMarksHidden' BY <1>1, <1>2, <1>3 DEF Tracked, CounterMarksHidden
<1>5. ShownBlockIsNoted'
  <2>1. child_block_at_depth = depth /\ depth > 0 => slashdash_depth >= 0
    BY <1>1, <1>2 DEF Tracked, ShownBlockIsNoted, FlagsFollowBlocks
  <2>2. child_block_at_depth \in 1..depth => slashdash_depth \in 1..(child_block_at_depth + 1)
    BY <1>1, <2>1 DEF Tracked, ShownBlockIsNoted, CounterMarksHidden
  <2> QED BY <1>1, <1>2, <1>3, <2>2 DEF Tracked, ShownBlockIsNoted
<1>6. FlagsFollowBlocks' BY <1>1, <1>2, <1>3 DEF Tracked, FlagsFollowBlocks
<1> QED BY <1>3, <1>4, <1>5, <1>6 DEF Tracked

LEMMA KeptByNodeEnded ==
    ASSUME ParserIInv, armed \in BOOLEAN, Tracked, NEW tok, Track(tok), ~dangled',
           NodeEnded, ~SlashdashSeen(tok)
    PROVE  armed' \in BOOLEAN /\ Tracked'
<1>1. depth \in Nat /\ slashdash_depth \in Int
  BY MaxBlocksAssumption DEF ParserIInv, TypeOK
<1>2. /\ mode = "IN_NODE" /\ mode' = "OUTSIDE_NODE" /\ depth' = depth - 1 /\ flags' = {}
      /\ child_block_at_depth' = IF child_block_at_depth > depth - 1
                                 THEN -1 ELSE child_block_at_depth
  BY DEF NodeEnded
<1>3. depth % 2 = 1 /\ depth > 0 BY <1>1, <1>2 DEF ParserIInv, ModeFollowsDepth
<1>4. slashdash_depth' = IF slashdash_depth = depth THEN -1 ELSE slashdash_depth
  BY <1>1, EndedNode
<1>5. ~armed BY <1>2, NotArmedWhenLeft DEF ParserIInv
<1>6. armed' = FALSE /\ scope' = Front(scope)
  BY <1>1, <1>2, <1>5 DEF Track, Entered, Left
<1>7. /\ scope' \in Seq(Frames) /\ Len(scope') = depth'
      /\ \A i \in 1..depth' : scope'[i] = scope[i]
  BY <1>2, <1>3, <1>6, Popped DEF Tracked
<1>8. CounterMarksHidden'
  BY <1>1, <1>2, <1>3, <1>4, <1>5, <1>6, <1>7 DEF Tracked, CounterMarksHidden
<1>9. ShownBlockIsNoted'
  <2>1. child_block_at_depth' \in {-1} \cup 1..depth'
    BY <1>1, <1>2, <1>3 DEF Tracked, ShownBlockIsNoted
  <2>2. \A i \in 1..depth' : scope'[i].block = "shown" <=> child_block_at_depth' = i
    BY <1>1, <1>2, <1>3, <1>7 DEF Tracked, ShownBlockIsNoted
  <2>3. child_block_at_depth' > 0 => ~(slashdash_depth' \in 1..child_block_at_depth')
    BY <1>1, <1>2, <1>3, <1>4 DEF Tracked, ShownBlockIsNoted
  <2>4. child_block_at_depth' \in 1..(depth' - 1) =>
            slashdash_depth' \in 1..(child_block_at_depth' + 1)
    BY <1>1, <1>2, <1>3, <1>4 DEF Tracked, ShownBlockIsNoted
  <2> QED BY <2>1, <2>2, <2>3, <2>4 DEF ShownBlockIsNoted
<1>10. FlagsFollowBlocks'
  BY <1>1, <1>2, <1>7 DEF Tracked, FlagsFollowBlocks
<1> QED BY <1>6, <1>7, <1>8, <1>9, <1>10 DEF Tracked

\* Closing a block: its node is marked with it.
LEMMA ScopeAfterBlock ==
    ASSUME ParserIInv, Tracked, NEW tok, Track(tok), ~dangled',
           depth > 1, depth' = depth - 1, mode' = "IN_NODE"
    PROVE  /\ scope' \in Seq(Frames) /\ Len(scope') = depth'
           /\ \A i \in 1..(depth' - 1) : scope'[i] = scope[i]
           /\ scope'[depth'].hidden = scope[depth'].hidden
           /\ scope'[depth'].block =
                  IF ~scope[depth].hidden \/ scope[depth'].block = "shown"
                  THEN "shown" ELSE "hidden"
<1>1. depth \in Nat BY MaxBlocksAssumption DEF ParserIInv, TypeOK
<1>2. scope' = LeaveBlock(Front(scope), Last(scope))
  BY <1>1 DEF Track, Entered, Left
<1> DEFINE parents == Front(scope)
           block == Last(scope)
           owner == Last(parents)
           left == [owner EXCEPT !.block = IF ~block.hidden \/ @ = "shown"
                                           THEN "shown" ELSE "hidden"]
<1>3. /\ parents \in Seq(Frames) /\ Len(parents) = depth'
      /\ \A i \in 1..depth' : parents[i] = scope[i]
      /\ block = scope[depth]
  <2>1. scope \in Seq(Frames) /\ Len(scope) = depth /\ Len(scope) > 0
    BY <1>1 DEF Tracked
  <2> QED BY <2>1, Popped
<1>4. scope' = Append(Front(parents), left) BY <1>2 DEF LeaveBlock
<1> HIDE DEF parents, block
<1>5. /\ Front(parents) \in Seq(Frames) /\ Len(Front(parents)) = depth' - 1
      /\ \A i \in 1..(depth' - 1) : Front(parents)[i] = parents[i]
      /\ owner = parents[depth'] /\ owner \in Frames
  <2>1. parents \in Seq(Frames) /\ Len(parents) = depth' /\ Len(parents) > 0 BY <1>1, <1>3
  <2> QED BY <2>1, Popped
<1>6. depth' \in 1..depth' BY <1>1
<1>7. owner = scope[depth'] BY <1>3, <1>5, <1>6
<1>8. /\ left \in Frames /\ left.hidden = owner.hidden
      /\ left.block = IF ~block.hidden \/ owner.block = "shown" THEN "shown" ELSE "hidden"
  BY <1>5 DEF Frames, Blocks
<1> HIDE DEF left, owner
<1>9. /\ scope' \in Seq(Frames) /\ Len(scope') = depth' - 1 + 1
      /\ \A i \in 1..(depth' - 1) : scope'[i] = parents[i]
      /\ scope'[depth' - 1 + 1] = left
  BY <1>4, <1>5, <1>8, Pushed
<1>10. depth' - 1 + 1 = depth' /\ \A i \in 1..(depth' - 1) : i \in 1..depth' BY <1>1
<1> QED BY <1>3, <1>7, <1>8, <1>9, <1>10

LEMMA KeptByBlockEnded ==
    ASSUME ParserIInv, armed \in BOOLEAN, Tracked, NEW tok, Track(tok), ~dangled',
           BlockEnded, ~SlashdashSeen(tok)
    PROVE  armed' \in BOOLEAN /\ Tracked'
<1>1. depth \in Nat /\ slashdash_depth \in Int /\ child_block_at_depth \in Int
  BY MaxBlocksAssumption DEF ParserIInv, TypeOK
<1>2. /\ mode = "OUTSIDE_NODE" /\ mode' = "IN_NODE" /\ depth > 0 /\ depth' = depth - 1
      /\ flags' = IF slashdash_depth < 0 \/ child_block_at_depth = depth - 1
                  THEN {"END_OF_NODE"} ELSE {"END_OF_NODE_OR_CHILD_BLOCK"}
      /\ child_block_at_depth' = IF slashdash_depth < 0 THEN depth - 1
                                                        ELSE child_block_at_depth
      /\ slashdash_depth' = IF slashdash_depth = depth THEN -1 ELSE slashdash_depth
  BY <1>1 DEF BlockEnded, BlockEndedAt, SlashdashEndingAt
<1>3. depth % 2 = 0 BY <1>1, <1>2 DEF ParserIInv, ModeFollowsDepth
<1>4. depth > 1 /\ depth' \in Nat /\ depth' > 0 BY <1>1, <1>2, <1>3
<1>5. ~armed BY <1>2, NotArmedWhenLeft DEF ParserIInv
<1>6. armed' = FALSE BY <1>1, <1>2, <1>5 DEF Track, Entered, Left
<1>7. /\ scope' \in Seq(Frames) /\ Len(scope') = depth'
      /\ \A i \in 1..(depth' - 1) : scope'[i] = scope[i]
      /\ scope'[depth'].hidden = scope[depth'].hidden
      /\ scope'[depth'].block =
             IF ~scope[depth].hidden \/ scope[depth'].block = "shown"
             THEN "shown" ELSE "hidden"
  BY <1>2, <1>4, ScopeAfterBlock
<1>8. \A i \in 1..depth' : i # depth' => i \in 1..(depth' - 1) BY <1>1, <1>2, <1>4
<1>9. scope[depth].hidden <=> slashdash_depth > 0
  BY <1>1, <1>2, <1>5 DEF Tracked, CounterMarksHidden
<1>10. CounterMarksHidden'
  <2>1. slashdash_depth' \in -1..(depth' + 1) /\ slashdash_depth' # 0
    BY <1>1, <1>2, <1>5 DEF Tracked, CounterMarksHidden
  <2>2. \A i \in 1..depth' : scope'[i].hidden <=> scope[i].hidden
    BY <1>7, <1>8
  <2>3. \A i \in 1..depth' : scope'[i].hidden <=> slashdash_depth' \in 1..i
    BY <1>1, <1>2, <2>2 DEF Tracked, CounterMarksHidden
  <2>4. slashdash_depth' # depth' + 1
    BY <1>1, <1>2
  <2> QED BY <1>6, <2>1, <2>3, <2>4 DEF CounterMarksHidden
<1>11. scope'[depth'].block = "shown" <=>
           slashdash_depth < 0 \/ child_block_at_depth = depth - 1
  <2>1. scope[depth'].block = "shown" <=> child_block_at_depth = depth - 1
    BY <1>1, <1>2, <1>4 DEF Tracked, ShownBlockIsNoted
  <2>2. ~(slashdash_depth > 0) <=> slashdash_depth < 0
    BY <1>1 DEF Tracked, CounterMarksHidden
  <2> QED BY <1>7, <1>9, <2>1, <2>2
<1>12. ShownBlockIsNoted'
  <2>1. child_block_at_depth' = depth' <=>
            slashdash_depth < 0 \/ child_block_at_depth = depth - 1
    BY <1>1, <1>2
  <2>2. \A i \in 1..(depth' - 1) : scope'[i].block = "shown" <=> child_block_at_depth = i
    BY <1>1, <1>2, <1>7 DEF Tracked, ShownBlockIsNoted
  <2>3. slashdash_depth < 0 => child_block_at_depth \notin 1..(depth' - 1)
    BY <1>1, <1>2 DEF Tracked, ShownBlockIsNoted
  <2>4. \A i \in 1..(depth' - 1) : scope'[i].block = "shown" <=> child_block_at_depth' = i
    BY <1>1, <1>2, <2>2, <2>3
  <2>5. \A i \in 1..depth' : scope'[i].block = "shown" <=> child_block_at_depth' = i
    BY <1>11, <1>8, <2>1, <2>4
  <2>6. child_block_at_depth # depth
    BY <1>1, <1>2, <1>3 DEF Tracked, ShownBlockIsNoted, FlagsFollowBlocks
  <2>7. child_block_at_depth' \in {-1} \cup 1..depth'
    BY <1>1, <1>2, <1>4, <2>6 DEF Tracked, ShownBlockIsNoted
  <2>8. child_block_at_depth' > 0 => ~(slashdash_depth' \in 1..child_block_at_depth')
    BY <1>1, <1>2 DEF Tracked, ShownBlockIsNoted
  <2>9. child_block_at_depth' \in 1..(depth' - 1) =>
            slashdash_depth' \in 1..(child_block_at_depth' + 1)
    BY <1>1, <1>2, <1>4 DEF Tracked, ShownBlockIsNoted
  <2> QED BY <2>5, <2>7, <2>8, <2>9 DEF ShownBlockIsNoted
<1>13. FlagsFollowBlocks'
  <2>1. \A i \in 1..depth' : i % 2 = 0 => i \in 1..(depth' - 1)
    BY <1>1, <1>2, <1>3
  <2>2. \A i \in 1..depth' : i % 2 = 0 => scope'[i].block = "none"
    BY <1>1, <1>2, <1>7, <2>1 DEF Tracked, FlagsFollowBlocks
  <2>3. flags' \cap BlockFlags # {} /\ "MAYBE_IN_PROPERTY" \notin flags'
    BY <1>2 DEF BlockFlags
  <2>4. scope'[depth'].block = "shown" => "END_OF_NODE" \in flags'
    BY <1>2, <1>11
  <2> QED BY <2>2, <2>3, <2>4 DEF FlagsFollowBlocks
<1> QED BY <1>6, <1>7, <1>10, <1>12, <1>13 DEF Tracked

LEMMA KeptByEntryRead ==
    ASSUME ParserIInv, armed \in BOOLEAN, Tracked, NEW tok, Track(tok), ~dangled',
           EntryRead, ~SlashdashSeen(tok)
    PROVE  armed' \in BOOLEAN /\ Tracked' /\ scope[depth].block = "none"
<1>1. depth \in Nat /\ slashdash_depth \in Int
  BY MaxBlocksAssumption DEF ParserIInv, TypeOK
<1>2. /\ mode = "IN_NODE" /\ flags' \subseteq {"WHITESPACE_REQUIRED"}
      /\ UNCHANGED <<mode, depth, child_block_at_depth>>
      /\ "MAYBE_IN_PROPERTY" \in flags \/ flags \cap BlockFlags = {}
  BY DEF EntryRead
<1>3. depth > 0 BY <1>1, <1>2 DEF ParserIInv, ModeFollowsDepth
<1>4. /\ event'.kind \in {"ARGUMENT", "PROPERTY"}
      /\ slashdash_depth' = IF slashdash_depth = depth + 1 THEN -1 ELSE slashdash_depth
  BY <1>1, ReadEntry
<1>5. EntryDone /\ ~Entered /\ ~Left BY <1>1, <1>2, <1>4 DEF EntryDone, Entered, Left
<1>6. armed' = FALSE /\ scope' = scope BY <1>5 DEF Track
<1>7. scope[depth].block = "none" BY <1>2 DEF Tracked, FlagsFollowBlocks
<1>8. CounterMarksHidden' BY <1>1, <1>2, <1>4, <1>6 DEF Tracked, CounterMarksHidden
<1>9. ShownBlockIsNoted'
  BY <1>1, <1>2, <1>4, <1>6 DEF Tracked, ShownBlockIsNoted, CounterMarksHidden
<1>10. FlagsFollowBlocks'
  BY <1>2, <1>6, <1>7 DEF Tracked, FlagsFollowBlocks, BlockFlags
<1> QED BY <1>2, <1>6, <1>7, <1>8, <1>9, <1>10 DEF Tracked

-----------------------------------------------------------------------------
(* The invariant is inductive. *)

LEMMA SlashdashIInvInit == SlashdashInit => SlashdashIInv
<1> SUFFICES ASSUME SlashdashInit PROVE SlashdashIInv OBVIOUS
<1>1. ParserIInv BY ParserIInvInit DEF SlashdashInit
<1>2. /\ depth = 0 /\ slashdash_depth = -1 /\ child_block_at_depth = -1 /\ flags = {}
      /\ mode = "OUTSIDE_NODE" /\ scope = <<>> /\ armed = FALSE /\ dangled = FALSE
  BY DEF SlashdashInit, Init
<1>3. scope \in Seq(Frames) /\ Len(scope) = 0 BY <1>2
<1>4. Tracked
  BY <1>2, <1>3 DEF Tracked, CounterMarksHidden, ShownBlockIsNoted, FlagsFollowBlocks
<1> QED BY <1>1, <1>2, <1>4 DEF SlashdashIInv

LEMMA SlashdashIInvStep == SlashdashIInv /\ [SlashdashNext]_slashdashVars => SlashdashIInv'
<1> SUFFICES ASSUME SlashdashIInv, [SlashdashNext]_slashdashVars PROVE SlashdashIInv'
  OBVIOUS
<1>1. CASE UNCHANGED slashdashVars
  <2>1. ParserIInv' BY <1>1, ParserIInvStutter DEF SlashdashIInv, slashdashVars
  <2>2. Tracked => Tracked'
    BY <1>1 DEF slashdashVars, parserVars, place, waiting, lexer, Tracked,
                CounterMarksHidden, ShownBlockIsNoted, FlagsFollowBlocks
  <2> QED BY <1>1, <2>1, <2>2 DEF slashdashVars, SlashdashIInv
<1>2. CASE SlashdashStep
  <2>1. PICK tok \in Handled : StepOn(tok) /\ Track(tok) BY <1>2, TrackedStep
  <2>2. ParserIInv' BY <2>1, ParserIInvStep DEF SlashdashIInv
  <2>3. dangled' = (dangled \/ (Left /\ armed)) BY <2>1 DEF Track
  <2>4. CASE dangled'
    <3>1. armed' = FALSE BY <2>1, <2>4 DEF Track
    <3> QED BY <2>2, <2>3, <2>4, <3>1 DEF SlashdashIInv
  <2>5. CASE ~dangled'
    <3>1. ~dangled /\ ParserIInv /\ TypeOK /\ armed \in BOOLEAN /\ Tracked
      BY <2>3, <2>5 DEF SlashdashIInv, ParserIInv
    <3>2. armed' \in BOOLEAN /\ Tracked'
      <4>1. CASE Armed(tok) /\ SlashdashSeen(tok)
        BY <2>1, <2>5, <3>1, <4>1, KeptByArmed
      <4>2. CASE (Plain \/ DocumentEnded) /\ ~SlashdashSeen(tok)
        BY <2>1, <2>5, <3>1, <4>2, KeptByPlain
      <4>3. CASE NodeStarted /\ ~SlashdashSeen(tok)
        BY <2>1, <2>5, <3>1, <4>3, KeptByNodeStarted
      <4>4. CASE NodeEnded /\ ~SlashdashSeen(tok)
        BY <2>1, <2>5, <3>1, <4>4, KeptByNodeEnded
      <4>5. CASE BlockStarted(tok) /\ ~SlashdashSeen(tok)
        BY <2>1, <2>5, <3>1, <4>5, KeptByBlockStarted
      <4>6. CASE BlockEnded /\ ~SlashdashSeen(tok)
        BY <2>1, <2>5, <3>1, <4>6, KeptByBlockEnded
      <4>7. CASE EntryRead /\ ~SlashdashSeen(tok)
        BY <2>1, <2>5, <3>1, <4>7, KeptByEntryRead
      <4>8. \/ Armed(tok) /\ SlashdashSeen(tok)
            \/ /\ ~SlashdashSeen(tok)
               /\ \/ Plain \/ NodeStarted \/ NodeEnded \/ BlockStarted(tok)
                  \/ BlockEnded \/ EntryRead \/ DocumentEnded
        BY <2>1, <3>1, ArmedOrNot
      <4> QED BY <4>1, <4>2, <4>3, <4>4, <4>5, <4>6, <4>7, <4>8
    <3> QED BY <2>2, <2>3, <2>5, <3>2 DEF SlashdashIInv
  <2> QED BY <2>4, <2>5
<1> QED BY <1>1, <1>2 DEF SlashdashNext

LEMMA SlashdashIInvAlways == SlashdashSpec => []SlashdashIInv
BY SlashdashIInvInit, SlashdashIInvStep, PTL DEF SlashdashSpec

-----------------------------------------------------------------------------
(* The theorems. *)

LEMMA CounterFollows == SlashdashIInv => CounterIsOutermostHidden
<1> SUFFICES ASSUME SlashdashIInv, ~dangled
             PROVE  /\ Len(scope) = depth
                    /\ LET hidden == {i \in 1..depth : scope[i].hidden} IN
                       slashdash_depth = CASE hidden # {} -> Min(hidden)
                                           [] hidden = {} /\ armed -> depth + 1
                                           [] OTHER -> -1
  BY DEF CounterIsOutermostHidden
<1> DEFINE hidden == {i \in 1..depth : scope[i].hidden}
<1>1. depth \in Nat BY MaxBlocksAssumption DEF SlashdashIInv, ParserIInv, TypeOK
<1>2. Len(scope) = depth /\ CounterMarksHidden BY DEF SlashdashIInv, Tracked
<1>3. hidden = {i \in 1..depth : slashdash_depth \in 1..i}
  BY <1>2 DEF CounterMarksHidden
<1>4. CASE slashdash_depth \in 1..depth
  <2>1. slashdash_depth \in hidden /\ \A i \in hidden : slashdash_depth <= i
    BY <1>1, <1>3, <1>4
  <2>2. \A m \in hidden : (\A i \in hidden : m <= i) => m = slashdash_depth
    BY <1>1, <1>3, <1>4, <2>1
  <2>3. slashdash_depth = Min(hidden) BY <2>1, <2>2 DEF Min
  <2>4. hidden # {} BY <2>1
  <2> HIDE DEF hidden
  <2> QED BY <1>2, <2>3, <2>4 DEF hidden
<1>5. CASE slashdash_depth \notin 1..depth
  <2>1. hidden = {} BY <1>1, <1>2, <1>3, <1>5 DEF CounterMarksHidden
  <2>2. slashdash_depth = IF armed THEN depth + 1 ELSE -1
    BY <1>1, <1>2, <1>5 DEF CounterMarksHidden
  <2> HIDE DEF hidden
  <2> QED BY <1>2, <2>1, <2>2 DEF hidden
<1> QED BY <1>4, <1>5

\* slashdash_depth, the one integer _apply_slashdash decides by, is at all times the depth
\* of the outermost element that /- hides, or will hide.
THEOREM CounterIsRight == SlashdashSpec => []CounterIsOutermostHidden
BY SlashdashIInvAlways, CounterFollows, PTL

\* An event is made a comment exactly when it belongs to what /- hides.
THEOREM OnlyTheHiddenIsRemoved == SlashdashSpec => ExactlyTheHiddenIsRemoved
<1> DEFINE Right == ~dangled' =>
        CASE event'.kind = "END_NODE" -> event'.slashdashed = Last(scope).hidden
          [] event'.kind \in {"START_NODE", "ARGUMENT", "PROPERTY"} ->
                 event'.slashdashed = Hidden
          [] OTHER -> TRUE
<1>1. ASSUME SlashdashIInv, SlashdashStep PROVE Right
  <2> SUFFICES ASSUME ~dangled'
               PROVE  CASE event'.kind = "END_NODE" -> event'.slashdashed = Last(scope).hidden
                        [] event'.kind \in {"START_NODE", "ARGUMENT", "PROPERTY"} ->
                               event'.slashdashed = Hidden
                        [] OTHER -> TRUE
    OBVIOUS
  <2>1. PICK tok \in Handled : StepOn(tok) /\ Track(tok) BY <1>1, TrackedStep
  <2>2. ~dangled /\ ParserIInv /\ TypeOK /\ armed \in BOOLEAN /\ Tracked
    BY <1>1, <2>1 DEF SlashdashIInv, ParserIInv, Track
  <2>3. depth \in Nat /\ slashdash_depth \in Int /\ waiting_type_annotation \in BOOLEAN
    BY <2>2, MaxBlocksAssumption DEF TypeOK
  <2>4. /\ Hidden \in BOOLEAN /\ (Hidden <=> slashdash_depth >= 0)
        /\ depth > 0 => (Last(scope).hidden <=> slashdash_depth \in 1..depth)
    BY <2>2, HiddenIsActive
  <2>5. CASE NodeStarted \/ EntryRead
    <3>1. /\ event'.kind \in {"START_NODE", "ARGUMENT", "PROPERTY"}
          /\ event' \in EventRecords
          /\ event'.slashdashed <=> slashdash_depth >= 0
      BY <2>3, <2>5, StartedNode, ReadEntry
    <3>2. event'.slashdashed \in BOOLEAN BY <3>1 DEF EventRecords
    <3>3. event'.slashdashed = Hidden BY <2>4, <3>1, <3>2
    <3> QED BY <3>1, <3>3
  <2>6. CASE NodeEnded
    <3>1. /\ event'.kind = "END_NODE" /\ event' \in EventRecords
          /\ event'.slashdashed <=> slashdash_depth >= 0
      BY <2>3, <2>6, EndedNode
    <3>2. event'.slashdashed \in BOOLEAN BY <3>1 DEF EventRecords
    <3>3. depth' = depth - 1 /\ depth > 0
      BY <2>2, <2>3, <2>6 DEF NodeEnded, ParserIInv, ModeFollowsDepth
    <3>4. ~armed BY <2>1, <2>2, <3>3, NotArmedWhenLeft
    <3>5. slashdash_depth >= 0 <=> slashdash_depth \in 1..depth
      BY <2>2, <2>3, <3>4 DEF Tracked, CounterMarksHidden
    <3>6. Last(scope).hidden \in BOOLEAN
      BY <2>2, <3>3, Popped DEF Tracked, Frames
    <3>7. event'.slashdashed = Last(scope).hidden
      BY <2>4, <3>1, <3>2, <3>3, <3>5, <3>6
    <3> QED BY <3>1, <3>7
  <2>7. CASE event' \in QuietEvents
    <3>1. event'.kind \in {"NONE", "PARSE_ERROR", "EOF", "COMMENT"} BY <2>7, QuietEvent
    <3> QED BY <3>1
  <2>8. Shape(tok) BY <2>1, <2>2, StepShape
  <2> QED BY <2>5, <2>6, <2>7, <2>8
          DEF Shape, Plain, Armed, BlockStarted, BlockEnded, DocumentEnded, QuietEvents
<1>2. SlashdashIInv /\ [SlashdashNext]_slashdashVars => [Right]_slashdashVars
  BY <1>1 DEF SlashdashNext
<1> QED BY <1>2, SlashdashIInvAlways, PTL DEF SlashdashSpec, ExactlyTheHiddenIsRemoved

\* Of the children blocks of a node that is shown one at most is shown, and its arguments
\* and properties all come before any block.
THEOREM BlocksComeOnceAndLast == SlashdashSpec => OneShownBlockAfterTheEntries
<1> DEFINE Right == ~dangled' /\ mode = "IN_NODE" /\ ~Hidden =>
        /\ Entered => Last(scope).block # "shown"
        /\ EntryDone => Last(scope).block = "none"
<1>1. ASSUME SlashdashIInv, SlashdashStep PROVE Right
  <2> SUFFICES ASSUME ~dangled', mode = "IN_NODE", ~Hidden
               PROVE  /\ Entered => Last(scope).block # "shown"
                      /\ EntryDone => Last(scope).block = "none"
    OBVIOUS
  <2>1. PICK tok \in Handled : StepOn(tok) /\ Track(tok) BY <1>1, TrackedStep
  <2>2. ~dangled /\ ParserIInv /\ TypeOK /\ armed \in BOOLEAN /\ Tracked
    BY <1>1, <2>1 DEF SlashdashIInv, ParserIInv, Track
  <2>3. depth \in Nat /\ slashdash_depth \in Int
    BY <2>2, MaxBlocksAssumption DEF TypeOK
  <2>4. ~(slashdash_depth >= 0) BY <2>2, HiddenIsActive
  <2>5. Last(scope) = scope[depth] BY <2>2 DEF Tracked, Last
  <2>6. CASE EntryRead
    <3>1. depth' = depth BY <2>6 DEF EntryRead
    <3>2. "MAYBE_IN_PROPERTY" \in flags \/ flags \cap BlockFlags = {}
      BY <2>6 DEF EntryRead
    <3>3. scope[depth].block = "none" BY <2>2, <3>2 DEF Tracked, FlagsFollowBlocks
    <3> QED BY <2>3, <2>5, <3>1, <3>3 DEF Entered
  <2>7. CASE BlockStarted(tok)
    <3>1. "END_OF_NODE" \notin flags BY <2>4, <2>7 DEF BlockStarted
    <3>2. scope[depth].block # "shown" BY <2>2, <3>1 DEF Tracked, FlagsFollowBlocks
    <3>3. event'.kind = "NONE" BY <2>7 DEF BlockStarted, NoEvent, Event
    <3> QED BY <2>5, <3>2, <3>3 DEF EntryDone
  <2>8. CASE NodeEnded
    <3>1. event'.kind = "END_NODE" /\ depth' = depth - 1
      BY <2>3, <2>8, EndedNode DEF NodeEnded
    <3> QED BY <2>3, <3>1 DEF Entered, EntryDone
  <2>9. CASE Plain \/ Armed(tok)
    <3>1. depth' = depth /\ event' \in QuietEvents
      BY <2>9 DEF Plain, Armed, QuietEvents
    <3>2. event'.kind \in {"NONE", "PARSE_ERROR", "EOF", "COMMENT"} BY <3>1, QuietEvent
    <3> QED BY <2>3, <3>1, <3>2 DEF Entered, EntryDone
  <2>10. Shape(tok) BY <2>1, <2>2, StepShape
  <2> QED BY <2>6, <2>7, <2>8, <2>9, <2>10
          DEF Shape, NodeStarted, BlockEnded, DocumentEnded
<1>2. SlashdashIInv /\ [SlashdashNext]_slashdashVars => [Right]_slashdashVars
  BY <1>1 DEF SlashdashNext
<1> QED BY <1>2, SlashdashIInvAlways, PTL DEF SlashdashSpec, OneShownBlockAfterTheEntries
=============================================================================
