--------------------------- MODULE KdlDataProofs ---------------------------
(***************************************************************************)
(* What the program computes from one piece of data, for pieces of every   *)
(* length: the properties of a node, as ckdl-cat writes them; what is put  *)
(* into a write buffer; the documents that are made of events; numbers in  *)
(* limbs; strings in quotes, and the values that texts stand for while the *)
(* version of a document is being detected.                                *)
(***************************************************************************)
EXTENDS KdlData, KdlProplistProofs, FunctionTheorems

\* Properties as they are in the list of a node.
Listed == [name : Nat \ {NoName}, value : Nat]

PropertiesIInv == subject = "properties" => input \in Seq(Listed)

LEMMA PlacedIsListed ==
    ASSUME NEW element \in Elements["properties"], subject = "properties",
           input \in Seq(Listed)
    PROVE  Placed(element) \in Listed
<1> DEFINE n == Len(input) + 1
<1>1. element \in [name : Nat \ {NoName}] BY PropertiesAssumption
<1>2. n \in Nat BY LenProperties
<1>3. DOMAIN element = {"name"} BY <1>1
<1>4. Placed(element) = [k \in {"name", "value"} |-> IF k = "value" THEN n ELSE element[k]]
  <2>1. DOMAIN element \cup {"value"} = {"name", "value"} BY <1>3
  <2> QED BY <2>1 DEF Placed
<1>5. element["name"] = element.name OBVIOUS
<1> HIDE DEF n
<1>6. Placed(element) = [name |-> element.name, value |-> n]
  BY <1>4, <1>5
<1> QED BY <1>1, <1>2, <1>6 DEF Listed

LEMMA PropertiesInvariant == DataSpec => []PropertiesIInv
<1>1. DataInit => PropertiesIInv BY EmptySeq DEF DataInit, PropertiesIInv
<1>2. PropertiesIInv /\ [Extend]_dataVars => PropertiesIInv'
  <2> SUFFICES ASSUME PropertiesIInv, [Extend]_dataVars, subject' = "properties"
               PROVE  input' \in Seq(Listed)
    BY DEF PropertiesIInv
  <2>1. CASE Extend
    <3>1. subject = "properties" BY <2>1 DEF Extend
    <3>2. input \in Seq(Listed) BY <3>1 DEF PropertiesIInv
    <3>3. PICK element \in Elements["properties"] : input' = Append(input, Placed(element))
      BY <2>1, <3>1 DEF Extend
    <3>4. Placed(element) \in Listed BY <3>1, <3>2, PlacedIsListed
    <3> QED BY <3>2, <3>3, <3>4, AppendProperties
  <2>2. CASE UNCHANGED dataVars BY <2>2 DEF dataVars, PropertiesIInv
  <2> QED BY <2>1, <2>2
<1> QED BY <1>1, <1>2, PTL DEF DataSpec

\* ckdl-cat.c:217: the merge sort of proplist_emit keeps its promise for lists of
\* properties of every length.
THEOREM PropertiesAreWrittenInOrder == DataSpec => []EmitsInOrderWithoutDuplicates
<1>1. PropertiesIInv => EmitsInOrderWithoutDuplicates
  <2> SUFFICES ASSUME PropertiesIInv, subject = "properties"
               PROVE  InOrderWithoutDuplicates(Emission(input), input)
    BY DEF EmitsInOrderWithoutDuplicates
  <2>1. input \in Seq(Listed) BY DEF PropertiesIInv
  <2>2. \A p \in Listed : p.name \in Nat \ {0} BY DEF Listed, NoName
  <2> QED BY <2>1, <2>2, WrittenInOrder
<1> QED BY <1>1, PropertiesInvariant, PTL

\* proplist_clear frees the first of the array that still have a name: for lists of
\* every length nothing that it has to free is behind a hole.
THEOREM FreeableInFront == DataSpec => []HoldsFreeableInFront
<1>1. PropertiesIInv => HoldsFreeableInFront
  <2> SUFFICES ASSUME PropertiesIInv, subject = "properties" PROVE HolesComeLast(Sorted(input))
    BY DEF HoldsFreeableInFront
  <2>1. input \in Seq(Listed) BY DEF PropertiesIInv
  <2>2. \A p \in Listed : p.name \in Nat \ {0} BY DEF Listed, NoName
  <2> QED BY <2>1, <2>2, HolesAreBehind
<1> QED BY <1>1, PropertiesInvariant, PTL

-----------------------------------------------------------------------------
(* Write buffers. *)

Buffers == [buf_len : Nat, str_len : Nat]
Roomy(buf) == buf \in Buffers /\ buf.str_len <= buf.buf_len

\* The states of the loop over the first n of a list of pushes
ArePushed(f, size, pushes, n) ==
    f = [i \in 0..n |-> IF i = 0 THEN NewWriteBuffer(size) ELSE Push(f[i - 1], pushes[i])]

LEMMA PushesAreDone ==
    ASSUME NEW size, NEW pushes, NEW n \in Nat
    PROVE  \E f : ArePushed(f, size, pushes, n)
<1> DEFINE Runs(m, f) == ArePushed(f, size, pushes, m)
           T == {m \in 0..n : \E f : Runs(m, f)}
<1>1. 0 \in T
  <2> DEFINE f == [i \in 0..0 |-> NewWriteBuffer(size)]
  <2>1. Runs(0, f) BY DEF ArePushed
  <2> HIDE DEF f, Runs
  <2> QED BY <2>1
<1>2. ASSUME NEW m \in 1..n, m - 1 \in T PROVE m \in T
  <2>1. PICK f : Runs(m - 1, f) BY <1>2
  <2> DEFINE g == [i \in 0..m |-> IF i < m THEN f[i] ELSE Push(f[m - 1], pushes[m])]
  <2>2. \A i \in 0..(m - 1) : f[i] = IF i = 0 THEN NewWriteBuffer(size)
                                    ELSE Push(f[i - 1], pushes[i])
    BY <2>1 DEF ArePushed
  <2>3. \A i \in 0..m : g[i] = IF i = 0 THEN NewWriteBuffer(size) ELSE Push(g[i - 1], pushes[i])
    <3> SUFFICES ASSUME NEW i \in 0..m
                 PROVE  g[i] = IF i = 0 THEN NewWriteBuffer(size) ELSE Push(g[i - 1], pushes[i])
      OBVIOUS
    <3>1. CASE i = m
      <4>1. g[m - 1] = f[m - 1] OBVIOUS
      <4> QED BY <3>1, <4>1
    <3>2. CASE i < m /\ i # 0
      <4>1. g[i - 1] = f[i - 1] /\ g[i] = f[i] BY <3>2
      <4> QED BY <2>2, <3>2, <4>1
    <3>3. CASE i = 0 BY <2>2, <3>3
    <3> QED BY <3>1, <3>2, <3>3
  <2>4. g = [i \in 0..m |-> g[i]] OBVIOUS
  <2> HIDE DEF g
  <2>5. Runs(m, g) BY <2>3, <2>4 DEF ArePushed
  <2> HIDE DEF Runs
  <2> QED BY <2>5
<1> HIDE DEF T
<1>3. 0..n \subseteq T BY <1>1, <1>2, UpTo
<1>4. n \in T BY <1>3
<1> QED BY <1>4 DEF T

\* What one more push does comes after what all before it did.
LEMMA PushedOnceMore ==
    ASSUME NEW size, NEW S, NEW pushes \in Seq(S), NEW push \in S
    PROVE  /\ Pushed(size, <<>>) = NewWriteBuffer(size)
           /\ Pushed(size, Append(pushes, push)) = Push(Pushed(size, pushes), push)
<1> DEFINE longer == Append(pushes, push)
           n == Len(pushes)
           Runs(list, f) == ArePushed(f, size, list, Len(list))
           after(list) == CHOOSE f : Runs(list, f)
<1>0. \A list : Pushed(size, list) = after(list)[Len(list)]
  BY DEF Pushed, ArePushed
<1>1. n \in Nat /\ Len(longer) = n + 1 /\ longer[n + 1] = push
      /\ \A i \in 1..n : longer[i] = pushes[i]
  BY LenProperties, AppendProperties
<1>2. ASSUME NEW list, Len(list) \in Nat PROVE Runs(list, after(list))
  <2>1. \E f : Runs(list, f) BY <1>2, PushesAreDone
  <2> HIDE DEF Runs
  <2> QED BY <2>1
<1>3. Pushed(size, <<>>) = NewWriteBuffer(size)
  <2>1. Len(<<>>) = 0 BY EmptySeq
  <2>2. Runs(<<>>, after(<<>>)) BY <1>2, <2>1
  <2> HIDE DEF after
  <2>3. after(<<>>)[0] = NewWriteBuffer(size) BY <2>1, <2>2 DEF ArePushed
  <2> QED BY <1>0, <2>1, <2>3
<1>4. Pushed(size, longer) = Push(Pushed(size, pushes), push)
  <2> DEFINE f == after(pushes)
             g == after(longer)
             Same == {i \in 0..n : g[i] = f[i]}
  <2>1. Runs(pushes, f) /\ Runs(longer, g)
    <3> HIDE DEF Runs, after, longer, n
    <3>1. Len(longer) \in Nat /\ Len(pushes) \in Nat BY <1>1 DEF n
    <3> QED BY <1>2, <3>1
  <2>2. Pushed(size, pushes) = f[n] /\ Pushed(size, longer) = g[n + 1] BY <1>0, <1>1
  <2> HIDE DEF f, g, longer, n, after
  <2>3. \A i \in 0..n : f[i] = IF i = 0 THEN NewWriteBuffer(size) ELSE Push(f[i - 1], pushes[i])
    BY <2>1 DEF n, ArePushed
  <2>4. \A i \in 0..(n + 1) : g[i] = IF i = 0 THEN NewWriteBuffer(size)
                                    ELSE Push(g[i - 1], longer[i])
    BY <2>1, <1>1 DEF ArePushed
  <2>5. 0 \in Same BY <2>3, <2>4, <1>1
  <2>6. ASSUME NEW k \in 1..n, k - 1 \in Same PROVE k \in Same
    <3>1. g[k - 1] = f[k - 1] /\ longer[k] = pushes[k] BY <2>6, <1>1
    <3>2. f[k] = Push(f[k - 1], pushes[k]) BY <2>3, <1>1
    <3>3. g[k] = Push(g[k - 1], longer[k]) BY <2>4, <1>1
    <3> QED BY <3>1, <3>2, <3>3, <1>1
  <2> HIDE DEF Same
  <2>7. 0..n \subseteq Same BY <1>1, <2>5, <2>6, UpTo
  <2>8. g[n] = f[n] BY <1>1, <2>7 DEF Same
  <2>9. g[n + 1] = Push(g[n], push) BY <1>1, <2>4
  <2> QED BY <2>2, <2>8, <2>9
<1> QED BY <1>3, <1>4

LEMMA PushKeepsRoom ==
    ASSUME NEW buf, Roomy(buf), NEW push \in Pushes
    PROVE  Roomy(Push(buf, push))
<1>1. /\ push.kind \in {"CHARS", "CODEPOINT"} /\ push.count \in Nat
      /\ push.kind = "CODEPOINT" => push.count <= 4
  BY DEF Pushes
<1>2. ASSUME NEW count \in Nat
      PROVE  /\ Roomy(WithRoomFor(buf, count))
             /\ WithRoomFor(buf, count).str_len = buf.str_len
             /\ WithRoomFor(buf, count).buf_len - buf.str_len >= count
  <2> DEFINE more == Max({BufferIncrement, count})
  <2>1. more \in Nat /\ more >= count
    <3>1. \E x \in {BufferIncrement, count} : \A y \in {BufferIncrement, count} : x >= y
      BY BufferIncrementAssumption
    <3>2. more \in {BufferIncrement, count} /\ \A y \in {BufferIncrement, count} : more >= y
      BY <3>1 DEF Max
    <3> QED BY <3>2, BufferIncrementAssumption
  <2>2. WithRoomFor(buf, count) =
           IF buf.buf_len - buf.str_len < count THEN [buf EXCEPT !.buf_len = @ + more] ELSE buf
    BY DEF WithRoomFor
  <2> HIDE DEF more
  <2> QED BY <2>1, <2>2 DEF Roomy, Buffers
<1>3. ASSUME NEW room \in Buffers, NEW count \in Nat, NEW width \in Nat, width <= count,
             Roomy(room), room.buf_len - room.str_len >= count
      PROVE  Roomy([room EXCEPT !.str_len = @ + width])
  BY <1>3 DEF Roomy, Buffers
<1>4. CASE push.kind = "CHARS"
  <2> DEFINE room == WithRoomFor(buf, push.count)
  <2>1. Roomy(room) /\ room \in Buffers /\ room.buf_len - room.str_len >= push.count
    BY <1>1, <1>2 DEF Roomy
  <2>2. Push(buf, push) = [room EXCEPT !.str_len = @ + push.count] BY <1>4 DEF Push, PushChars
  <2> HIDE DEF room
  <2> QED BY <1>1, <1>3, <2>1, <2>2
<1>5. CASE push.kind = "CODEPOINT"
  <2> DEFINE room == WithRoomFor(buf, 4)
  <2>1. Roomy(room) /\ room \in Buffers /\ room.buf_len - room.str_len >= 4
    BY <1>2 DEF Roomy
  <2>2. Push(buf, push) = [room EXCEPT !.str_len = @ + push.count]
    BY <1>5 DEF Push, PushCodepoint
  <2> HIDE DEF room
  <2> QED BY <1>1, <1>3, <1>5, <2>1, <2>2
<1> QED BY <1>1, <1>4, <1>5

\* Whatever the size of the buffer was, what was pushed is in it.
PushesIInv ==
    subject = "pushes" => input \in Seq(Pushes) /\ \A size \in Nat : Roomy(Pushed(size, input))

LEMMA PushesInvariant == DataSpec => []PushesIInv
<1>1. DataInit => PushesIInv
  <2> SUFFICES ASSUME DataInit, NEW size \in Nat PROVE Roomy(Pushed(size, input))
    BY EmptySeq DEF DataInit, PushesIInv
  <2>1. input = <<>> /\ <<>> \in Seq({<<>>}) BY EmptySeq DEF DataInit
  <2>2. Pushed(size, input) = NewWriteBuffer(size) BY <2>1, PushedOnceMore
  <2> QED BY <2>2 DEF NewWriteBuffer, Roomy, Buffers
<1>2. PushesIInv /\ [Extend]_dataVars => PushesIInv'
  <2> SUFFICES ASSUME PushesIInv, [Extend]_dataVars, subject' = "pushes"
               PROVE  input' \in Seq(Pushes) /\ \A size \in Nat : Roomy(Pushed(size, input'))
    BY DEF PushesIInv
  <2>1. CASE Extend
    <3>1. subject = "pushes" BY <2>1 DEF Extend
    <3>2. input \in Seq(Pushes) /\ \A size \in Nat : Roomy(Pushed(size, input))
      BY <3>1 DEF PushesIInv
    <3>3. PICK push \in Elements["pushes"] : input' = Append(input, Placed(push))
      BY <2>1, <3>1 DEF Extend
    <3>4. push \in Pushes /\ Placed(push) = push BY <3>1, <3>3, PushesAssumption DEF Placed
    <3>5. input' = Append(input, push) BY <3>3, <3>4
    <3>6. input' \in Seq(Pushes) BY <3>2, <3>4, <3>5, AppendProperties
    <3>7. ASSUME NEW size \in Nat PROVE Roomy(Pushed(size, input'))
      <4>1. Pushed(size, input') = Push(Pushed(size, input), push)
        BY <3>2, <3>4, <3>5, PushedOnceMore
      <4> QED BY <3>2, <3>4, <4>1, PushKeepsRoom
    <3> QED BY <3>6, <3>7
  <2>2. CASE UNCHANGED dataVars BY <2>2 DEF dataVars, PushesIInv
  <2> QED BY <2>1, <2>2
<1> QED BY <1>1, <1>2, PTL DEF DataSpec

\* str.c:61, 79: however much is put into a write buffer, piece by piece, and whatever
\* its size and its increment, what is in use is never more than there is.
THEOREM BuffersHold == DataSpec => []WritesStayInTheBuffer
<1>1. PushesIInv => WritesStayInTheBuffer
  <2> SUFFICES ASSUME PushesIInv, subject = "pushes", NEW size \in 0..MaxLength["pushes"]
               PROVE  Pushed(size, input).str_len <= Pushed(size, input).buf_len
    BY DEF WritesStayInTheBuffer
  <2>1. size \in Nat BY PushesAssumption
  <2> QED BY <2>1 DEF PushesIInv, Roomy
<1> QED BY <1>1, PushesInvariant, PTL

-----------------------------------------------------------------------------
(* Documents: what the two readers do. *)

\* The states of the loop of Document::read_from over the first n events
AreRead(f, events, n) ==
    f = [i \in 0..n |-> IF i = 0 THEN NewReader ELSE Read(f[i - 1], events[i])]

LEMMA EventsAreRead ==
    ASSUME NEW events, NEW n \in Nat
    PROVE  \E f : AreRead(f, events, n)
<1> DEFINE Runs(m, f) == AreRead(f, events, m)
           T == {m \in 0..n : \E f : Runs(m, f)}
<1>1. 0 \in T
  <2> DEFINE f == [i \in 0..0 |-> NewReader]
  <2>1. Runs(0, f) BY DEF AreRead
  <2> HIDE DEF f, Runs
  <2> QED BY <2>1
<1>2. ASSUME NEW m \in 1..n, m - 1 \in T PROVE m \in T
  <2>1. PICK f : Runs(m - 1, f) BY <1>2
  <2> DEFINE g == [i \in 0..m |-> IF i < m THEN f[i] ELSE Read(f[m - 1], events[m])]
  <2>2. \A i \in 0..(m - 1) : f[i] = IF i = 0 THEN NewReader
                                    ELSE Read(f[i - 1], events[i])
    BY <2>1 DEF AreRead
  <2>3. \A i \in 0..m : g[i] = IF i = 0 THEN NewReader ELSE Read(g[i - 1], events[i])
    <3> SUFFICES ASSUME NEW i \in 0..m
                 PROVE  g[i] = IF i = 0 THEN NewReader ELSE Read(g[i - 1], events[i])
      OBVIOUS
    <3>1. CASE i = m
      <4>1. g[m - 1] = f[m - 1] OBVIOUS
      <4> QED BY <3>1, <4>1
    <3>2. CASE i < m /\ i # 0
      <4>1. g[i - 1] = f[i - 1] /\ g[i] = f[i] BY <3>2
      <4> QED BY <2>2, <3>2, <4>1
    <3>3. CASE i = 0 BY <2>2, <3>3
    <3> QED BY <3>1, <3>2, <3>3
  <2>4. g = [i \in 0..m |-> g[i]] OBVIOUS
  <2> HIDE DEF g
  <2>5. Runs(m, g) BY <2>3, <2>4 DEF AreRead
  <2> HIDE DEF Runs
  <2> QED BY <2>5
<1> HIDE DEF T
<1>3. 0..n \subseteq T BY <1>1, <1>2, UpTo
<1>4. n \in T BY <1>3
<1> QED BY <1>4 DEF T

\* What one more event does comes after what all before it did.
LEMMA ReadOnceMore ==
    ASSUME NEW S, NEW events \in Seq(S), NEW event \in S
    PROVE  /\ ReadFrom(<<>>) = NewReader
           /\ ReadFrom(Append(events, event)) = Read(ReadFrom(events), event)
<1> DEFINE longer == Append(events, event)
           n == Len(events)
           Runs(list, f) == AreRead(f, list, Len(list))
           after(list) == CHOOSE f : Runs(list, f)
<1>0. \A list : ReadFrom(list) = after(list)[Len(list)]
  BY DEF ReadFrom, AreRead
<1>1. n \in Nat /\ Len(longer) = n + 1 /\ longer[n + 1] = event
      /\ \A i \in 1..n : longer[i] = events[i]
  BY LenProperties, AppendProperties
<1>2. ASSUME NEW list, Len(list) \in Nat PROVE Runs(list, after(list))
  <2>1. \E f : Runs(list, f) BY <1>2, EventsAreRead
  <2> HIDE DEF Runs
  <2> QED BY <2>1
<1>3. ReadFrom(<<>>) = NewReader
  <2>1. Len(<<>>) = 0 BY EmptySeq
  <2>2. Runs(<<>>, after(<<>>)) BY <1>2, <2>1
  <2> HIDE DEF after
  <2>3. after(<<>>)[0] = NewReader BY <2>1, <2>2 DEF AreRead
  <2> QED BY <1>0, <2>1, <2>3
<1>4. ReadFrom(longer) = Read(ReadFrom(events), event)
  <2> DEFINE f == after(events)
             g == after(longer)
             Same == {i \in 0..n : g[i] = f[i]}
  <2>1. Runs(events, f) /\ Runs(longer, g)
    <3> HIDE DEF Runs, after, longer, n
    <3>1. Len(longer) \in Nat /\ Len(events) \in Nat BY <1>1 DEF n
    <3> QED BY <1>2, <3>1
  <2>2. ReadFrom(events) = f[n] /\ ReadFrom(longer) = g[n + 1] BY <1>0, <1>1
  <2> HIDE DEF f, g, longer, n, after
  <2>3. \A i \in 0..n : f[i] = IF i = 0 THEN NewReader ELSE Read(f[i - 1], events[i])
    BY <2>1 DEF n, AreRead
  <2>4. \A i \in 0..(n + 1) : g[i] = IF i = 0 THEN NewReader
                                    ELSE Read(g[i - 1], longer[i])
    BY <2>1, <1>1 DEF AreRead
  <2>5. 0 \in Same BY <2>3, <2>4, <1>1
  <2>6. ASSUME NEW k \in 1..n, k - 1 \in Same PROVE k \in Same
    <3>1. g[k - 1] = f[k - 1] /\ longer[k] = events[k] BY <2>6, <1>1
    <3>2. f[k] = Read(f[k - 1], events[k]) BY <2>3, <1>1
    <3>3. g[k] = Read(g[k - 1], longer[k]) BY <2>4, <1>1
    <3> QED BY <3>1, <3>2, <3>3, <1>1
  <2> HIDE DEF Same
  <2>7. 0..n \subseteq Same BY <1>1, <2>5, <2>6, UpTo
  <2>8. g[n] = f[n] BY <1>1, <2>7 DEF Same
  <2>9. g[n + 1] = Read(g[n], event) BY <1>1, <2>4
  <2> QED BY <2>2, <2>8, <2>9
<1> QED BY <1>3, <1>4

\* The same of parse, of the Python bindings.
ArePyRead(f, events, n) ==
    f = [i \in 0..n |-> IF i = 0 THEN NewReader ELSE PyRead(f[i - 1], events[i])]

LEMMA EventsArePyRead ==
    ASSUME NEW events, NEW n \in Nat
    PROVE  \E f : ArePyRead(f, events, n)
<1> DEFINE Runs(m, f) == ArePyRead(f, events, m)
           T == {m \in 0..n : \E f : Runs(m, f)}
<1>1. 0 \in T
  <2> DEFINE f == [i \in 0..0 |-> NewReader]
  <2>1. Runs(0, f) BY DEF ArePyRead
  <2> HIDE DEF f, Runs
  <2> QED BY <2>1
<1>2. ASSUME NEW m \in 1..n, m - 1 \in T PROVE m \in T
  <2>1. PICK f : Runs(m - 1, f) BY <1>2
  <2> DEFINE g == [i \in 0..m |-> IF i < m THEN f[i] ELSE PyRead(f[m - 1], events[m])]
  <2>2. \A i \in 0..(m - 1) : f[i] = IF i = 0 THEN NewReader
                                    ELSE PyRead(f[i - 1], events[i])
    BY <2>1 DEF ArePyRead
  <2>3. \A i \in 0..m : g[i] = IF i = 0 THEN NewReader ELSE PyRead(g[i - 1], events[i])
    <3> SUFFICES ASSUME NEW i \in 0..m
                 PROVE  g[i] = IF i = 0 THEN NewReader ELSE PyRead(g[i - 1], events[i])
      OBVIOUS
    <3>1. CASE i = m
      <4>1. g[m - 1] = f[m - 1] OBVIOUS
      <4> QED BY <3>1, <4>1
    <3>2. CASE i < m /\ i # 0
      <4>1. g[i - 1] = f[i - 1] /\ g[i] = f[i] BY <3>2
      <4> QED BY <2>2, <3>2, <4>1
    <3>3. CASE i = 0 BY <2>2, <3>3
    <3> QED BY <3>1, <3>2, <3>3
  <2>4. g = [i \in 0..m |-> g[i]] OBVIOUS
  <2> HIDE DEF g
  <2>5. Runs(m, g) BY <2>3, <2>4 DEF ArePyRead
  <2> HIDE DEF Runs
  <2> QED BY <2>5
<1> HIDE DEF T
<1>3. 0..n \subseteq T BY <1>1, <1>2, UpTo
<1>4. n \in T BY <1>3
<1> QED BY <1>4 DEF T

LEMMA PyReadOnceMore ==
    ASSUME NEW S, NEW events \in Seq(S), NEW event \in S
    PROVE  /\ PyParse(<<>>) = NewReader
           /\ PyParse(Append(events, event)) = PyRead(PyParse(events), event)
<1> DEFINE longer == Append(events, event)
           n == Len(events)
           Runs(list, f) == ArePyRead(f, list, Len(list))
           after(list) == CHOOSE f : Runs(list, f)
<1>0. \A list : PyParse(list) = after(list)[Len(list)]
  BY DEF PyParse, ArePyRead
<1>1. n \in Nat /\ Len(longer) = n + 1 /\ longer[n + 1] = event
      /\ \A i \in 1..n : longer[i] = events[i]
  BY LenProperties, AppendProperties
<1>2. ASSUME NEW list, Len(list) \in Nat PROVE Runs(list, after(list))
  <2>1. \E f : Runs(list, f) BY <1>2, EventsArePyRead
  <2> HIDE DEF Runs
  <2> QED BY <2>1
<1>3. PyParse(<<>>) = NewReader
  <2>1. Len(<<>>) = 0 BY EmptySeq
  <2>2. Runs(<<>>, after(<<>>)) BY <1>2, <2>1
  <2> HIDE DEF after
  <2>3. after(<<>>)[0] = NewReader BY <2>1, <2>2 DEF ArePyRead
  <2> QED BY <1>0, <2>1, <2>3
<1>4. PyParse(longer) = PyRead(PyParse(events), event)
  <2> DEFINE f == after(events)
             g == after(longer)
             Same == {i \in 0..n : g[i] = f[i]}
  <2>1. Runs(events, f) /\ Runs(longer, g)
    <3> HIDE DEF Runs, after, longer, n
    <3>1. Len(longer) \in Nat /\ Len(events) \in Nat BY <1>1 DEF n
    <3> QED BY <1>2, <3>1
  <2>2. PyParse(events) = f[n] /\ PyParse(longer) = g[n + 1] BY <1>0, <1>1
  <2> HIDE DEF f, g, longer, n, after
  <2>3. \A i \in 0..n : f[i] = IF i = 0 THEN NewReader ELSE PyRead(f[i - 1], events[i])
    BY <2>1 DEF n, ArePyRead
  <2>4. \A i \in 0..(n + 1) : g[i] = IF i = 0 THEN NewReader
                                    ELSE PyRead(g[i - 1], longer[i])
    BY <2>1, <1>1 DEF ArePyRead
  <2>5. 0 \in Same BY <2>3, <2>4, <1>1
  <2>6. ASSUME NEW k \in 1..n, k - 1 \in Same PROVE k \in Same
    <3>1. g[k - 1] = f[k - 1] /\ longer[k] = events[k] BY <2>6, <1>1
    <3>2. f[k] = PyRead(f[k - 1], events[k]) BY <2>3, <1>1
    <3>3. g[k] = PyRead(g[k - 1], longer[k]) BY <2>4, <1>1
    <3> QED BY <3>1, <3>2, <3>3, <1>1
  <2> HIDE DEF Same
  <2>7. 0..n \subseteq Same BY <1>1, <2>5, <2>6, UpTo
  <2>8. g[n] = f[n] BY <1>1, <2>7 DEF Same
  <2>9. g[n + 1] = PyRead(g[n], event) BY <1>1, <2>4
  <2> QED BY <2>2, <2>8, <2>9
<1> QED BY <1>3, <1>4

-----------------------------------------------------------------------------
(* The paths of the nodes. *)

LEMMA FrontOfAppend ==
    ASSUME NEW S, NEW q \in Seq(S), NEW e \in S
    PROVE  /\ Front(Append(q, e)) = q
           /\ Last(Append(q, e)) = e
           /\ Len(Append(q, e)) = Len(q) + 1
           /\ Append(q, e) \in Seq(S)
           /\ Append(q, e) # <<>>
<1> DEFINE n == Len(q)
           a == Append(q, e)
<1>1. /\ n \in Nat /\ a \in Seq(S) /\ a # <<>> /\ Len(a) = n + 1 /\ a[n + 1] = e
      /\ \A i \in 1..n : a[i] = q[i] /\ q[i] \in S
  BY LenProperties, AppendProperties, ElementOfSeq
<1> HIDE DEF a
<1>2. Front(a) = SubSeq(a, 1, n) BY <1>1 DEF Front
<1>3. /\ SubSeq(a, 1, n) \in Seq(S)
      /\ Len(SubSeq(a, 1, n)) = IF 1 <= n THEN n - 1 + 1 ELSE 0
      /\ \A i \in 1..(n - 1 + 1) : SubSeq(a, 1, n)[i] = a[1 + i - 1]
  <2>1. 1 \in Int /\ n \in Int /\ \A i \in 1..n : a[i] \in S BY <1>1
  <2> HIDE DEF n
  <2> QED BY <2>1, SubSeqProperties
<1>4. Len(Front(a)) = n /\ \A i \in 1..n : Front(a)[i] = q[i] BY <1>1, <1>2, <1>3
<1>5. Front(a) = q
  <2>1. Front(a) \in Seq(S) BY <1>2, <1>3
  <2> HIDE DEF n
  <2> QED BY <1>4, <2>1, SeqEqual DEF n
<1>6. Last(a) = e BY <1>1 DEF Last
<1> QED BY <1>1, <1>5, <1>6 DEF a

\* The first m nodes of the list on a path
Numbered(q, m) == {Append(q, k) : k \in 1..m}

LEMMA NumberedAreCounted ==
    ASSUME NEW q \in Seq(Nat), NEW m \in Nat
    PROVE  Cardinality(Numbered(q, m)) = m
<1> DEFINE f == [k \in 1..m |-> Append(q, k)]
<1>1. \A k \in 1..m : Last(Append(q, k)) = k BY FrontOfAppend
<1>2. f \in Bijection(1..m, Numbered(q, m))
  <2>1. f \in [1..m -> Numbered(q, m)] BY DEF Numbered
  <2>2. \A j, k \in 1..m : f[j] = f[k] => j = k BY <1>1
  <2>3. \A p \in Numbered(q, m) : \E k \in 1..m : f[k] = p BY DEF Numbered
  <2> HIDE DEF f
  <2> QED BY <2>1, <2>2, <2>3, Fun_IsBij
<1>3. IsFiniteSet(1..m) /\ Cardinality(1..m) = m BY FS_Interval
<1>4. ExistsBijection(1..m, Numbered(q, m)) BY <1>2 DEF ExistsBijection
<1> QED BY <1>3, <1>4, FS_Bijection

\* With a node more, its list has one more, and the other lists are the same.
LEMMA ListWith ==
    ASSUME NEW nodes, NEW path, path # <<>>, NEW node
    PROVE  Children(With(nodes, path, node), Front(path)) = Children(nodes, Front(path)) \cup {path}
<1>1. DOMAIN With(nodes, path, node) = DOMAIN nodes \cup {path} BY DEF With
<1> QED BY <1>1 DEF Children

LEMMA OtherListsWith ==
    ASSUME NEW nodes, NEW path, NEW node, NEW list, list # Front(path)
    PROVE  Children(With(nodes, path, node), list) = Children(nodes, list)
<1>1. DOMAIN With(nodes, path, node) = DOMAIN nodes \cup {path} BY DEF With
<1> QED BY <1>1 DEF Children

\* The nodes of each list are numbered from 1 on.
IsDocument(nodes) ==
    /\ DOMAIN nodes \subseteq Seq(Nat)
    /\ \A list \in Seq(Nat) : \E m \in Nat : Children(nodes, list) = Numbered(list, m)

\* The path of the node that is put at the end of a list
NextPath(nodes, list) == Append(list, Cardinality(Children(nodes, list)) + 1)

LEMMA NextIsLatest ==
    ASSUME NEW nodes, IsDocument(nodes), NEW list \in Seq(Nat), NEW node
    PROVE  /\ NextPath(nodes, list) \in Seq(Nat)
           /\ Len(NextPath(nodes, list)) = Len(list) + 1
           /\ IsDocument(With(nodes, NextPath(nodes, list), node))
           /\ IsLatest(With(nodes, NextPath(nodes, list), node), NextPath(nodes, list))
           /\ \A other \in Seq(Nat) \ {list} :
                  Children(With(nodes, NextPath(nodes, list), node), other)
                      = Children(nodes, other)
<1>1. PICK m \in Nat : Children(nodes, list) = Numbered(list, m) BY DEF IsDocument
<1>2. NextPath(nodes, list) = Append(list, m + 1) BY <1>1, NumberedAreCounted DEF NextPath
<1> DEFINE path == Append(list, m + 1)
           more == With(nodes, path, node)
<1>3. m + 1 \in Nat OBVIOUS
<1>4. path \in Seq(Nat) /\ Len(path) = Len(list) + 1 /\ Front(path) = list /\ Last(path) = m + 1
  BY <1>3, FrontOfAppend
<1>5. /\ Children(more, list) = Children(nodes, list) \cup {path}
      /\ \A other : other # list => Children(more, other) = Children(nodes, other)
  <2>1. path # <<>> BY <1>3, FrontOfAppend
  <2> HIDE DEF path
  <2>2. Children(more, list) = Children(nodes, list) \cup {path} BY <1>4, <2>1, ListWith
  <2>3. ASSUME NEW other, other # list PROVE Children(more, other) = Children(nodes, other)
    BY <1>4, <2>1, <2>3, OtherListsWith
  <2> QED BY <2>2, <2>3
<1>6. Children(more, list) = Numbered(list, m + 1)
  <2>1. Children(more, list) = Numbered(list, m) \cup {path} BY <1>1, <1>5
  <2>2. 1..(m + 1) = 1..m \cup {m + 1} OBVIOUS
  <2> HIDE DEF more
  <2> QED BY <2>1, <2>2 DEF Numbered
<1>7. \A other \in Seq(Nat) \ {list} : Children(more, other) = Children(nodes, other) BY <1>5
<1>8. IsDocument(more)
  <2>1. DOMAIN more \subseteq Seq(Nat) BY <1>4 DEF IsDocument, With
  <2> HIDE DEF more, path
  <2>2. ASSUME NEW other \in Seq(Nat) PROVE \E k \in Nat : Children(more, other) = Numbered(other, k)
    <3>1. CASE other = list BY <1>3, <1>6, <3>1
    <3>2. CASE other # list BY <1>7, <3>2 DEF IsDocument
    <3> QED BY <3>1, <3>2
  <2> QED BY <2>1, <2>2 DEF IsDocument
<1>9. IsLatest(more, path)
  <2>1. ASSUME NEW k \in 1..(m + 1) PROVE Last(Append(list, k)) <= m + 1
    <3>1. Last(Append(list, k)) = k BY FrontOfAppend
    <3> QED BY <3>1
  <2>2. \A p \in Numbered(list, m + 1) : Last(p) <= m + 1 BY <2>1 DEF Numbered
  <2> HIDE DEF more, path
  <2> QED BY <1>4, <1>6, <2>2 DEF IsLatest
<1> HIDE DEF path, more
<1> QED BY <1>2, <1>4, <1>7, <1>8, <1>9 DEF path, more

\* A list that is the same keeps its latest node.
LEMMA LatestStays ==
    ASSUME NEW nodes, NEW more, NEW path, IsLatest(nodes, path),
           Children(more, Front(path)) = Children(nodes, Front(path))
    PROVE  IsLatest(more, path)
BY DEF IsLatest

-----------------------------------------------------------------------------
(* How deep the events are nested. *)

Counted(events, kind) == Cardinality({i \in DOMAIN events : events[i].kind = kind})
Depth(events) == Counted(events, "START_NODE") - Counted(events, "END_NODE")

LEMMA NothingIsCounted == \A kind : Counted(<<>>, kind) = 0
<1> SUFFICES ASSUME NEW kind PROVE Counted(<<>>, kind) = 0 OBVIOUS
<1>1. {i \in DOMAIN <<>> : <<>>[i].kind = kind} = {} OBVIOUS
<1> QED BY <1>1, FS_EmptySet DEF Counted

LEMMA CountedOnceMore ==
    ASSUME NEW S, NEW events \in Seq(S), NEW event \in S, NEW kind
    PROVE  /\ Counted(events, kind) \in Nat
           /\ Counted(Append(events, event), kind)
                = IF event.kind = kind THEN Counted(events, kind) + 1 ELSE Counted(events, kind)
<1> DEFINE n == Len(events)
           longer == Append(events, event)
           Those(list) == {i \in DOMAIN list : list[i].kind = kind}
<1>1. /\ n \in Nat /\ DOMAIN events = 1..n /\ DOMAIN longer = 1..(n + 1)
      /\ longer[n + 1] = event /\ \A i \in 1..n : longer[i] = events[i]
  BY LenProperties, AppendProperties
<1>2. IsFiniteSet(Those(events)) /\ Cardinality(Those(events)) \in Nat
  <2>1. Those(events) \in SUBSET (1..n) BY <1>1
  <2>2. IsFiniteSet(1..n) BY <1>1, FS_Interval
  <2> HIDE DEF Those
  <2> QED BY <2>1, <2>2, FS_Subset, FS_CardinalityType
<1>3. n + 1 \notin Those(events) BY <1>1
<1>4. CASE event.kind = kind
  <2>1. Those(longer) = Those(events) \cup {n + 1} BY <1>1, <1>4
  <2> HIDE DEF Those
  <2>2. Cardinality(Those(longer)) = Cardinality(Those(events)) + 1
    BY <1>2, <1>3, <2>1, FS_AddElement
  <2> QED BY <1>2, <1>4, <2>2 DEF Those, Counted
<1>5. CASE event.kind # kind
  <2>1. Those(longer) = Those(events) BY <1>1, <1>5
  <2> QED BY <1>2, <1>5, <2>1 DEF Counted
<1> QED BY <1>4, <1>5

-----------------------------------------------------------------------------
(* The readers' pointers. *)

\* The stack holds the path to where the reader is: one node of each length, each the
\* latest of its list; node_list is where the stack ends.
StackIsPath(r, depth) ==
    /\ r.stack \in Seq(Seq(Nat))
    /\ Len(r.stack) = depth
    /\ \A j \in 1..depth : Len(r.stack[j]) = j /\ IsLatest(r.nodes, r.stack[j])

ListIsOnStack(r) ==
    /\ r.node_list = IF r.stack = <<>> THEN <<>> ELSE Last(r.stack)
    /\ r.current_node = NoNode \/ (r.stack # <<>> /\ r.current_node = Last(r.stack))

ReaderIInv(r, depth) ==
    /\ r = [nodes |-> r.nodes, node_list |-> r.node_list,
            current_node |-> r.current_node, stack |-> r.stack]
    /\ IsDocument(r.nodes)
    /\ StackIsPath(r, depth)
    /\ ListIsOnStack(r)

LEMMA LastOfStack ==
    ASSUME NEW r, NEW depth \in Nat, StackIsPath(r, depth)
    PROVE  /\ r.stack = <<>> <=> depth = 0
           /\ depth # 0 => /\ Last(r.stack) = r.stack[depth]
                           /\ Last(r.stack) \in Seq(Nat)
                           /\ Len(Last(r.stack)) = depth
<1>1. r.stack \in Seq(Seq(Nat)) /\ Len(r.stack) = depth BY DEF StackIsPath
<1>2. r.stack = <<>> <=> depth = 0 BY <1>1, EmptySeq
<1>3. ASSUME depth # 0 PROVE r.stack[depth] \in Seq(Nat) /\ Len(r.stack[depth]) = depth
  <2>1. depth \in 1..depth BY <1>3
  <2> QED BY <1>1, <2>1, ElementOfSeq DEF StackIsPath
<1> QED BY <1>1, <1>2, <1>3 DEF Last

LEMMA StartNodeKeeps ==
    ASSUME NEW r, NEW depth \in Nat, ReaderIInv(r, depth), NEW event
    PROVE  ReaderIInv(StartNode(r, event), depth + 1)
<1> DEFINE list == r.node_list
           path == NextPath(r.nodes, list)
           s == StartNode(r, event)
<1>1. IsDocument(r.nodes) /\ StackIsPath(r, depth) /\ ListIsOnStack(r) BY DEF ReaderIInv
<1>2. list \in Seq(Nat) /\ Len(list) = depth BY <1>1, LastOfStack, EmptySeq DEF ListIsOnStack
<1>3. s = [nodes |-> With(r.nodes, path, EmptyNode(event)), node_list |-> path,
           current_node |-> path, stack |-> Append(r.stack, path)]
  BY DEF StartNode, NextPath
<1>4. s.nodes = With(r.nodes, path, EmptyNode(event)) /\ s.node_list = path
      /\ s.current_node = path /\ s.stack = Append(r.stack, path)
  BY <1>3
<1> HIDE DEF path, s
<1>5. /\ path \in Seq(Nat) /\ Len(path) = depth + 1
      /\ IsDocument(s.nodes) /\ IsLatest(s.nodes, path)
      /\ \A other \in Seq(Nat) \ {list} : Children(s.nodes, other) = Children(r.nodes, other)
  BY <1>1, <1>2, <1>4, NextIsLatest DEF path
<1>6. r.stack \in Seq(Seq(Nat)) /\ Len(r.stack) = depth BY <1>1 DEF StackIsPath
<1>7. /\ s.stack \in Seq(Seq(Nat)) /\ Len(s.stack) = depth + 1 /\ s.stack # <<>>
      /\ s.stack[depth + 1] = path /\ \A j \in 1..depth : s.stack[j] = r.stack[j]
  <2> DEFINE stack == r.stack
             longer == Append(stack, path)
  <2> HIDE DEF stack
  <2>1. stack \in Seq(Seq(Nat)) /\ Len(stack) = depth /\ path \in Seq(Nat)
    BY <1>5, <1>6 DEF stack
  <2>2. /\ longer \in Seq(Seq(Nat)) /\ Len(longer) = Len(stack) + 1 /\ longer # <<>>
        /\ longer[Len(stack) + 1] = path /\ \A j \in 1..Len(stack) : longer[j] = stack[j]
    BY <2>1, AppendProperties
  <2> HIDE DEF longer
  <2>3. /\ longer \in Seq(Seq(Nat)) /\ Len(longer) = depth + 1 /\ longer # <<>>
        /\ longer[depth + 1] = path /\ \A j \in 1..depth : longer[j] = stack[j]
    BY <2>1, <2>2
  <2>4. s.stack = longer BY <1>4 DEF longer, stack
  <2> QED BY <2>3, <2>4 DEF stack
<1>8. ASSUME NEW j \in 1..depth PROVE Len(s.stack[j]) = j /\ IsLatest(s.nodes, s.stack[j])
  <2>1. r.stack[j] \in Seq(Nat) BY <1>6, ElementOfSeq
  <2>2. Len(r.stack[j]) = j /\ IsLatest(r.nodes, r.stack[j]) BY <1>1 DEF StackIsPath
  <2> DEFINE q == r.stack[j]
  <2>3. Front(q) \in Seq(Nat) /\ Len(Front(q)) = j - 1
    <3>1. \A i \in 1..(j - 1) : q[i] \in Nat BY <2>1, <2>2, ElementOfSeq
    <3> HIDE DEF q
    <3>2. SubSeq(q, 1, j - 1) \in Seq(Nat)
          /\ Len(SubSeq(q, 1, j - 1)) = IF 1 <= j - 1 THEN j - 1 - 1 + 1 ELSE 0
      BY <3>1, SubSeqProperties
    <3> QED BY <2>2, <3>2 DEF Front, q
  <2>4. Front(q) # list BY <1>2, <2>3
  <2>5. Children(s.nodes, Front(q)) = Children(r.nodes, Front(q)) BY <1>5, <2>3, <2>4
  <2> QED BY <1>7, <2>2, <2>5, LatestStays
<1>9. StackIsPath(s, depth + 1)
  <2>1. ASSUME NEW j \in 1..(depth + 1) PROVE Len(s.stack[j]) = j /\ IsLatest(s.nodes, s.stack[j])
    <3>1. CASE j = depth + 1 BY <1>5, <1>7, <3>1
    <3>2. CASE j \in 1..depth BY <1>8, <3>2
    <3> QED BY <3>1, <3>2
  <2> QED BY <1>7, <2>1 DEF StackIsPath
<1>10. ListIsOnStack(s) BY <1>4, <1>7 DEF ListIsOnStack, Last
<1>11. s = [nodes |-> s.nodes, node_list |-> s.node_list,
            current_node |-> s.current_node, stack |-> s.stack]
  BY <1>3, <1>4
<1> QED BY <1>5, <1>9, <1>10, <1>11 DEF ReaderIInv, s

LEMMA EndNodeKeeps ==
    ASSUME NEW r, NEW depth \in Nat \ {0}, ReaderIInv(r, depth)
    PROVE  ReaderIInv(EndNode(r), depth - 1)
<1> DEFINE stack == Front(r.stack)
           s == EndNode(r)
           list == IF stack = <<>> THEN <<>> ELSE Last(stack)
           current == IF stack = <<>> THEN NoNode ELSE Last(stack)
<1>1. /\ r = [nodes |-> r.nodes, node_list |-> r.node_list,
              current_node |-> r.current_node, stack |-> r.stack]
      /\ IsDocument(r.nodes) /\ StackIsPath(r, depth)
  BY DEF ReaderIInv
<1>2. s = [nodes |-> r.nodes, node_list |-> list, current_node |-> current, stack |-> stack]
  <2> HIDE DEF stack
  <2> QED BY <1>1 DEF EndNode, stack
<1>3. r.stack \in Seq(Seq(Nat)) /\ Len(r.stack) = depth BY <1>1 DEF StackIsPath
<1>4. /\ stack \in Seq(Seq(Nat)) /\ Len(stack) = depth - 1
      /\ \A j \in 1..(depth - 1) : stack[j] = r.stack[j]
  <2>1. \A j \in 1..(depth - 1) : r.stack[j] \in Seq(Nat) BY <1>3, ElementOfSeq
  <2> DEFINE sub == SubSeq(r.stack, 1, depth - 1)
  <2>2. /\ sub \in Seq(Seq(Nat))
        /\ Len(sub) = IF 1 <= depth - 1 THEN depth - 1 - 1 + 1 ELSE 0
        /\ \A j \in 1..(depth - 1 - 1 + 1) : sub[j] = r.stack[1 + j - 1]
    BY <2>1, SubSeqProperties
  <2>3. stack = sub BY <1>3 DEF Front
  <2> HIDE DEF sub, stack
  <2>4. ASSUME NEW j \in 1..(depth - 1) PROVE sub[j] = r.stack[j]
    <3>1. j \in 1..(depth - 1 - 1 + 1) /\ 1 + j - 1 = j OBVIOUS
    <3> QED BY <2>2, <3>1
  <2>5. Len(sub) = depth - 1 BY <2>2
  <2> QED BY <2>2, <2>3, <2>4, <2>5
<1> HIDE DEF stack, s
<1>5. s.nodes = r.nodes /\ s.node_list = list /\ s.current_node = current /\ s.stack = stack
  BY <1>2
<1>6. StackIsPath(s, depth - 1)
  <2>1. ASSUME NEW j \in 1..(depth - 1) PROVE Len(s.stack[j]) = j /\ IsLatest(s.nodes, s.stack[j])
    <3>1. j \in 1..depth /\ s.stack[j] = r.stack[j] BY <1>4, <1>5
    <3>2. Len(r.stack[j]) = j /\ IsLatest(r.nodes, r.stack[j]) BY <1>1, <3>1 DEF StackIsPath
    <3> QED BY <1>5, <3>1, <3>2
  <2> QED BY <1>4, <1>5, <2>1 DEF StackIsPath
<1>7. ListIsOnStack(s) BY <1>5 DEF ListIsOnStack
<1> QED BY <1>1, <1>2, <1>5, <1>6, <1>7 DEF ReaderIInv, s

\* An entry changes what is in a node and nothing else.
LEMMA EntryKeeps ==
    ASSUME NEW r, NEW depth \in Nat, ReaderIInv(r, depth), NEW event
    PROVE  ReaderIInv(Entry(r, event), depth)
<1> DEFINE s == Entry(r, event)
<1>1. r = [nodes |-> r.nodes, node_list |-> r.node_list,
           current_node |-> r.current_node, stack |-> r.stack]
  BY DEF ReaderIInv
<1>2. \E nodes : DOMAIN nodes = DOMAIN r.nodes /\ s = [r EXCEPT !.nodes = nodes]
  <2>1. CASE event.kind = "ARGUMENT" BY <2>1 DEF Entry, Argument
  <2>2. CASE event.kind # "ARGUMENT" BY <2>2 DEF Entry, Property
  <2> QED BY <2>1, <2>2
<1> HIDE DEF s
<1>3. PICK nodes : DOMAIN nodes = DOMAIN r.nodes /\ s = [r EXCEPT !.nodes = nodes] BY <1>2
<1>4. s = [nodes |-> nodes, node_list |-> r.node_list,
           current_node |-> r.current_node, stack |-> r.stack]
  BY <1>1, <1>3
<1>5. s.nodes = nodes /\ s.node_list = r.node_list /\ s.current_node = r.current_node
      /\ s.stack = r.stack
  BY <1>4
<1>6. \A list : Children(s.nodes, list) = Children(r.nodes, list) BY <1>3, <1>5 DEF Children
<1>7. IsDocument(s.nodes) BY <1>3, <1>5, <1>6 DEF IsDocument, ReaderIInv
<1>8. \A path : IsLatest(r.nodes, path) => IsLatest(s.nodes, path) BY <1>6 DEF IsLatest
<1>9. StackIsPath(s, depth) BY <1>5, <1>8 DEF StackIsPath, ReaderIInv
<1>10. ListIsOnStack(s) BY <1>5 DEF ListIsOnStack, ReaderIInv
<1> QED BY <1>4, <1>5, <1>7, <1>9, <1>10 DEF ReaderIInv, s

\* The two readers have the same in hand, but for the current node after the end of one.
SameButCurrent(r, p) ==
    p = [nodes |-> r.nodes, node_list |-> r.node_list,
         current_node |-> p.current_node, stack |-> r.stack]

LEMMA BothRead ==
    ASSUME NEW r, NEW depth \in Nat, ReaderIInv(r, depth), NEW p, SameButCurrent(r, p), NEW event,
           event.kind \in Kinds,
           event.kind \in {"ARGUMENT", "PROPERTY"} => p.current_node = r.current_node
    PROVE  /\ SameButCurrent(Read(r, event), PyRead(p, event))
           /\ event.kind # "END_NODE" =>
                  PyRead(p, event).current_node = Read(r, event).current_node
<1>1. r = [nodes |-> r.nodes, node_list |-> r.node_list,
           current_node |-> r.current_node, stack |-> r.stack]
  BY DEF ReaderIInv
<1>2. p.nodes = r.nodes /\ p.node_list = r.node_list /\ p.stack = r.stack
  BY DEF SameButCurrent
<1>3. CASE event.kind = "START_NODE"
  <2>1. StartNode(p, event) = StartNode(r, event) BY <1>2 DEF StartNode
  <2>2. Read(r, event) = StartNode(r, event) /\ PyRead(p, event) = StartNode(r, event)
    BY <1>3, <2>1 DEF Read, PyRead
  <2> QED BY <2>2 DEF SameButCurrent, StartNode
<1>4. CASE event.kind = "END_NODE"
  <2> DEFINE stack == Front(r.stack)
             list == IF stack = <<>> THEN <<>> ELSE Last(stack)
             current == IF stack = <<>> THEN NoNode ELSE Last(stack)
             s == EndNode(r)
             t == PyEndNode(p)
  <2>1. s = [nodes |-> r.nodes, node_list |-> list, current_node |-> current, stack |-> stack]
    <3> HIDE DEF stack
    <3> QED BY <1>1 DEF EndNode, stack
  <2>2. t = [nodes |-> r.nodes, node_list |-> list, current_node |-> p.current_node,
             stack |-> stack]
    <3>1. PICK c : p = [nodes |-> r.nodes, node_list |-> r.node_list,
                        current_node |-> c, stack |-> r.stack]
      BY DEF SameButCurrent
    <3>2. t = [p EXCEPT !.stack = stack, !.node_list = list] BY <1>2 DEF PyEndNode
    <3> HIDE DEF stack, list, t
    <3>3. p.current_node = c BY <3>1
    <3> QED BY <3>1, <3>2, <3>3
  <2> HIDE DEF stack, list, current, s, t
  <2>3. SameButCurrent(s, t) BY <2>1, <2>2 DEF SameButCurrent
  <2>4. Read(r, event) = s /\ PyRead(p, event) = t BY <1>4 DEF Read, PyRead, s, t
  <2> QED BY <1>4, <2>3, <2>4
<1>5. CASE event.kind \in {"ARGUMENT", "PROPERTY"}
  <2>1. p = r BY <1>1, <1>5 DEF SameButCurrent
  <2>2. Read(r, event) = Entry(r, event) /\ PyRead(p, event) = Entry(r, event)
    BY <1>5, <2>1 DEF Read, PyRead
  <2>3. ReaderIInv(Entry(r, event), depth) BY EntryKeeps
  <2>4. SameButCurrent(Entry(r, event), Entry(r, event))
    BY <2>3 DEF SameButCurrent, ReaderIInv
  <2> QED BY <2>2, <2>4
<1> QED BY <1>3, <1>4, <1>5 DEF Kinds

-----------------------------------------------------------------------------
(* Documents of every length. *)

\* Events as they are in the list of a document
Numbers == [kind : Kinds, label : Nat, value : Nat]

EventsIInv ==
    subject = "events" =>
        /\ input \in Seq(Numbers)
        /\ Depth(input) \in Nat
        /\ ReaderIInv(ReadFrom(input), Depth(input))
        /\ SameButCurrent(ReadFrom(input), PyParse(input))
        /\ input # <<>> /\ Last(input).kind # "END_NODE" =>
               PyParse(input).current_node = ReadFrom(input).current_node

LEMMA PlacedIsNumber ==
    ASSUME NEW element \in Elements["events"], subject = "events", input \in Seq(Numbers)
    PROVE  Placed(element) \in Numbers /\ Placed(element).kind = element.kind
<1> DEFINE n == Len(input) + 1
<1>1. element \in [kind : Kinds, label : Nat] BY EventsAssumption
<1>2. n \in Nat BY LenProperties
<1>3. DOMAIN element = {"kind", "label"} BY <1>1
<1>4. Placed(element) = [k \in {"kind", "label", "value"} |-> IF k = "value" THEN n ELSE element[k]]
  <2>1. DOMAIN element \cup {"value"} = {"kind", "label", "value"} BY <1>3
  <2> QED BY <2>1 DEF Placed
<1>5. element["kind"] = element.kind /\ element["label"] = element.label OBVIOUS
<1> HIDE DEF n
<1>6. Placed(element) = [kind |-> element.kind, label |-> element.label, value |-> n]
  BY <1>4, <1>5
<1>7. element.kind \in Kinds /\ element.label \in Nat BY <1>1
<1> QED BY <1>2, <1>6, <1>7 DEF Numbers

LEMMA NewReaderIsRight == ReaderIInv(NewReader, 0)
<1>1. NewReader.nodes = <<>> /\ NewReader.stack = <<>> /\ NewReader.node_list = <<>>
      /\ NewReader.current_node = NoNode
  BY DEF NewReader
<1>2. Children(<<>>, <<>>) = {} /\ \A list : Children(<<>>, list) = {}
  BY DEF Children
<1>3. IsDocument(<<>>)
  <2>1. DOMAIN <<>> = {} OBVIOUS
  <2>2. ASSUME NEW list \in Seq(Nat) PROVE \E m \in Nat : Children(<<>>, list) = Numbered(list, m)
    <3>1. Numbered(list, 0) = {} BY DEF Numbered
    <3> QED BY <1>2, <3>1
  <2> QED BY <2>1, <2>2 DEF IsDocument
<1>4. StackIsPath(NewReader, 0) BY <1>1, EmptySeq DEF StackIsPath
<1>5. ListIsOnStack(NewReader) BY <1>1 DEF ListIsOnStack
<1> QED BY <1>1, <1>3, <1>4, <1>5 DEF ReaderIInv, NewReader

LEMMA EventsInvariant == DataSpec => []EventsIInv
<1>1. DataInit => EventsIInv
  <2> SUFFICES ASSUME DataInit, subject = "events" PROVE EventsIInv BY DEF EventsIInv
  <2>1. input = <<>> /\ <<>> \in Seq({<<>>}) BY EmptySeq DEF DataInit
  <2>2. ReadFrom(input) = NewReader /\ PyParse(input) = NewReader
    BY <2>1, ReadOnceMore, PyReadOnceMore
  <2>3. Depth(input) = 0 BY <2>1, NothingIsCounted DEF Depth
  <2>4. SameButCurrent(NewReader, NewReader) BY DEF SameButCurrent, NewReader
  <2>5. input \in Seq(Numbers) BY <2>1, EmptySeq
  <2> QED BY <2>1, <2>2, <2>3, <2>4, <2>5, NewReaderIsRight DEF EventsIInv
<1>2. EventsIInv /\ [Extend]_dataVars => EventsIInv'
  <2> SUFFICES ASSUME EventsIInv, [Extend]_dataVars, subject' = "events" PROVE EventsIInv'
    BY DEF EventsIInv
  <2>1. CASE Extend
    <3>1. subject = "events" BY <2>1 DEF Extend
    <3> DEFINE r == ReadFrom(input)
               p == PyParse(input)
               depth == Depth(input)
    <3>2. /\ input \in Seq(Numbers) /\ depth \in Nat /\ ReaderIInv(r, depth)
          /\ SameButCurrent(r, p)
          /\ input # <<>> /\ Last(input).kind # "END_NODE" => p.current_node = r.current_node
      BY <3>1 DEF EventsIInv
    <3>3. PICK element \in Elements["events"] :
             MayFollow(element) /\ input' = Append(input, Placed(element))
      BY <2>1, <3>1 DEF Extend
    <3> DEFINE event == Placed(element)
    <3>4. event \in Numbers /\ event.kind = element.kind BY <3>1, <3>2, PlacedIsNumber
    <3>5. event.kind \in Kinds BY <3>4 DEF Numbers
    <3>6. input' \in Seq(Numbers) /\ input' # <<>> /\ Last(input') = event
      BY <3>2, <3>3, <3>4, FrontOfAppend
    <3>7. ReadFrom(input') = Read(r, event) /\ PyParse(input') = PyRead(p, event)
      BY <3>2, <3>3, <3>4, ReadOnceMore, PyReadOnceMore
    <3>8. Open = depth BY DEF Open, Count, Depth, Counted
    <3>9. /\ event.kind # "START_NODE" => depth > 0
          /\ event.kind \in {"ARGUMENT", "PROPERTY"} => Last(input).kind # "END_NODE"
      BY <3>1, <3>3, <3>4, <3>8 DEF MayFollow
    <3> HIDE DEF r, p, depth, event
    <3>10. Depth(input') = IF event.kind = "START_NODE" THEN depth + 1
                           ELSE IF event.kind = "END_NODE" THEN depth - 1 ELSE depth
      <4>1. \A kind : /\ Counted(input, kind) \in Nat
                      /\ Counted(input', kind) = IF event.kind = kind THEN Counted(input, kind) + 1
                                                 ELSE Counted(input, kind)
        BY <3>2, <3>3, <3>4, CountedOnceMore DEF event
      <4> QED BY <4>1 DEF Depth, depth
    <3>11. event.kind \in {"ARGUMENT", "PROPERTY"} => p.current_node = r.current_node
      <4>1. ASSUME input = <<>> PROVE depth = 0 BY <4>1, NothingIsCounted DEF Depth, depth
      <4> QED BY <3>2, <3>9, <4>1
    <3>12. Depth(input') \in Nat /\ ReaderIInv(Read(r, event), Depth(input'))
      <4>1. CASE event.kind = "START_NODE"
        <5>1. ReaderIInv(StartNode(r, event), depth + 1) BY <3>2, StartNodeKeeps
        <5> QED BY <3>2, <3>10, <4>1, <5>1 DEF Read
      <4>2. CASE event.kind = "END_NODE"
        <5>1. depth \in Nat \ {0} BY <3>2, <3>9, <4>2
        <5>2. ReaderIInv(EndNode(r), depth - 1) BY <3>2, <5>1, EndNodeKeeps
        <5> QED BY <3>10, <4>2, <5>1, <5>2 DEF Read
      <4>3. CASE event.kind \in {"ARGUMENT", "PROPERTY"}
        <5>1. ReaderIInv(Entry(r, event), depth) BY <3>2, EntryKeeps
        <5> QED BY <3>2, <3>10, <4>3, <5>1 DEF Read
      <4> QED BY <3>5, <4>1, <4>2, <4>3 DEF Kinds
    <3>13. /\ SameButCurrent(Read(r, event), PyRead(p, event))
           /\ event.kind # "END_NODE" =>
                  PyRead(p, event).current_node = Read(r, event).current_node
      BY <3>2, <3>5, <3>11, BothRead
    <3> QED BY <3>6, <3>7, <3>12, <3>13 DEF EventsIInv
  <2>2. CASE UNCHANGED dataVars
    BY <2>2 DEF dataVars, EventsIInv, Depth, Counted
  <2> QED BY <2>1, <2>2
<1> QED BY <1>1, <1>2, PTL DEF DataSpec

\* kdlpp.cpp:183-189: whatever the document, and however long, the pointers the C++ reader
\* goes on with are to nodes that nothing was put behind.
THEOREM PointersAreGood == DataSpec => []PointersStayGood
<1>1. EventsIInv => PointersStayGood
  <2> SUFFICES ASSUME EventsIInv, subject = "events",
                      NEW path \in ToSet(ReadFrom(input).stack)
                                   \cup ({ReadFrom(input).current_node} \ {NoNode})
               PROVE  IsLatest(ReadFrom(input).nodes, path)
    BY DEF PointersStayGood
  <2> DEFINE r == ReadFrom(input)
             depth == Depth(input)
  <2>1. depth \in Nat /\ StackIsPath(r, depth) /\ ListIsOnStack(r) BY DEF EventsIInv, ReaderIInv
  <2> HIDE DEF r, depth
  <2>2. r.stack \in Seq(Seq(Nat)) /\ Len(r.stack) = depth /\ DOMAIN r.stack = 1..depth
    BY <2>1, LenProperties DEF StackIsPath
  <2>3. \A q \in ToSet(r.stack) : IsLatest(r.nodes, q) BY <2>1, <2>2 DEF StackIsPath, ToSet
  <2>4. r.current_node # NoNode => r.current_node \in ToSet(r.stack)
    <3> SUFFICES ASSUME r.current_node # NoNode PROVE r.current_node \in ToSet(r.stack) OBVIOUS
    <3>1. r.stack # <<>> /\ r.current_node = Last(r.stack) BY <2>1 DEF ListIsOnStack
    <3>2. depth # 0 BY <2>1, <3>1, LastOfStack
    <3>3. depth \in DOMAIN r.stack /\ Last(r.stack) = r.stack[depth] BY <2>1, <2>2, <3>2 DEF Last
    <3> QED BY <3>1, <3>3 DEF ToSet
  <2> QED BY <2>3, <2>4 DEF r
<1> QED BY <1>1, EventsInvariant, PTL

\* The C++ reader (kdlpp.cpp:164) and the Python reader (_ckdl.pyx) make the same document
\* of the same events, for documents of every length.
THEOREM SameDocument == DataSpec => []ReadersAgree
<1>1. EventsIInv => ReadersAgree BY DEF EventsIInv, SameButCurrent, ReadersAgree
<1> QED BY <1>1, EventsInvariant, PTL
-----------------------------------------------------------------------------
(***************************************************************************)
(* Numbers in limbs.  What a function that is defined by recursion is, is  *)
(* shown by exhibiting one (Loop, DownTo) and by induction up to its end.  *)
(***************************************************************************)
\* A limb holds a number below 2^DigitBits, which is a natural number.
LEMMA LimbIsNat == Limb \in Nat /\ Limb > 16
<1>1. IsFiniteSet(1..DigitBits) /\ Cardinality(1..DigitBits) = DigitBits
  BY DigitBitsAssumption, FS_Interval
<1>2. IsFiniteSet(SUBSET (1..DigitBits)) /\ Cardinality(SUBSET (1..DigitBits)) = 2^DigitBits
  BY <1>1, FS_SUBSET
<1>3. 2^DigitBits \in Nat BY <1>2, FS_CardinalityType
<1> QED BY <1>3, DigitBitsAssumption DEF Limb

\* Division, and how it compares.
LEMMA DivMod ==
    ASSUME NEW x \in Nat, NEW d \in Nat, d > 0
    PROVE  /\ x \div d \in Nat /\ x % d \in 0..(d - 1)
           /\ x = (x \div d) * d + (x % d)
OBVIOUS

LEMMA HalfIs ==
    ASSUME NEW x \in Nat, x > 16
    PROVE  x \div 2 \in Nat \ {0}
<1>1. PICK d \in Nat : d = 2 OBVIOUS
<1> DEFINE q == x \div d
           r == x % d
<1>2. q \in Nat /\ x = q * d + r /\ r \in 0..(d - 1) BY <1>1, DivMod
<1> HIDE DEF q, r
<1>3. q # 0 BY <1>1, <1>2
<1> QED BY <1>1, <1>2, <1>3 DEF q

LEMMA HalfALimb == ~(0 >= Limb \div 2)
<1> DEFINE h == Limb \div 2
<1>1. h \in Nat \ {0} BY LimbIsNat, HalfIs
<1> HIDE DEF h
<1>2. ~(0 >= h) BY <1>1
<1> QED BY <1>2 DEF h

LEMMA DivBelow ==
    ASSUME NEW x \in Nat, NEW d \in Nat, d > 0, NEW c \in Nat, x < c * d
    PROVE  x \div d < c
<1> DEFINE q == x \div d
<1>1. q \in Nat /\ q * d <= x BY DivMod
<1> HIDE DEF q
<1>2. ASSUME q >= c PROVE FALSE
  <2>1. q * d >= c * d BY <1>1, <1>2
  <2> QED BY <1>1, <2>1
<1> QED BY <1>1, <1>2 DEF q

LEMMA ModBelow ==
    ASSUME NEW d \in Nat, d > 0, NEW x \in 0..(d - 1)
    PROVE  x % d = x
<1>1. x \in Nat /\ x < 1 * d OBVIOUS
<1>2. x \div d < 1 BY <1>1, DivBelow
<1> DEFINE q == x \div d
           r == x % d
<1>3. q \in Nat /\ x = q * d + r /\ r \in 0..(d - 1) BY <1>1, DivMod
<1> HIDE DEF q, r
<1>4. q = 0 BY <1>2, <1>3 DEF q
<1>5. r = x BY <1>3, <1>4
<1> QED BY <1>5 DEF r

\* One step of a loop that multiplies, from what the limbs above are worth to what these are.
LEMMA WorthTimes ==
    ASSUME NEW w \in Nat, NEW l \in Nat, NEW d \in Nat, NEW m \in Nat,
           NEW f \in Nat, NEW g \in Nat, NEW s \in Nat, d * m + f = g * l + s
    PROVE  (w * l + d) * m + f = (w * m + g) * l + s
<1>1. (w * l + d) * m = (w * l) * m + d * m OBVIOUS
<1>2. (w * m + g) * l = (w * m) * l + g * l OBVIOUS
<1>3. (w * l) * m = (w * m) * l OBVIOUS
<1>4. /\ (w * l) * m \in Nat /\ d * m \in Nat /\ g * l \in Nat
      /\ (w * l + d) * m \in Nat /\ (w * m + g) * l \in Nat
  OBVIOUS
<1> QED BY <1>1, <1>2, <1>3, <1>4

\* What a limb holds, and numbers in limbs.
DigitSet == 0..(Limb - 1)
Limbs == {a \in Seq(DigitSet) : a # <<>>}

\* No zeros at the top.
Tidy(a) == Len(a) = 1 \/ a[Len(a)] # 0

LEMMA LimbsHave ==
    ASSUME NEW a \in Limbs
    PROVE  /\ Len(a) \in Nat \ {0} /\ DOMAIN a = 1..Len(a)
           /\ \A i \in 1..Len(a) : a[i] \in DigitSet
           /\ a \in Seq(DigitSet)
BY LenProperties, ElementOfSeq, EmptySeq DEF Limbs

\* What the limbs of a from the i-th on are worth.
AreWorth(f, a) ==
    /\ f[Len(a) + 1] = 0
    /\ \A i \in 1..Len(a) : f[i] = f[i + 1] * Limb + a[i]

\* The same from the top down.
LEMMA DownTo ==
    ASSUME NEW T, NEW n \in Nat, n + 1 \in T, \A k \in 1..n : k + 1 \in T => k \in T
    PROVE  1..(n + 1) \subseteq T
<1> DEFINE U == {j \in 0..n : n + 1 - j \in T}
<1>1. 0 \in U OBVIOUS
<1>2. ASSUME NEW j \in 1..n, j - 1 \in U PROVE j \in U
  <2>1. n + 1 - j \in 1..n /\ (n + 1 - j) + 1 = n + 1 - (j - 1) OBVIOUS
  <2>2. n + 1 - (j - 1) \in T BY <1>2
  <2> QED BY <2>1, <2>2
<1> HIDE DEF U
<1>3. 0..n \subseteq U BY <1>1, <1>2, UpTo
<1> SUFFICES ASSUME NEW k \in 1..(n + 1) PROVE k \in T OBVIOUS
<1>4. n + 1 - k \in 0..n /\ n + 1 - (n + 1 - k) = k OBVIOUS
<1>5. n + 1 - k \in U BY <1>3, <1>4
<1> QED BY <1>4, <1>5 DEF U

\* Whatever satisfies the equations of LongLong holds its value.
LEMMA LongLongIs ==
    ASSUME NEW a, Len(a) \in Nat, NEW f, AreWorth(f, a)
    PROVE  LongLong(a) = f[1]
<1> DEFINE n == Len(a)
           Runs(g) == g = [i \in 1..(n + 1) |-> IF i > n THEN 0 ELSE g[i + 1] * Limb + a[i]]
           g == CHOOSE h : Runs(h)
           h == [i \in 1..(n + 1) |-> f[i]]
<1>1. LongLong(a) = g[1] BY DEF LongLong
<1>2. Runs(h)
  <2>1. \A i \in 1..(n + 1) : h[i] = IF i > n THEN 0 ELSE h[i + 1] * Limb + a[i]
    BY DEF AreWorth
  <2>2. h = [i \in 1..(n + 1) |-> h[i]] OBVIOUS
  <2> HIDE DEF h
  <2> QED BY <2>1, <2>2
<1>3. Runs(g)
  <2> HIDE DEF Runs, h
  <2> QED BY <1>2
<1> HIDE DEF g, h
<1> DEFINE T == {i \in 1..(n + 1) : g[i] = f[i]}
<1>4. \A i \in 1..(n + 1) : g[i] = IF i > n THEN 0 ELSE g[i + 1] * Limb + a[i] BY <1>3
<1>5. n + 1 \in T BY <1>4 DEF AreWorth
<1>6. ASSUME NEW k \in 1..n, k + 1 \in T PROVE k \in T
  <2>1. g[k] = g[k + 1] * Limb + a[k] BY <1>4
  <2>2. f[k] = f[k + 1] * Limb + a[k] BY DEF AreWorth
  <2> QED BY <1>6, <2>1, <2>2
<1> HIDE DEF T
<1>7. 1..(n + 1) \subseteq T BY <1>5, <1>6, DownTo
<1>8. 1 \in T BY <1>7
<1> QED BY <1>1, <1>8 DEF T

LEMMA WorthExists ==
    ASSUME NEW a \in Limbs
    PROVE  \E f \in [1..(Len(a) + 1) -> Nat] : AreWorth(f, a)
<1> DEFINE n == Len(a)
           step == [k \in 1..n |-> [y \in Nat |-> y * Limb + a[n + 1 - k]]]
<1>1. n \in Nat /\ \A i \in 1..n : a[i] \in DigitSet BY LimbsHave
<1>2. step \in [1..n -> [Nat -> Nat]]
  <2>1. ASSUME NEW k \in 1..n, NEW y \in Nat PROVE y * Limb + a[n + 1 - k] \in Nat
    <3>1. n + 1 - k \in 1..n BY <1>1
    <3>2. a[n + 1 - k] \in Nat BY <1>1, <3>1, LimbIsNat DEF DigitSet
    <3> QED BY <3>2, LimbIsNat
  <2> QED BY <2>1
<1> HIDE DEF step
<1>3. PICK g : IsLoop(g, Nat, n, 0, step) BY <1>1, <1>2, Loop
<1>4. g \in [0..n -> Nat] /\ g[0] = 0 /\ \A k \in 1..n : g[k] = step[k][g[k - 1]]
  BY <1>3 DEF IsLoop
<1> DEFINE f == [i \in 1..(n + 1) |-> g[n + 1 - i]]
<1>5. f \in [1..(n + 1) -> Nat] BY <1>1, <1>4
<1>6. f[n + 1] = 0 BY <1>1, <1>4
<1>7. ASSUME NEW i \in 1..n PROVE f[i] = f[i + 1] * Limb + a[i]
  <2> DEFINE k == n + 1 - i
  <2>1. k \in 1..n /\ k - 1 = n + 1 - (i + 1) /\ n + 1 - k = i BY <1>1
  <2>2. g[k] = step[k][g[k - 1]] /\ g[k - 1] \in Nat BY SMTT(60), <1>4, <2>1
  <2>3. g[k] = g[k - 1] * Limb + a[n + 1 - k] BY <2>1, <2>2 DEF step
  <2> QED BY <1>1, <2>1, <2>3
<1> HIDE DEF f
<1>8. AreWorth(f, a) BY <1>6, <1>7 DEF AreWorth
<1> QED BY <1>5, <1>8

LEMMA LongLongIsWorth ==
    ASSUME NEW a \in Limbs
    PROVE  /\ LongLong(a) \in Nat
           /\ \E f \in [1..(Len(a) + 1) -> Nat] : AreWorth(f, a) /\ LongLong(a) = f[1]
<1>1. PICK f \in [1..(Len(a) + 1) -> Nat] : AreWorth(f, a) BY WorthExists
<1>2. Len(a) \in Nat BY LimbsHave
<1>3. LongLong(a) = f[1] BY <1>1, <1>2, LongLongIs
<1>4. f[1] \in Nat BY <1>2
<1> QED BY <1>1, <1>3, <1>4

\* The carries of a loop over the limbs, each multiplied by m, that begins with the carry c.
AreCarries(f, a, m, c) ==
    /\ f \in [0..Len(a) -> DigitSet]
    /\ f[0] = c
    /\ \A i \in 1..Len(a) : f[i] = (a[i] * m + f[i - 1]) \div Limb

\* A carry is less than what the limbs are multiplied by, and fits into a limb.
LEMMA CarryFits ==
    ASSUME NEW d \in DigitSet, NEW m \in DigitSet, NEW c \in DigitSet
    PROVE  d * m + c \in Nat /\ (d * m + c) \div Limb \in DigitSet
<1>1. Limb \in Nat /\ Limb > 16 BY LimbIsNat
<1>2. d \in Nat /\ m \in Nat /\ c \in Nat /\ d <= Limb - 1 /\ m <= Limb - 1 /\ c <= Limb - 1
  BY <1>1 DEF DigitSet
<1>3. d * m \in Nat /\ d * m <= (Limb - 1) * m BY <1>1, <1>2
<1>4. (Limb - 1) * m = Limb * m - m BY <1>1, <1>2
<1>5. d * m + c < (m + 1) * Limb
  <2>1. (m + 1) * Limb = Limb * m + Limb BY <1>1, <1>2
  <2>2. Limb * m \in Int BY <1>1, <1>2
  <2> QED BY <1>1, <1>2, <1>3, <1>4, <2>1, <2>2
<1> DEFINE x == d * m + c
<1>6. x \in Nat BY <1>2, <1>3
<1>7. m + 1 \in Nat BY <1>2
<1> HIDE DEF x
<1>8. x \div Limb < m + 1 /\ x \div Limb \in Nat
  <2>1. x < (m + 1) * Limb BY <1>5 DEF x
  <2> QED BY <1>1, <1>6, <1>7, <2>1, DivBelow, DivMod
<1>9. x \div Limb \in DigitSet BY <1>1, <1>2, <1>8 DEF DigitSet
<1> QED BY <1>6, <1>9 DEF x

LEMMA CarriesExist ==
    ASSUME NEW a \in Limbs, NEW m \in DigitSet, NEW c \in DigitSet
    PROVE  \E f : AreCarries(f, a, m, c)
<1> DEFINE n == Len(a)
           step == [k \in 1..n |-> [y \in DigitSet |-> (a[k] * m + y) \div Limb]]
<1>1. n \in Nat /\ \A i \in 1..n : a[i] \in DigitSet BY LimbsHave
<1>2. step \in [1..n -> [DigitSet -> DigitSet]]
  <2>1. ASSUME NEW k \in 1..n, NEW y \in DigitSet PROVE (a[k] * m + y) \div Limb \in DigitSet
    BY <1>1, CarryFits
  <2> QED BY <2>1
<1> HIDE DEF step
<1>3. PICK f : IsLoop(f, DigitSet, n, c, step) BY <1>1, <1>2, Loop
<1>4. f \in [0..n -> DigitSet] /\ f[0] = c /\ \A k \in 1..n : f[k] = step[k][f[k - 1]]
  BY <1>3 DEF IsLoop
<1>5. ASSUME NEW k \in 1..n PROVE f[k] = (a[k] * m + f[k - 1]) \div Limb
  <2>1. f[k - 1] \in DigitSet BY <1>1, <1>4
  <2> QED BY <1>4, <2>1 DEF step
<1>6. AreCarries(f, a, m, c) BY <1>4, <1>5 DEF AreCarries
<1> QED BY <1>6

\* The loop over all limbs multiplies by m and adds c.
LEMMA CarriedOver ==
    ASSUME NEW a \in Limbs, NEW m \in DigitSet, NEW c \in DigitSet, NEW f, AreCarries(f, a, m, c),
           NEW r, r = Extended([i \in 1..Len(a) |-> (a[i] * m + f[i - 1]) % Limb], f[Len(a)])
    PROVE  /\ r \in Limbs /\ LongLong(r) = LongLong(a) * m + c
           /\ Tidy(a) /\ m # 0 => Tidy(r)
<1> DEFINE n == Len(a)
           s == [i \in 1..n |-> (a[i] * m + f[i - 1]) % Limb]
<1>1. n \in Nat \ {0} /\ \A i \in 1..n : a[i] \in DigitSet BY LimbsHave
<1>2. /\ f \in [0..n -> DigitSet] /\ f[0] = c
      /\ \A i \in 1..n : f[i] = (a[i] * m + f[i - 1]) \div Limb
  BY DEF AreCarries
<1>3. Limb \in Nat /\ Limb > 16 BY LimbIsNat
<1>4. ASSUME NEW i \in 1..n
      PROVE  s[i] \in DigitSet /\ a[i] * m + f[i - 1] = f[i] * Limb + s[i]
  <2> DEFINE x == a[i] * m + f[i - 1]
  <2>1. f[i - 1] \in DigitSet BY SMTT(60), <1>1, <1>2
  <2>2. x \in Nat BY <1>1, <2>1, CarryFits
  <2>3. s[i] = x % Limb /\ f[i] = x \div Limb BY <1>2
  <2> HIDE DEF x, s
  <2>4. x % Limb \in 0..(Limb - 1) /\ x = (x \div Limb) * Limb + (x % Limb) BY <1>3, <2>2, DivMod
  <2> QED BY <2>3, <2>4 DEF DigitSet, x
<1>5. s \in Seq(DigitSet) /\ Len(s) = n /\ s # <<>>
  <2>1. s \in [1..n -> DigitSet]
    <3>1. \A i \in 1..n : s[i] \in DigitSet BY <1>4
    <3>2. s = [i \in 1..n |-> s[i]] OBVIOUS
    <3> HIDE DEF s
    <3> QED BY <3>1, <3>2
  <2> HIDE DEF s
  <2>2. s \in Seq(DigitSet) BY <1>1, <2>1, IsASeq
  <2>3. Len(s) = n BY <1>1, <2>1, <2>2, LenProperties
  <2> QED BY <1>1, <2>2, <2>3, EmptySeq
<1>6. PICK w \in [1..(n + 1) -> Nat] : AreWorth(w, a) /\ LongLong(a) = w[1] BY LongLongIsWorth
<1>7. w[n + 1] = 0 /\ \A i \in 1..n : w[i] = w[i + 1] * Limb + a[i] BY <1>6 DEF AreWorth
<1>8. f[n] \in DigitSet /\ f[n] \in Nat BY <1>1, <1>2, <1>3 DEF DigitSet
<1> DEFINE v == [i \in 1..(n + 2) |-> IF i = n + 2 THEN 0 ELSE w[i] * m + f[i - 1]]
<1>9. v[n + 1] = f[n]
  <2>1. v[n + 1] = 0 * m + f[n] BY <1>1, <1>7
  <2>2. m \in Nat BY <1>3 DEF DigitSet
  <2> QED BY <1>8, <2>1, <2>2
<1>10. ASSUME NEW i \in 1..n PROVE v[i] = v[i + 1] * Limb + s[i]
  <2>1. v[i] = w[i] * m + f[i - 1] /\ v[i + 1] = w[i + 1] * m + f[i] BY <1>1
  <2>2. w[i] = w[i + 1] * Limb + a[i] BY <1>7
  <2>3. /\ w[i + 1] \in Nat /\ a[i] \in Nat /\ m \in Nat /\ f[i] \in Nat /\ f[i - 1] \in Nat
        /\ s[i] \in Nat
    <3>1. DigitSet \subseteq Nat BY <1>3 DEF DigitSet
    <3>2. i \in 0..n /\ i - 1 \in 0..n /\ i + 1 \in 1..(n + 1) BY <1>1
    <3>3. a[i] \in DigitSet /\ s[i] \in DigitSet BY <1>1, <1>4
    <3>4. f[i] \in DigitSet /\ f[i - 1] \in DigitSet BY <1>2, <3>2
    <3> HIDE DEF s, v
    <3> QED BY <1>6, <3>1, <3>2, <3>3, <3>4
  <2>4. a[i] * m + f[i - 1] = f[i] * Limb + s[i] BY <1>4
  <2> HIDE DEF v, s
  <2> DEFINE W == w[i + 1]
             D == a[i]
             F == f[i - 1]
             G == f[i]
             S == s[i]
  <2>5. W \in Nat /\ D \in Nat /\ F \in Nat /\ G \in Nat /\ S \in Nat /\ D * m + F = G * Limb + S
    BY <2>3, <2>4
  <2>6. m \in Nat /\ Limb \in Nat BY <1>3, <2>3
  <2>7. v[i] = (W * Limb + D) * m + F /\ v[i + 1] * Limb + S = (W * m + G) * Limb + S
    BY <2>1, <2>2
  <2> HIDE DEF W, D, F, G, S
  <2>8. (W * Limb + D) * m + F = (W * m + G) * Limb + S BY <2>5, <2>6, WorthTimes
  <2> QED BY <2>7, <2>8 DEF S
<1>11. v[1] = LongLong(a) * m + c BY <1>1, <1>2, <1>6
<1> HIDE DEF s, v
<1>12. CASE f[n] = 0
  <2>1. r = s BY <1>12 DEF Extended, s
  <2>2. AreWorth(v, s) BY <1>5, <1>9, <1>10, <1>12 DEF AreWorth
  <2>3. LongLong(s) = v[1] BY <1>1, <1>5, <2>2, LongLongIs
  <2>4. ASSUME Tidy(a), m # 0 PROVE Tidy(s)
    <3>1. CASE n = 1 BY <1>5, <3>1 DEF Tidy
    <3>2. CASE a[n] # 0
      <4> DEFINE d == a[n]
                 g == f[n - 1]
                 t == s[n]
      <4>1. n \in 1..n /\ n - 1 \in 0..n BY <1>1
      <4>2. d * m + g = f[n] * Limb + t BY <1>4, <4>1
      <4>3. d \in DigitSet /\ g \in DigitSet /\ t \in DigitSet BY <1>1, <1>2, <1>4, <4>1
      <4> HIDE DEF d, g, t
      <4>4. d \in Nat \ {0} /\ g \in Nat /\ t \in Nat /\ m \in Nat \ {0}
        BY <1>3, <2>4, <3>2, <4>3 DEF DigitSet, d
      <4>5. d * m > 0 BY <4>4
      <4>6. d * m + g = t BY <1>3, <1>12, <4>2, <4>4
      <4>7. t # 0 BY <4>4, <4>5, <4>6
      <4> QED BY <1>5, <4>7 DEF Tidy, t
    <3> QED BY <2>4, <3>1, <3>2 DEF Tidy
  <2> QED BY <1>5, <1>11, <2>1, <2>3, <2>4 DEF Limbs
<1>13. CASE f[n] # 0
  <2>1. f[n] % Limb = f[n]
    <3>1. f[n] \in 0..(Limb - 1) BY <1>8 DEF DigitSet
    <3> DEFINE x == f[n]
    <3>2. x \in 0..(Limb - 1) BY <3>1
    <3> HIDE DEF x
    <3>3. x % Limb = x BY SMTT(60), <1>3, <3>2, ModBelow
    <3> QED BY <3>3 DEF x
  <2>2. r = Append(s, f[n]) BY <1>13, <2>1 DEF Extended, s
  <2>3. /\ r \in Seq(DigitSet) /\ r # <<>> /\ Len(r) = n + 1 /\ r[n + 1] = f[n]
        /\ \A i \in 1..n : r[i] = s[i]
    <3>1. f[n] \in DigitSet BY <1>8
    <3>2. s \in Seq(DigitSet) /\ Len(s) = n BY <1>5
    <3> DEFINE d == f[n]
               t == Append(s, d)
    <3> HIDE DEF d
    <3>3. /\ t \in Seq(DigitSet) /\ t # <<>> /\ Len(t) = Len(s) + 1
          /\ \A i \in 1..Len(s) : t[i] = s[i]
          /\ t[Len(s) + 1] = d
      BY <3>1, <3>2, AppendProperties DEF d
    <3> HIDE DEF t
    <3>4. r = t /\ f[n] = d BY <2>2 DEF t, d
    <3> QED BY <3>2, <3>3, <3>4
  <2>4. v[n + 2] = 0 BY <1>1 DEF v
  <2>5. v[n + 1] = v[n + 2] * Limb + r[n + 1] BY <1>3, <1>8, <1>9, <2>3, <2>4
  <2>6. AreWorth(v, r)
    <3>1. v[Len(r) + 1] = 0 BY <1>1, <2>3, <2>4
    <3>2. ASSUME NEW i \in 1..Len(r) PROVE v[i] = v[i + 1] * Limb + r[i]
      <4>1. CASE i = n + 1
        <5>1. i + 1 = n + 2 BY <1>1, <4>1
        <5> QED BY <2>5, <4>1, <5>1
      <4>2. CASE i \in 1..n BY <1>10, <2>3, <4>2
      <4> QED BY <1>1, <2>3, <4>1, <4>2
    <3> QED BY <3>1, <3>2 DEF AreWorth
  <2>7. LongLong(r) = v[1] BY <1>1, <2>3, <2>6, LongLongIs
  <2>8. Tidy(r) BY <1>13, <2>3 DEF Tidy
  <2> QED BY <1>11, <2>3, <2>7, <2>8 DEF Limbs
<1> QED BY <1>12, <1>13

\* The function a loop is defined by holds its carries.
LEMMA LoopHoldsCarries ==
    ASSUME NEW a \in Limbs, NEW m \in DigitSet, NEW c \in DigitSet, NEW g,
           \A i \in 0..Len(a) : g[i] = IF i = 0 THEN c ELSE (a[i] * m + g[i - 1]) \div Limb,
           DOMAIN g = 0..Len(a), g = [i \in DOMAIN g |-> g[i]]
    PROVE  AreCarries(g, a, m, c)
<1> DEFINE n == Len(a)
<1>1. n \in Nat BY LimbsHave
<1>2. PICK f : AreCarries(f, a, m, c) BY CarriesExist
<1>3. /\ f \in [0..n -> DigitSet] /\ f[0] = c
      /\ \A i \in 1..n : f[i] = (a[i] * m + f[i - 1]) \div Limb
  BY <1>2 DEF AreCarries
<1> DEFINE T == {i \in 0..n : g[i] = f[i]}
<1>4. 0 \in T
  <2>1. 0 \in 0..n BY <1>1
  <2>2. g[0] = c BY <2>1
  <2> QED BY <1>3, <2>1, <2>2
<1>5. ASSUME NEW i \in 1..n, i - 1 \in T PROVE i \in T
  <2>1. g[i] = (a[i] * m + g[i - 1]) \div Limb BY <1>1
  <2>2. f[i] = (a[i] * m + f[i - 1]) \div Limb BY <1>3
  <2> QED BY <1>5, <2>1, <2>2
<1> HIDE DEF T
<1>6. 0..n \subseteq T BY <1>1, <1>4, <1>5, UpTo
<1>7. \A i \in 0..n : g[i] = f[i] BY <1>6 DEF T
<1>8. g = f BY <1>3, <1>7
<1> QED BY <1>2, <1>8

\* Plus adds.
LEMMA CarriedPlus ==
    ASSUME NEW a \in Limbs, NEW b \in DigitSet
    PROVE  /\ Plus(a, b) \in Limbs /\ LongLong(Plus(a, b)) = LongLong(a) + b
           /\ Tidy(a) => Tidy(Plus(a, b))
<1> DEFINE n == Len(a)
           Runs(g) == g = [i \in 0..n |-> IF i = 0 THEN b ELSE (a[i] + g[i - 1]) \div Limb]
           g == CHOOSE h : Runs(h)
           r == Extended([i \in DOMAIN a |-> (a[i] + g[i - 1]) % Limb], g[n])
<1>1. n \in Nat /\ DOMAIN a = 1..n /\ \A i \in 1..n : a[i] \in DigitSet BY LimbsHave
<1>2. Plus(a, b) = r BY DEF Plus
<1>3. Limb \in Nat /\ Limb > 16 /\ DigitSet \subseteq Nat BY LimbIsNat DEF DigitSet
<1>4. 1 \in DigitSet BY <1>3 DEF DigitSet
<1>5. \A i \in 1..n : a[i] * 1 = a[i]
  <2>1. \A d \in Nat : d * 1 = d OBVIOUS
  <2>2. \A i \in 1..n : a[i] \in Nat BY <1>1, <1>3
  <2> HIDE DEF n
  <2> QED BY <2>1, <2>2, Zenon
<1>6. PICK f : AreCarries(f, a, 1, b) BY <1>4, CarriesExist
<1>7. /\ f \in [0..n -> DigitSet] /\ f[0] = b
      /\ \A i \in 1..n : f[i] = (a[i] * 1 + f[i - 1]) \div Limb
  BY <1>6 DEF AreCarries
<1>8. Runs(f)
  <2>1. \A i \in 0..n : f[i] = IF i = 0 THEN b ELSE (a[i] + f[i - 1]) \div Limb
    BY <1>1, <1>5, <1>7
  <2>2. f = [i \in 0..n |-> f[i]] BY <1>7
  <2> QED BY <2>1, <2>2
<1>9. Runs(g)
  <2> HIDE DEF Runs
  <2> QED BY <1>8
<1> HIDE DEF g
<1>10. /\ DOMAIN g = 0..n /\ g = [i \in DOMAIN g |-> g[i]]
       /\ \A i \in 0..n : g[i] = IF i = 0 THEN b ELSE (a[i] * 1 + g[i - 1]) \div Limb
  <2>1. \A i \in 0..n : g[i] = IF i = 0 THEN b ELSE (a[i] + g[i - 1]) \div Limb BY <1>9
  <2>2. \A i \in 0..n : g[i] = IF i = 0 THEN b ELSE (a[i] * 1 + g[i - 1]) \div Limb
    BY <1>1, <1>5, <2>1
  <2> QED BY <1>9, <2>2
<1>11. AreCarries(g, a, 1, b) BY <1>4, <1>10, LoopHoldsCarries
<1>12. r = Extended([i \in 1..Len(a) |-> (a[i] * 1 + g[i - 1]) % Limb], g[Len(a)])
  <2>1. \A i \in 1..n : (a[i] + g[i - 1]) % Limb = (a[i] * 1 + g[i - 1]) % Limb BY <1>5
  <2>2. [i \in DOMAIN a |-> (a[i] + g[i - 1]) % Limb] = [i \in 1..n |-> (a[i] * 1 + g[i - 1]) % Limb]
    BY <1>1, <2>1
  <2> QED BY <2>2
<1> HIDE DEF r
<1>13. /\ r \in Limbs /\ LongLong(r) = LongLong(a) * 1 + b
       /\ Tidy(a) => Tidy(r)
  BY <1>4, <1>11, <1>12, CarriedOver
<1>14. LongLong(a) \in Nat BY LongLongIsWorth
<1> QED BY <1>2, <1>13, <1>14

\* Times multiplies.
LEMMA CarriedTimes ==
    ASSUME NEW a \in Limbs, NEW b \in DigitSet
    PROVE  /\ Times(a, b) \in Limbs /\ LongLong(Times(a, b)) = LongLong(a) * b
           /\ Tidy(a) /\ b # 0 => Tidy(Times(a, b))
<1> DEFINE n == Len(a)
           Runs(g) == g = [i \in 0..n |-> IF i = 0 THEN 0 ELSE (a[i] * b + g[i - 1]) \div Limb]
           g == CHOOSE h : Runs(h)
           r == Extended([i \in DOMAIN a |-> (a[i] * b + g[i - 1]) % Limb], g[n])
<1>1. n \in Nat /\ DOMAIN a = 1..n /\ \A i \in 1..n : a[i] \in DigitSet BY LimbsHave
<1>2. Times(a, b) = r BY DEF Times
<1>3. Limb \in Nat /\ Limb > 16 /\ DigitSet \subseteq Nat BY LimbIsNat DEF DigitSet
<1>4. 0 \in DigitSet BY <1>3 DEF DigitSet
<1>5. PICK f : AreCarries(f, a, b, 0) BY <1>4, CarriesExist
<1>6. /\ f \in [0..n -> DigitSet] /\ f[0] = 0
      /\ \A i \in 1..n : f[i] = (a[i] * b + f[i - 1]) \div Limb
  BY <1>5 DEF AreCarries
<1>7. Runs(f)
  <2>1. \A i \in 0..n : f[i] = IF i = 0 THEN 0 ELSE (a[i] * b + f[i - 1]) \div Limb
    BY <1>1, <1>6
  <2>2. f = [i \in 0..n |-> f[i]] BY <1>6
  <2> QED BY <2>1, <2>2
<1>8. Runs(g)
  <2> HIDE DEF Runs
  <2> QED BY <1>7
<1> HIDE DEF g
<1>9. /\ DOMAIN g = 0..n /\ g = [i \in DOMAIN g |-> g[i]]
      /\ \A i \in 0..n : g[i] = IF i = 0 THEN 0 ELSE (a[i] * b + g[i - 1]) \div Limb
  BY <1>8
<1>10. AreCarries(g, a, b, 0) BY <1>4, <1>9, LoopHoldsCarries
<1>11. r = Extended([i \in 1..Len(a) |-> (a[i] * b + g[i - 1]) % Limb], g[Len(a)]) BY <1>1
<1> HIDE DEF r
<1>12. /\ r \in Limbs /\ LongLong(r) = LongLong(a) * b + 0
       /\ Tidy(a) /\ b # 0 => Tidy(r)
  BY <1>4, <1>10, <1>11, CarriedOver
<1>13. LongLong(a) * b \in Nat BY <1>3, LongLongIsWorth
<1> QED BY <1>2, <1>12, <1>13

LEMMA ZeroIs == Zero \in Limbs /\ Tidy(Zero) /\ LongLong(Zero) = 0
<1> DEFINE f == [i \in 1..2 |-> 0]
<1>1. 0 \in DigitSet /\ Limb \in Nat BY LimbIsNat DEF DigitSet
<1>2. Len(Zero) = 1 /\ Zero[1] = 0 /\ Zero \in Seq(DigitSet) /\ Zero # <<>> BY <1>1 DEF Zero
<1>3. f[2] = 0 /\ f[1] = f[2] * Limb + 0 BY <1>1
<1> HIDE DEF f
<1>4. AreWorth(f, Zero) BY <1>2, <1>3 DEF AreWorth
<1>5. LongLong(Zero) = f[1] BY <1>2, <1>4, LongLongIs
<1> QED BY <1>2, <1>5 DEF Limbs, Tidy, f

Numerals == ToSet(HexDigits)

LEMMA NumeralIsWorth == ASSUME NEW c \in Numerals PROVE HexValue[c] \in 0..15
<1>1. \E i \in 1..16 : HexDigits[i] = c BY DEF Numerals, ToSet, HexDigits
<1>2. HexValue[c] = (CHOOSE i \in 1..16 : HexDigits[i] = c) - 1 BY DEF Numerals, HexValue
<1> DEFINE i == CHOOSE k \in 1..16 : HexDigits[k] = c
<1>3. i \in 1..16 BY <1>1
<1> HIDE DEF i
<1>4. i - 1 \in 0..15 BY <1>3
<1> QED BY <1>2, <1>4 DEF i

\* What digits are worth, each times the base to the power of its place.
PlaceValue(digits, base) ==
    LET v[i \in 0..Len(digits)] == IF i = 0 THEN 0 ELSE v[i - 1] * base + digits[i]
    IN v[Len(digits)]

ArePlaceValues(v, digits, base) ==
    /\ v \in [0..Len(digits) -> Nat]
    /\ v[0] = 0
    /\ \A i \in 1..Len(digits) : v[i] = v[i - 1] * base + digits[i]

LEMMA PlaceValueIs ==
    ASSUME NEW digits \in Seq(Nat), NEW base \in Nat, NEW f, ArePlaceValues(f, digits, base)
    PROVE  PlaceValue(digits, base) = f[Len(digits)]
<1> DEFINE n == Len(digits)
           Runs(v) == v = [i \in 0..n |-> IF i = 0 THEN 0 ELSE v[i - 1] * base + digits[i]]
           g == CHOOSE v : Runs(v)
<1>1. n \in Nat BY LenProperties
<1>2. f \in [0..n -> Nat] /\ f[0] = 0 /\ \A i \in 1..n : f[i] = f[i - 1] * base + digits[i]
  BY DEF ArePlaceValues
<1>3. Runs(f)
  <2>1. \A i \in 0..n : f[i] = IF i = 0 THEN 0 ELSE f[i - 1] * base + digits[i] BY <1>1, <1>2
  <2>2. f = [i \in 0..n |-> f[i]] BY <1>2
  <2> QED BY <2>1, <2>2
<1>4. Runs(g)
  <2> HIDE DEF Runs
  <2> QED BY <1>3
<1>5. PlaceValue(digits, base) = g[n] BY DEF PlaceValue
<1> HIDE DEF g
<1>6. \A i \in 0..n : g[i] = IF i = 0 THEN 0 ELSE g[i - 1] * base + digits[i] BY <1>4
<1> DEFINE T == {i \in 0..n : g[i] = f[i]}
<1>7. 0 \in T BY <1>1, <1>2, <1>6
<1>8. ASSUME NEW i \in 1..n, i - 1 \in T PROVE i \in T
  <2>1. g[i] = g[i - 1] * base + digits[i] BY <1>1, <1>6
  <2> QED BY <1>2, <1>8, <2>1
<1> HIDE DEF T
<1>9. 0..n \subseteq T BY <1>1, <1>7, <1>8, UpTo
<1>10. n \in T BY <1>1, <1>9
<1> QED BY <1>5, <1>10 DEF T

LEMMA PlaceValuesExist ==
    ASSUME NEW digits \in Seq(Nat), NEW base \in Nat
    PROVE  \E f : ArePlaceValues(f, digits, base)
<1> DEFINE n == Len(digits)
           step == [k \in 1..n |-> [y \in Nat |-> y * base + digits[k]]]
<1>1. n \in Nat /\ \A i \in 1..n : digits[i] \in Nat BY LenProperties, ElementOfSeq
<1>2. step \in [1..n -> [Nat -> Nat]]
  <2>1. ASSUME NEW k \in 1..n, NEW y \in Nat PROVE y * base + digits[k] \in Nat BY <1>1
  <2> QED BY <2>1
<1> HIDE DEF step
<1>3. PICK f : IsLoop(f, Nat, n, 0, step) BY <1>1, <1>2, Loop
<1>4. f \in [0..n -> Nat] /\ f[0] = 0 /\ \A k \in 1..n : f[k] = step[k][f[k - 1]]
  BY <1>3 DEF IsLoop
<1>5. ASSUME NEW k \in 1..n PROVE f[k] = f[k - 1] * base + digits[k]
  <2>1. k - 1 \in 0..n BY <1>1
  <2>2. f[k] = step[k][f[k - 1]] /\ f[k - 1] \in Nat BY <1>4, <2>1
  <2> QED BY <2>2 DEF step
<1>6. ArePlaceValues(f, digits, base) BY <1>4, <1>5 DEF ArePlaceValues
<1> QED BY <1>6

\* The values of numerals.
Values(used) == [i \in 1..Len(used) |-> HexValue[used[i]]]

LEMMA ValuesAre ==
    ASSUME NEW used \in Seq(Numerals)
    PROVE  /\ Values(used) \in Seq(Nat) /\ Len(Values(used)) = Len(used)
           /\ \A i \in 1..Len(used) :
                  Values(used)[i] = HexValue[used[i]] /\ HexValue[used[i]] \in 0..15
<1> DEFINE n == Len(used)
           s == Values(used)
<1>1. n \in Nat /\ \A i \in 1..n : HexValue[used[i]] \in 0..15
  BY LenProperties, ElementOfSeq, NumeralIsWorth
<1>2. s \in [1..n -> Nat] /\ \A i \in 1..n : s[i] = HexValue[used[i]] BY SMTT(60), <1>1 DEF Values
<1> HIDE DEF s
<1>3. s \in Seq(Nat) BY <1>1, <1>2
<1>4. Len(s) = n BY <1>1, <1>2, <1>3, LenProperties
<1> QED BY <1>1, <1>2, <1>3, <1>4 DEF s

\* Digits, taken in one after the other, are worth what their places say.
LEMMA NumberIsWorth ==
    ASSUME NEW used \in Seq(Numerals), NEW base \in 2..16
    PROVE  /\ NumberOf(used, base) \in Limbs /\ Tidy(NumberOf(used, base))
           /\ LongLong(NumberOf(used, base)) = PlaceValue(Values(used), base)
<1> DEFINE n == Len(used)
           next(y, k) == Plus(Times(y, base), HexValue[used[k]])
           step == [k \in 1..n |-> [y \in Limbs |-> next(y, k)]]
           Runs(h) == h = [i \in 0..n |-> IF i = 0 THEN Zero
                                          ELSE Plus(Times(h[i - 1], base), HexValue[used[i]])]
           g == CHOOSE h : Runs(h)
<1>1. n \in Nat /\ \A i \in 1..n : HexValue[used[i]] \in 0..15
  BY LenProperties, ElementOfSeq, NumeralIsWorth
<1>2. base \in DigitSet /\ 0..15 \subseteq DigitSet BY LimbIsNat DEF DigitSet
<1>3. ASSUME NEW y \in Limbs, NEW k \in 1..n
      PROVE  /\ next(y, k) \in Limbs /\ LongLong(next(y, k)) = LongLong(y) * base + HexValue[used[k]]
             /\ Tidy(y) => Tidy(next(y, k))
  <2>1. /\ Times(y, base) \in Limbs /\ LongLong(Times(y, base)) = LongLong(y) * base
        /\ Tidy(y) => Tidy(Times(y, base))
    <3>1. base \in DigitSet /\ base # 0 BY <1>2
    <3> QED BY <3>1, CarriedTimes
  <2>2. HexValue[used[k]] \in DigitSet BY <1>1, <1>2
  <2> QED BY <2>1, <2>2, CarriedPlus
<1> HIDE DEF next
<1>4. step \in [1..n -> [Limbs -> Limbs]] BY <1>3
<1> HIDE DEF step
<1>5. PICK f : IsLoop(f, Limbs, n, Zero, step) BY <1>1, <1>4, Loop, ZeroIs
<1>6. f \in [0..n -> Limbs] /\ f[0] = Zero /\ \A k \in 1..n : f[k] = step[k][f[k - 1]]
  BY <1>5 DEF IsLoop
<1>7. ASSUME NEW k \in 1..n PROVE f[k] = next(f[k - 1], k)
  <2>1. f[k] = step[k][f[k - 1]] /\ f[k - 1] \in Limbs BY <1>1, <1>6
  <2> QED BY <2>1 DEF step
<1>8. Runs(f)
  <2>1. \A i \in 0..n : f[i] = IF i = 0 THEN Zero
                               ELSE Plus(Times(f[i - 1], base), HexValue[used[i]])
    BY <1>1, <1>6, <1>7 DEF next
  <2>2. f = [i \in 0..n |-> f[i]] BY <1>6
  <2> QED BY <2>1, <2>2
<1>9. Runs(g)
  <2> HIDE DEF Runs
  <2> QED BY <1>8
<1>10. NumberOf(used, base) = g[n] BY DEF NumberOf
<1> HIDE DEF g
<1>11. \A i \in 0..n : g[i] = IF i = 0 THEN Zero
                              ELSE Plus(Times(g[i - 1], base), HexValue[used[i]])
  BY <1>9
<1> DEFINE T == {i \in 0..n : g[i] = f[i]}
<1>12. 0 \in T BY <1>1, <1>6, <1>11
<1>13. ASSUME NEW i \in 1..n, i - 1 \in T PROVE i \in T
  <2>1. g[i] = next(g[i - 1], i) BY <1>1, <1>11 DEF next
  <2> QED BY <1>7, <1>13, <2>1
<1> HIDE DEF T
<1>14. 0..n \subseteq T BY <1>1, <1>12, <1>13, UpTo
<1>15. n \in T BY <1>1, <1>14
<1>16. NumberOf(used, base) = f[n] BY <1>10, <1>15 DEF T
<1>17. PICK v : ArePlaceValues(v, Values(used), base) BY PlaceValuesExist, ValuesAre
<1>18. /\ v \in [0..n -> Nat] /\ v[0] = 0
       /\ \A i \in 1..n : v[i] = v[i - 1] * base + HexValue[used[i]]
       /\ v[n] = PlaceValue(Values(used), base)
  <2>1. /\ Values(used) \in Seq(Nat) /\ Len(Values(used)) = n
        /\ \A i \in 1..n : Values(used)[i] = HexValue[used[i]]
    BY ValuesAre
  <2>2. PlaceValue(Values(used), base) = v[n] BY <1>17, <2>1, PlaceValueIs
  <2> QED BY <1>17, <2>1, <2>2 DEF ArePlaceValues
<1> DEFINE W == {i \in 0..n : LongLong(f[i]) = v[i] /\ Tidy(f[i])}
<1>19. 0 \in W BY <1>1, <1>6, <1>18, ZeroIs
<1>20. ASSUME NEW i \in 1..n, i - 1 \in W PROVE i \in W
  <2>1. f[i - 1] \in Limbs BY <1>1, <1>6
  <2>2. /\ LongLong(f[i]) = LongLong(f[i - 1]) * base + HexValue[used[i]]
        /\ Tidy(f[i - 1]) => Tidy(f[i])
    BY <1>3, <1>7, <2>1
  <2> QED BY <1>18, <1>20, <2>2
<1> HIDE DEF W
<1>21. 0..n \subseteq W BY <1>1, <1>19, <1>20, UpTo
<1>22. n \in W BY <1>1, <1>21
<1>23. f[n] \in Limbs BY <1>1, <1>6
<1> QED BY <1>16, <1>18, <1>22, <1>23 DEF W

\* With a limb at the top that is not zero, the limbs are worth something from each on.
LEMMA TopIsWorth ==
    ASSUME NEW a \in Limbs, a[Len(a)] # 0, NEW w \in [1..(Len(a) + 1) -> Nat], AreWorth(w, a)
    PROVE  \A i \in 1..Len(a) : w[i] \in Nat \ {0}
<1> DEFINE n == Len(a)
           m == n - 1
           T == {i \in 1..n : w[i] # 0}
<1>1. n \in Nat \ {0} /\ \A i \in 1..n : a[i] \in DigitSet BY LimbsHave
<1>2. w[n + 1] = 0 /\ \A i \in 1..n : w[i] = w[i + 1] * Limb + a[i] BY DEF AreWorth
<1>3. Limb \in Nat /\ Limb > 16 /\ DigitSet \subseteq Nat BY LimbIsNat DEF DigitSet
<1>4. m \in Nat /\ m + 1 = n /\ n \in 1..n BY <1>1
<1>5. n \in T
  <2> DEFINE d == a[n]
  <2>1. w[n] = 0 * Limb + d BY <1>2, <1>4
  <2>2. d \in Nat \ {0} BY <1>1, <1>3, <1>4
  <2> HIDE DEF d
  <2>3. 0 * Limb + d = d BY <1>3, <2>2
  <2> QED BY <1>4, <2>1, <2>2, <2>3
<1>6. ASSUME NEW i \in 1..m, i + 1 \in T PROVE i \in T
  <2> DEFINE x == w[i + 1]
             d == a[i]
  <2>1. i \in 1..n /\ i + 1 \in 1..(n + 1) BY <1>4
  <2>2. w[i] = x * Limb + d BY <1>2, <2>1
  <2>3. x \in Nat \ {0} /\ d \in Nat BY <1>1, <1>3, <1>6, <2>1
  <2> HIDE DEF x, d
  <2>4. x * Limb >= Limb /\ x * Limb \in Nat BY <1>3, <2>3
  <2>5. x * Limb + d # 0 BY <1>3, <2>3, <2>4
  <2> QED BY <2>1, <2>2, <2>5
<1> HIDE DEF T, m
<1>7. 1..(m + 1) \subseteq T BY <1>4, <1>5, <1>6, DownTo
<1>8. 1..n \subseteq T BY <1>4, <1>7
<1> QED BY <1>8 DEF T

\* What a long long holds, from zero on: half of what its limbs hold.
LongLongSize == IF LimbsPerLongLong = 1 THEN Limb ELSE Limb * Limb

\* What passes the test fits, and what does not pass is half a limb at least.
LEMMA LongLongFits ==
    ASSUME NEW a \in Limbs
    PROVE  /\ IsLongLong(a) => 2 * LongLong(a) < LongLongSize
           /\ Tidy(a) /\ ~IsLongLong(a) => LongLong(a) >= Limb \div 2
<1> DEFINE n == Len(a)
           top == a[n]
           half == Limb \div 2
<1>1. n \in Nat \ {0} /\ \A i \in 1..n : a[i] \in DigitSet BY LimbsHave
<1>2. PICK w \in [1..(n + 1) -> Nat] : AreWorth(w, a) /\ LongLong(a) = w[1] BY LongLongIsWorth
<1>3. w[n + 1] = 0 /\ \A i \in 1..n : w[i] = w[i + 1] * Limb + a[i] BY <1>2 DEF AreWorth
<1>4. Limb \in Nat /\ Limb > 16 BY LimbIsNat
<1>5. top \in 0..(Limb - 1)
  <2>1. n \in 1..n BY <1>1
  <2> QED BY <1>1, <2>1 DEF DigitSet
<1>6. half \in Nat /\ 2 * half <= Limb /\ half <= Limb BY <1>4
<1>7. w[n] = top
  <2>1. n \in 1..n BY <1>1
  <2>2. w[n] = 0 * Limb + top BY <1>3, <2>1
  <2> QED BY <1>4, <1>5, <2>2
<1>8. IsLongLong(a) <=> n <= LimbsPerLongLong /\ top < half BY DEF IsLongLong
<1> HIDE DEF half, top
<1>9. ASSUME IsLongLong(a) PROVE 2 * LongLong(a) < LongLongSize
  <2>1. n <= LimbsPerLongLong /\ top < half BY <1>8, <1>9
  <2>2. 2 * top + 2 <= Limb BY <1>4, <1>5, <1>6, <2>1
  <2>3. CASE n = 1
    <3>1. LongLong(a) = top BY <1>2, <1>7, <2>3
    <3>2. 2 * top < Limb BY <1>4, <1>5, <2>2
    <3>3. Limb <= Limb * Limb BY <1>4
    <3>4. Limb * Limb \in Nat BY <1>4
    <3> QED BY <1>4, <1>5, <3>1, <3>2, <3>3, <3>4 DEF LongLongSize
  <2>4. CASE n = 2
    <3>1. LimbsPerLongLong = 2 BY <2>1, <2>4, LimbsAssumption
    <3>2. 1 \in 1..n /\ 1 + 1 = n BY <2>4
    <3> DEFINE low == a[1]
    <3>3. LongLong(a) = top * Limb + low BY <1>2, <1>3, <1>7, <3>2
    <3>4. low \in 0..(Limb - 1) BY <1>1, <3>2 DEF DigitSet
    <3> HIDE DEF low
    <3>5. (2 * top + 2) * Limb <= Limb * Limb BY <1>4, <1>5, <2>2
    <3>6. (2 * top + 2) * Limb = 2 * (top * Limb) + 2 * Limb BY <1>4, <1>5
    <3>7. top * Limb \in Nat /\ Limb * Limb \in Nat BY <1>4, <1>5
    <3>8. 2 * (top * Limb + low) < Limb * Limb BY <1>4, <3>4, <3>5, <3>6, <3>7
    <3> QED BY <3>1, <3>3, <3>8 DEF LongLongSize
  <2>5. n = 1 \/ n = 2
    <3> HIDE DEF n
    <3>1. n <= 2 BY <1>1, <2>1, LimbsAssumption
    <3> QED BY <1>1, <3>1
  <2> QED BY <2>3, <2>4, <2>5
<1>10. ASSUME Tidy(a), ~IsLongLong(a) PROVE LongLong(a) >= half
  <2>1. CASE n = 1
    <3>1. ~(top < half) BY <1>8, <1>10, <2>1, LimbsAssumption
    <3>2. LongLong(a) = top BY <1>2, <1>7, <2>1
    <3> QED BY <1>5, <1>6, <3>1, <3>2
  <2>2. CASE n # 1
    <3>1. top > 0 BY <1>5, <1>10, <2>2 DEF Tidy, top
    <3>2. a[n] # 0 BY <1>5, <3>1 DEF top
    <3>3. \A i \in 1..n : w[i] \in Nat \ {0} BY <1>2, <3>2, TopIsWorth
    <3>4. 1 \in 1..n /\ 2 \in 1..n
      <4> HIDE DEF n
      <4> QED BY <1>1, <2>2
    <3> DEFINE x == w[2]
               d == a[1]
    <3>5. x \in Nat \ {0} BY <3>3, <3>4
    <3>6. LongLong(a) = x * Limb + d BY <1>2, <1>3, <3>4
    <3>7. d \in 0..(Limb - 1) BY <1>1, <3>4 DEF DigitSet
    <3> HIDE DEF x, d
    <3>8. x * Limb >= Limb BY <1>4, <3>5
    <3>9. x * Limb + d >= half BY <1>4, <1>6, <3>5, <3>7, <3>8
    <3> QED BY <3>6, <3>9
  <2> QED BY <2>1, <2>2
<1> QED BY <1>9, <1>10 DEF half

\* One step of the division, at one limb.
LEMMA LimbDivided ==
    ASSUME NEW d \in DigitSet, NEW b \in DigitSet \ {0}, NEW r \in 0..(b - 1)
    PROVE  /\ (d + r * Limb) % b \in 0..(b - 1) /\ (d + r * Limb) \div b \in DigitSet
           /\ d + r * Limb = ((d + r * Limb) \div b) * b + ((d + r * Limb) % b)
<1> DEFINE x == d + r * Limb
<1>1. Limb \in Nat /\ Limb > 16 BY LimbIsNat
<1>2. d \in Nat /\ d <= Limb - 1 /\ b \in Nat /\ b > 0 /\ r \in Nat /\ r <= b - 1
  BY <1>1 DEF DigitSet
<1>3. r * Limb \in Nat /\ r * Limb <= (b - 1) * Limb BY <1>1, <1>2
<1>4. (b - 1) * Limb = Limb * b - Limb /\ Limb * b \in Nat BY <1>1, <1>2
<1>5. x \in Nat /\ x < Limb * b BY <1>1, <1>2, <1>3, <1>4
<1> HIDE DEF x
<1>6. x \div b \in Nat /\ x % b \in 0..(b - 1) /\ x = (x \div b) * b + (x % b)
  BY <1>2, <1>5, DivMod
<1>7. x \div b < Limb BY <1>1, <1>2, <1>5, DivBelow
<1>8. x \div b \in DigitSet BY <1>1, <1>6, <1>7 DEF DigitSet
<1> QED BY <1>6, <1>8 DEF x

LEMMA WorthDivided ==
    ASSUME NEW v \in Nat, NEW l \in Nat, NEW d \in Nat, NEW b \in Nat,
           NEW r \in Nat, NEW q \in Nat, NEW s \in Nat, d + r * l = q * b + s
    PROVE  (v * b + r) * l + d = (v * l + q) * b + s
<1>1. (v * b + r) * l = (v * b) * l + r * l OBVIOUS
<1>2. (v * l + q) * b = (v * l) * b + q * b OBVIOUS
<1>3. (v * b) * l = (v * l) * b OBVIOUS
<1>4. /\ (v * b) * l \in Nat /\ r * l \in Nat /\ q * b \in Nat
      /\ (v * b + r) * l \in Nat /\ (v * l + q) * b \in Nat
  OBVIOUS
<1> QED BY <1>1, <1>2, <1>3, <1>4

\* A set of positions has a last one.
LEMMA LastOf ==
    ASSUME NEW n \in Nat, NEW T \in SUBSET (1..n), T # {}
    PROVE  Max(T) \in T /\ \A i \in T : i <= Max(T)
<1> DEFINE U == {n - i : i \in T}
<1>1. U \in SUBSET Nat /\ U # {}
  <2>1. ASSUME NEW i \in T PROVE n - i \in Nat
    <3>1. i \in 1..n OBVIOUS
    <3> QED BY <3>1
  <2> QED BY <2>1
<1> HIDE DEF U
<1>2. PICK k \in U : \A j \in U : k <= j BY <1>1, Least
<1>3. PICK m \in T : k = n - m BY <1>2 DEF U
<1>4. ASSUME NEW i \in T PROVE m >= i
  <2>1. n - i \in U BY DEF U
  <2>2. n - m <= n - i BY <1>2, <1>3, <2>1
  <2> QED BY <2>2
<1>5. \E x \in T : \A y \in T : x >= y BY <1>3, <1>4
<1>6. Max(T) \in T /\ \A y \in T : Max(T) >= y BY <1>5 DEF Max
<1>7. \A i \in T : i \in Nat BY <1>5
<1> QED BY <1>6, <1>7

\* Zeros at the top are worth nothing.
LEMMA ShrunkIs ==
    ASSUME NEW a \in Limbs
    PROVE  Shrunk(a) \in Limbs /\ Tidy(Shrunk(a)) /\ LongLong(Shrunk(a)) = LongLong(a)
<1> DEFINE n == Len(a)
           T == {1} \cup {i \in DOMAIN a : a[i] # 0}
           m == Max(T)
           s == Shrunk(a)
<1>1. n \in Nat \ {0} /\ DOMAIN a = 1..n /\ \A i \in 1..n : a[i] \in DigitSet BY LimbsHave
<1>2. T \in SUBSET (1..n) /\ T # {} BY <1>1
<1>3. m \in T /\ \A i \in T : i <= m
  <2> HIDE DEF T
  <2> QED BY <1>1, <1>2, LastOf
<1>4. s = SubSeq(a, 1, m) BY DEF Shrunk
<1> HIDE DEF m, s
<1>5. m \in 1..n BY <1>2, <1>3
<1> HIDE DEF n
<1>6. s \in Seq(DigitSet) /\ Len(s) = m /\ \A i \in 1..m : s[i] = a[i]
  <2>1. \A i \in 1..m : a[i] \in DigitSet BY <1>1, <1>5
  <2>2. m \in Int /\ m - 1 + 1 = m /\ 1 <= m BY <1>1, <1>5
  <2>3. \A i \in 1..m : 1 + i - 1 = i BY <1>1, <1>5
  <2> QED BY <1>4, <2>1, <2>2, <2>3, SubSeqProperties
<1>7. s \in Limbs
  <2>1. Len(s) # 0 BY <1>1, <1>5, <1>6
  <2> QED BY <1>6, <2>1, EmptySeq DEF Limbs
<1>8. Tidy(s)
  <2>1. m = 1 \/ a[m] # 0 BY <1>3
  <2>2. m \in 1..m BY <1>1, <1>5
  <2> QED BY <1>6, <2>1, <2>2 DEF Tidy
<1>9. PICK w \in [1..(n + 1) -> Nat] : AreWorth(w, a) /\ LongLong(a) = w[1]
  BY LongLongIsWorth DEF n
<1>10. w[n + 1] = 0 /\ \A i \in 1..n : w[i] = w[i + 1] * Limb + a[i] BY <1>9 DEF AreWorth, n
<1>11. w[m + 1] = 0
  <2> DEFINE Z == {i \in 1..(n + 1) : i > m => w[i] = 0}
  <2>1. n + 1 \in Z BY <1>1, <1>10
  <2>2. ASSUME NEW i \in 1..n, i + 1 \in Z PROVE i \in Z
    <3> SUFFICES ASSUME i > m PROVE w[i] = 0 BY <1>1
    <3>1. a[i] = 0 BY <1>1, <1>3, <1>5
    <3>2. w[i + 1] = 0 BY <1>1, <1>5, <2>2
    <3>3. w[i] = 0 * Limb + 0 BY <1>10, <3>1, <3>2
    <3> QED BY <3>3, LimbIsNat
  <2> HIDE DEF Z
  <2>3. 1..(n + 1) \subseteq Z BY <1>1, <2>1, <2>2, DownTo
  <2>4. m + 1 \in Z BY <1>1, <1>5, <2>3
  <2>5. m + 1 > m BY <1>1, <1>5
  <2> QED BY <2>4, <2>5 DEF Z
<1>12. AreWorth(w, s)
  <2>1. ASSUME NEW i \in 1..m PROVE w[i] = w[i + 1] * Limb + s[i]
    <3>1. i \in 1..n BY <1>1, <1>5
    <3> QED BY <1>6, <1>10, <3>1
  <2> QED BY <1>6, <1>11, <2>1 DEF AreWorth
<1>13. LongLong(s) = w[1]
  <2>1. Len(s) \in Nat BY <1>1, <1>5, <1>6
  <2> QED BY <1>12, <2>1, LongLongIs
<1> QED BY <1>7, <1>8, <1>9, <1>13 DEF s

\* The remainders of the division by b, from the top down.
AreRemainders(f, a, b) ==
    /\ f \in [1..(Len(a) + 1) -> 0..(b - 1)]
    /\ f[Len(a) + 1] = 0
    /\ \A i \in 1..Len(a) : f[i] = (a[i] + f[i + 1] * Limb) % b

LEMMA RemaindersExist ==
    ASSUME NEW a \in Limbs, NEW b \in DigitSet \ {0}
    PROVE  \E f : AreRemainders(f, a, b)
<1> DEFINE n == Len(a)
           R == 0..(b - 1)
           step == [k \in 1..n |-> [y \in R |-> (a[n + 1 - k] + y * Limb) % b]]
<1>1. n \in Nat /\ \A i \in 1..n : a[i] \in DigitSet BY LimbsHave
<1>2. 0 \in R BY LimbIsNat DEF DigitSet
<1>3. step \in [1..n -> [R -> R]]
  <2>1. ASSUME NEW k \in 1..n, NEW y \in R PROVE (a[n + 1 - k] + y * Limb) % b \in R
    <3>1. n + 1 - k \in 1..n BY <1>1
    <3>2. a[n + 1 - k] \in DigitSet BY <1>1, <3>1
    <3> QED BY <3>2, LimbDivided
  <2> HIDE DEF R
  <2> QED BY <2>1
<1> HIDE DEF step, R
<1>4. PICK g : IsLoop(g, R, n, 0, step) BY <1>1, <1>2, <1>3, Loop
<1>5. g \in [0..n -> R] /\ g[0] = 0 /\ \A k \in 1..n : g[k] = step[k][g[k - 1]]
  BY <1>4 DEF IsLoop
<1> DEFINE f == [i \in 1..(n + 1) |-> g[n + 1 - i]]
<1>6. f \in [1..(n + 1) -> R] BY <1>1, <1>5
<1>7. f[n + 1] = 0 BY <1>1, <1>5
<1>8. ASSUME NEW i \in 1..n PROVE f[i] = (a[i] + f[i + 1] * Limb) % b
  <2> DEFINE k == n + 1 - i
  <2>1. k \in 1..n /\ k - 1 = n + 1 - (i + 1) /\ n + 1 - k = i BY <1>1
  <2>2. k - 1 \in 0..n BY <1>1, <2>1
  <2>3. g[k] = step[k][g[k - 1]] /\ g[k - 1] \in R BY <1>5, <2>1, <2>2
  <2>4. g[k] = (a[n + 1 - k] + g[k - 1] * Limb) % b BY <2>1, <2>3 DEF step
  <2> QED BY <1>1, <2>1, <2>4
<1> HIDE DEF f
<1>9. AreRemainders(f, a, b) BY <1>6, <1>7, <1>8 DEF AreRemainders, R
<1> QED BY <1>9

\* Dividing the limbs divides what they are worth.
LEMMA DividedIsWorth ==
    ASSUME NEW a \in Limbs, NEW b \in DigitSet \ {0}
    PROVE  /\ DividedBy(a, b).quotient \in Limbs /\ Tidy(DividedBy(a, b).quotient)
           /\ DividedBy(a, b).rem \in 0..(b - 1)
           /\ LongLong(a) = LongLong(DividedBy(a, b).quotient) * b + DividedBy(a, b).rem
<1> DEFINE n == Len(a)
           Runs(h) == h = [i \in 1..(n + 1) |->
                              IF i > n THEN 0 ELSE (a[i] + h[i + 1] * Limb) % b]
           g == CHOOSE h : Runs(h)
           s == [i \in DOMAIN a |-> (a[i] + g[i + 1] * Limb) \div b]
<1>1. n \in Nat \ {0} /\ DOMAIN a = 1..n /\ \A i \in 1..n : a[i] \in DigitSet BY LimbsHave
<1>2. Limb \in Nat /\ b \in Nat /\ DigitSet \subseteq Nat BY LimbIsNat DEF DigitSet
<1>3. DividedBy(a, b) = [rem |-> g[1], quotient |-> Shrunk(s)] BY DEF DividedBy
<1>4. PICK f : AreRemainders(f, a, b) BY RemaindersExist
<1>5. /\ f \in [1..(n + 1) -> 0..(b - 1)] /\ f[n + 1] = 0
      /\ \A i \in 1..n : f[i] = (a[i] + f[i + 1] * Limb) % b
  BY <1>4 DEF AreRemainders
<1>6. Runs(f)
  <2>1. ASSUME NEW i \in 1..(n + 1)
        PROVE  f[i] = IF i > n THEN 0 ELSE (a[i] + f[i + 1] * Limb) % b
    <3>1. CASE i > n
      <4>1. i = n + 1 BY <1>1, <3>1
      <4> QED BY <1>5, <3>1, <4>1
    <3>2. CASE ~(i > n)
      <4>1. i \in 1..n BY <1>1, <3>2
      <4> QED BY <1>5, <3>2, <4>1
    <3> QED BY <3>1, <3>2
  <2>2. f = [i \in 1..(n + 1) |-> f[i]] BY <1>5
  <2> QED BY <2>1, <2>2
<1>7. Runs(g)
  <2> HIDE DEF Runs
  <2> QED BY <1>6
<1> HIDE DEF g
<1>8. \A i \in 1..(n + 1) : g[i] = IF i > n THEN 0 ELSE (a[i] + g[i + 1] * Limb) % b BY <1>7
<1> DEFINE T == {i \in 1..(n + 1) : g[i] = f[i]}
<1>9. n + 1 \in T BY <1>1, <1>5, <1>8
<1>10. ASSUME NEW i \in 1..n, i + 1 \in T PROVE i \in T
  <2>1. i \in 1..(n + 1) /\ ~(i > n) BY <1>1
  <2>2. g[i] = (a[i] + g[i + 1] * Limb) % b BY <1>8, <2>1
  <2>3. g[i + 1] = f[i + 1] BY <1>10
  <2> QED BY <1>5, <2>1, <2>2, <2>3
<1> HIDE DEF T
<1>11. 1..(n + 1) \subseteq T BY <1>1, <1>9, <1>10, DownTo
<1>12. ASSUME NEW i \in 1..(n + 1) PROVE g[i] = f[i] /\ f[i] \in 0..(b - 1) /\ f[i] \in Nat
  <2>1. g[i] = f[i] BY <1>11 DEF T
  <2>2. f[i] \in 0..(b - 1) BY <1>5
  <2> QED BY <2>1, <2>2
<1>13. ASSUME NEW i \in 1..n
       PROVE  s[i] \in DigitSet /\ a[i] + f[i + 1] * Limb = s[i] * b + f[i]
  <2> DEFINE d == a[i]
             r == f[i + 1]
  <2>1. d \in DigitSet BY <1>1
  <2>2. i + 1 \in 1..(n + 1) BY <1>1
  <2>3. r \in 0..(b - 1) /\ g[i + 1] = r BY <1>12, <2>2
  <2>4. s[i] = (d + r * Limb) \div b BY <1>1, <2>3
  <2>5. f[i] = (d + r * Limb) % b BY <1>5
  <2> HIDE DEF d, r, s
  <2>6. /\ (d + r * Limb) \div b \in DigitSet
        /\ d + r * Limb = ((d + r * Limb) \div b) * b + ((d + r * Limb) % b)
    BY <2>1, <2>3, LimbDivided
  <2> QED BY <2>4, <2>5, <2>6 DEF d, r
<1>14. s \in Limbs /\ Len(s) = n
  <2>1. s = [i \in 1..n |-> s[i]] BY <1>1
  <2> HIDE DEF s
  <2>2. s \in [1..n -> DigitSet] BY <1>13, <2>1
  <2>3. s \in Seq(DigitSet) BY <1>1, <2>2
  <2>4. Len(s) = n BY <1>1, <2>2, <2>3, LenProperties
  <2> QED BY <1>1, <2>3, <2>4, EmptySeq DEF Limbs
<1>15. PICK v \in [1..(n + 1) -> Nat] : AreWorth(v, s) /\ LongLong(s) = v[1]
  BY <1>14, LongLongIsWorth
<1>16. v[n + 1] = 0 /\ \A i \in 1..n : v[i] = v[i + 1] * Limb + s[i]
  BY <1>14, <1>15 DEF AreWorth
<1>17. PICK w \in [1..(n + 1) -> Nat] : AreWorth(w, a) /\ LongLong(a) = w[1]
  BY LongLongIsWorth
<1>18. w[n + 1] = 0 /\ \A i \in 1..n : w[i] = w[i + 1] * Limb + a[i] BY <1>17 DEF AreWorth
<1> HIDE DEF s
<1> DEFINE W == {i \in 1..(n + 1) : w[i] = v[i] * b + f[i]}
<1>19. n + 1 \in W BY <1>1, <1>2, <1>5, <1>16, <1>18
<1>20. ASSUME NEW i \in 1..n, i + 1 \in W PROVE i \in W
  <2> DEFINE V == v[i + 1]
             D == a[i]
             R == f[i + 1]
             Q == s[i]
             S == f[i]
  <2>1. i + 1 \in 1..(n + 1) /\ i \in 1..(n + 1) BY <1>1
  <2>2. w[i] = (V * b + R) * Limb + D BY <1>18, <1>20
  <2>3. v[i] = V * Limb + Q BY <1>16
  <2>4. D + R * Limb = Q * b + S BY <1>13
  <2>5. V \in Nat BY <1>15, <2>1
  <2>6. D \in Nat /\ Q \in Nat BY <1>1, <1>2, <1>13
  <2>7. R \in Nat /\ S \in Nat BY <1>12, <2>1
  <2> HIDE DEF V, D, R, Q, S
  <2>8. (V * b + R) * Limb + D = (V * Limb + Q) * b + S
    BY <1>2, <2>4, <2>5, <2>6, <2>7, WorthDivided
  <2> QED BY <2>1, <2>2, <2>3, <2>8 DEF S
<1> HIDE DEF W
<1>21. 1..(n + 1) \subseteq W BY <1>1, <1>19, <1>20, DownTo
<1>22. 1 \in W /\ 1 \in 1..(n + 1) BY <1>1, <1>21
<1>23. LongLong(a) = LongLong(s) * b + f[1] BY <1>15, <1>17, <1>22 DEF W
<1>24. Shrunk(s) \in Limbs /\ Tidy(Shrunk(s)) /\ LongLong(Shrunk(s)) = LongLong(s)
  BY <1>14, ShrunkIs
<1> QED BY <1>3, <1>12, <1>22, <1>23, <1>24

LEMMA TenToIs ==
    ASSUME NEW n \in Nat
    PROVE  \E f \in [0..n -> Nat \ {0}] : /\ f[0] = 1 /\ \A k \in 1..n : f[k] = f[k - 1] * 10
                                          /\ f[n] = TenTo(n)
<1> DEFINE P == Nat \ {0}
           step == [k \in 1..n |-> [y \in P |-> y * 10]]
           Runs(h) == h = [k \in 0..n |-> IF k = 0 THEN 1 ELSE h[k - 1] * 10]
           g == CHOOSE h : Runs(h)
<1>1. step \in [1..n -> [P -> P]]
  <2>1. ASSUME NEW k \in 1..n, NEW y \in P PROVE y * 10 \in P OBVIOUS
  <2> QED BY <2>1
<1> HIDE DEF step
<1>2. PICK f : IsLoop(f, P, n, 1, step)
  <2>1. 1 \in P OBVIOUS
  <2> HIDE DEF P
  <2> QED BY <1>1, <2>1, Loop
<1>3. f \in [0..n -> P] /\ f[0] = 1 /\ \A k \in 1..n : f[k] = step[k][f[k - 1]]
  BY <1>2 DEF IsLoop
<1>4. ASSUME NEW k \in 1..n PROVE f[k] = f[k - 1] * 10
  <2>1. k - 1 \in 0..n OBVIOUS
  <2>2. f[k] = step[k][f[k - 1]] /\ f[k - 1] \in P BY <1>3, <2>1
  <2> QED BY <2>2 DEF step
<1>5. Runs(f)
  <2>1. \A k \in 0..n : f[k] = IF k = 0 THEN 1 ELSE f[k - 1] * 10 BY <1>3, <1>4
  <2>2. f = [k \in 0..n |-> f[k]] BY <1>3
  <2> QED BY <2>1, <2>2
<1>6. Runs(g)
  <2> HIDE DEF Runs
  <2> QED BY <1>5
<1>7. TenTo(n) = g[n] BY DEF TenTo
<1> HIDE DEF g
<1>8. \A k \in 0..n : g[k] = IF k = 0 THEN 1 ELSE g[k - 1] * 10 BY <1>6
<1> DEFINE T == {k \in 0..n : g[k] = f[k]}
<1>9. 0 \in T BY <1>3, <1>8
<1>10. ASSUME NEW k \in 1..n, k - 1 \in T PROVE k \in T
  <2>1. g[k] = g[k - 1] * 10 BY <1>8
  <2> QED BY <1>4, <1>10, <2>1
<1> HIDE DEF T
<1>11. 0..n \subseteq T BY <1>9, <1>10, UpTo
<1>12. n \in T BY <1>11
<1>13. f[n] = TenTo(n) BY <1>7, <1>12 DEF T
<1> QED BY <1>3, <1>4, <1>13

\* The powers of ten, each ten times the one before.
LEMMA TenToNext ==
    /\ TenTo(0) = 1
    /\ \A k \in Nat : TenTo(k) \in Nat \ {0} /\ TenTo(k + 1) = TenTo(k) * 10
<1>1. TenTo(0) = 1 BY TenToIs
<1>2. ASSUME NEW k \in Nat PROVE TenTo(k) \in Nat \ {0} /\ TenTo(k + 1) = TenTo(k) * 10
  <2>1. PICK f \in [0..k -> Nat \ {0}] : /\ f[0] = 1 /\ \A i \in 1..k : f[i] = f[i - 1] * 10
                                         /\ f[k] = TenTo(k)
    BY TenToIs
  <2>2. k + 1 \in Nat OBVIOUS
  <2>3. PICK g \in [0..(k + 1) -> Nat \ {0}] :
            /\ g[0] = 1 /\ \A i \in 1..(k + 1) : g[i] = g[i - 1] * 10
            /\ g[k + 1] = TenTo(k + 1)
    BY <2>2, TenToIs
  <2> DEFINE T == {i \in 0..k : f[i] = g[i]}
  <2>4. 0 \in T BY <2>1, <2>3
  <2>5. ASSUME NEW i \in 1..k, i - 1 \in T PROVE i \in T
    <3>1. i \in 1..(k + 1) OBVIOUS
    <3> QED BY <2>1, <2>3, <2>5, <3>1
  <2> HIDE DEF T
  <2>6. 0..k \subseteq T BY <2>4, <2>5, UpTo
  <2>7. k \in T BY <2>6
  <2>8. f[k] = g[k] BY <2>7 DEF T
  <2>9. k + 1 \in 1..(k + 1) /\ k + 1 - 1 = k OBVIOUS
  <2>10. g[k + 1] = g[k] * 10 BY <2>3, <2>9
  <2> QED BY <2>1, <2>3, <2>8, <2>10
<1> QED BY <1>1, <1>2

LEMMA TenToSum ==
    ASSUME NEW x \in Nat, NEW y \in Nat
    PROVE  TenTo(x + y) = TenTo(x) * TenTo(y)
<1> DEFINE T == {k \in Nat : TenTo(x + k) = TenTo(x) * TenTo(k)}
<1>1. 0 \in T
  <2>1. x + 0 = x /\ TenTo(0) = 1 /\ TenTo(x) \in Nat BY TenToNext
  <2> QED BY <2>1
<1>2. ASSUME NEW k \in Nat, k \in T PROVE k + 1 \in T
  <2> DEFINE p == TenTo(x)
             q == TenTo(k)
             r == TenTo(x + k)
  <2>1. p \in Nat /\ q \in Nat /\ r \in Nat BY TenToNext
  <2>2. TenTo(k + 1) = q * 10 BY TenToNext
  <2>3. x + k \in Nat /\ x + (k + 1) = (x + k) + 1 OBVIOUS
  <2>4. TenTo(x + (k + 1)) = r * 10 BY <2>3, TenToNext
  <2>5. r = p * q BY <1>2
  <2> HIDE DEF p, q, r
  <2>6. r * 10 = p * (q * 10) BY <2>1, <2>5
  <2>7. TenTo(x + (k + 1)) = p * TenTo(k + 1) BY <2>2, <2>4, <2>6
  <2> QED BY <2>7 DEF p
<1> HIDE DEF T
<1>3. Nat \subseteq T BY <1>1, <1>2, SetInduction
<1> QED BY <1>3 DEF T

\* One limb more is worth less than the digits that are planned for it.
LEMMA RoomForLimb ==
    ASSUME NEW w \in Nat, NEW d \in DigitSet, NEW p \in Nat, w < p, NEW q \in Nat, Limb <= q
    PROVE  w * Limb + d < p * q
<1>1. Limb \in Nat /\ d \in Nat /\ d < Limb BY LimbIsNat DEF DigitSet
<1>2. (w + 1) * Limb = w * Limb + Limb /\ w * Limb \in Nat BY <1>1
<1>3. (w + 1) * Limb <= p * Limb BY <1>1
<1>4. p * Limb <= p * q BY <1>1
<1>5. p * Limb \in Nat /\ p * q \in Nat /\ (w + 1) * Limb \in Nat BY <1>1
<1> QED BY <1>1, <1>2, <1>3, <1>4, <1>5

\* The digits that are planned for can write what the limbs are worth.
LEMMA WorthHasRoom ==
    ASSUME NEW a \in Limbs
    PROVE  LongLong(a) < TenTo(Len(a) * MaxDecimals)
<1> DEFINE n == Len(a)
           M == MaxDecimals
<1>1. n \in Nat \ {0} /\ \A i \in 1..n : a[i] \in DigitSet BY LimbsHave
<1>2. M \in Nat /\ Limb <= TenTo(M) /\ TenTo(M) \in Nat BY MaxDecimalsAssumption, TenToNext
<1>3. PICK w \in [1..(n + 1) -> Nat] : AreWorth(w, a) /\ LongLong(a) = w[1] BY LongLongIsWorth
<1>4. w[n + 1] = 0 /\ \A i \in 1..n : w[i] = w[i + 1] * Limb + a[i] BY <1>3 DEF AreWorth
<1> HIDE DEF M, n
<1> DEFINE T == {k \in 0..n : w[n + 1 - k] < TenTo(k * M)}
<1>5. 0 \in T
  <2>1. n + 1 - 0 = n + 1 /\ 0 * M = 0 BY <1>1, <1>2
  <2>2. w[n + 1 - 0] = 0 /\ TenTo(0 * M) = 1 BY <1>4, <2>1, TenToNext
  <2> QED BY <1>1, <2>2
<1>6. ASSUME NEW k \in 1..n, k - 1 \in T PROVE k \in T
  <2> DEFINE i == n + 1 - k
             x == w[i + 1]
             d == a[i]
             j == (k - 1) * M
             p == TenTo(j)
  <2>1. i \in 1..n /\ i + 1 = n + 1 - (k - 1) /\ i + 1 \in 1..(n + 1) BY <1>1
  <2>2. j \in Nat /\ j + M = k * M BY <1>1, <1>2
  <2>3. w[i] = x * Limb + d BY <1>4, <2>1
  <2>4. x < p /\ x \in Nat /\ d \in DigitSet BY <1>1, <1>3, <1>6, <2>1
  <2>5. p \in Nat BY <2>2, TenToNext
  <2> HIDE DEF x, d, j, p
  <2>6. x * Limb + d < p * TenTo(M) BY <1>2, <2>4, <2>5, RoomForLimb
  <2>7. p * TenTo(M) = TenTo(k * M)
    <3>1. TenTo(j + M) = TenTo(j) * TenTo(M) BY <1>2, <2>2, TenToSum
    <3> QED BY <2>2, <3>1 DEF p
  <2>8. w[i] < TenTo(k * M) BY <2>3, <2>6, <2>7
  <2> QED BY <2>8
<1> HIDE DEF T
<1>7. 0..n \subseteq T BY <1>1, <1>5, <1>6, UpTo
<1>8. n \in T /\ n + 1 - n = 1 BY <1>1, <1>7
<1>9. w[1] < TenTo(n * M) BY <1>8 DEF T
<1> QED BY <1>3, <1>9 DEF n, M

\* Only zero is worth nothing.
LEMMA WorthNothing ==
    ASSUME NEW a \in Limbs, Tidy(a), LongLong(a) = 0
    PROVE  a = Zero
<1> DEFINE n == Len(a)
<1>1. n \in Nat \ {0} /\ a \in Seq(DigitSet) /\ \A i \in 1..n : a[i] \in DigitSet BY LimbsHave
<1>2. PICK w \in [1..(n + 1) -> Nat] : AreWorth(w, a) /\ LongLong(a) = w[1] BY LongLongIsWorth
<1>3. a[n] = 0
  <2> SUFFICES ASSUME a[n] # 0 PROVE FALSE OBVIOUS
  <2>1. w[1] # 0
    <3>1. \A i \in 1..n : w[i] \in Nat \ {0} BY <1>2, TopIsWorth
    <3>2. 1 \in 1..n BY <1>1
    <3> QED BY <3>1, <3>2
  <2> QED BY <1>2, <2>1
<1>4. n = 1 BY <1>3 DEF Tidy
<1>5. a = <<a[1]>> BY <1>1, <1>4
<1> QED BY <1>3, <1>4, <1>5 DEF Zero

\* What is left of a after each of n divisions by ten.
AreLeft(f, a, n) ==
    /\ f \in [0..n -> {v \in Limbs : Tidy(v)}]
    /\ f[0] = a
    /\ \A k \in 1..n : f[k] = DividedBy(f[k - 1], 10).quotient

LEMMA TenIsADigit == 10 \in DigitSet \ {0}
BY LimbIsNat DEF DigitSet

LEMMA LeftExists ==
    ASSUME NEW a \in Limbs, Tidy(a), NEW n \in Nat
    PROVE  \E f : AreLeft(f, a, n)
<1> DEFINE T == {v \in Limbs : Tidy(v)}
           step == [k \in 1..n |-> [y \in T |-> DividedBy(y, 10).quotient]]
<1>1. step \in [1..n -> [T -> T]]
  <2>1. ASSUME NEW k \in 1..n, NEW y \in T PROVE DividedBy(y, 10).quotient \in T
    BY TenIsADigit, DividedIsWorth
  <2> HIDE DEF T
  <2> QED BY <2>1
<1>2. a \in T OBVIOUS
<1> HIDE DEF step, T
<1>3. PICK f : IsLoop(f, T, n, a, step) BY <1>1, <1>2, Loop
<1>4. f \in [0..n -> T] /\ f[0] = a /\ \A k \in 1..n : f[k] = step[k][f[k - 1]]
  BY <1>3 DEF IsLoop
<1>5. ASSUME NEW k \in 1..n PROVE f[k] = DividedBy(f[k - 1], 10).quotient
  <2>1. f[k] = step[k][f[k - 1]] /\ f[k - 1] \in T BY <1>4
  <2> QED BY <2>1 DEF step
<1>6. AreLeft(f, a, n) BY <1>4, <1>5 DEF AreLeft, T
<1> QED BY <1>6

\* What is left gets smaller: after as many divisions as there is room for digits,
\* nothing is.
LEMMA NothingIsLeft ==
    ASSUME NEW a \in Limbs, Tidy(a), NEW f, AreLeft(f, a, Len(a) * MaxDecimals)
    PROVE  f[Len(a) * MaxDecimals] = Zero
<1> DEFINE n == Len(a) * MaxDecimals
           x(k) == LongLong(f[k])
<1>1. n \in Nat BY LimbsHave, MaxDecimalsAssumption
<1>2. /\ f \in [0..n -> {v \in Limbs : Tidy(v)}] /\ f[0] = a
      /\ \A k \in 1..n : f[k] = DividedBy(f[k - 1], 10).quotient
  BY DEF AreLeft
<1>3. LongLong(a) < TenTo(n) /\ LongLong(a) \in Nat BY WorthHasRoom, LongLongIsWorth
<1> HIDE DEF n
<1> DEFINE T == {k \in 0..n : LongLong(f[k]) * TenTo(k) <= LongLong(a)}
<1>4. 0 \in T
  <2>1. LongLong(f[0]) * TenTo(0) = LongLong(a) BY <1>2, <1>3, TenToNext
  <2> QED BY <1>1, <1>3, <2>1
<1>5. ASSUME NEW k \in 1..n, k - 1 \in T PROVE k \in T
  <2> DEFINE y == LongLong(f[k - 1])
             z == LongLong(f[k])
             d == DividedBy(f[k - 1], 10).rem
             p == TenTo(k - 1)
             b == LongLong(a)
  <2>1. k - 1 \in 0..n /\ k - 1 \in Nat /\ k - 1 + 1 = k BY <1>1
  <2>2. f[k - 1] \in Limbs /\ f[k] \in Limbs BY <1>2, <2>1
  <2>3. y = z * 10 + d /\ d \in 0..9 BY SMTT(60), <1>2, <2>2, TenIsADigit, DividedIsWorth
  <2>4. y \in Nat /\ z \in Nat BY <2>2, LongLongIsWorth
  <2>5. TenTo(k) = p * 10 /\ p \in Nat BY <2>1, TenToNext
  <2>6. y * p <= b /\ b \in Nat BY <1>3, <1>5
  <2> HIDE DEF y, z, d, p, b
  <2>7. z * 10 <= y BY <2>3, <2>4
  <2>8. (z * 10) * p <= y * p BY <2>4, <2>5, <2>7
  <2>9. z * (p * 10) = (z * 10) * p /\ y * p \in Nat /\ z * (p * 10) \in Nat BY <2>4, <2>5
  <2>10. z * TenTo(k) <= b BY <2>5, <2>6, <2>8, <2>9
  <2> QED BY <2>10 DEF z, b
<1> HIDE DEF T
<1>6. 0..n \subseteq T BY <1>1, <1>4, <1>5, UpTo
<1>7. n \in T BY <1>1, <1>6
<1>8. f[n] \in Limbs /\ Tidy(f[n]) BY <1>1, <1>2
<1>9. LongLong(f[n]) = 0
  <2> DEFINE z == LongLong(f[n])
             p == TenTo(n)
             b == LongLong(a)
  <2>1. z * p <= b BY <1>7 DEF T
  <2>2. z \in Nat /\ p \in Nat \ {0} /\ b \in Nat /\ b < p
    BY <1>1, <1>3, <1>8, LongLongIsWorth, TenToNext
  <2> HIDE DEF z, p, b
  <2>3. ASSUME z # 0 PROVE FALSE
    <3>1. p <= z * p /\ z * p \in Nat BY <2>2, <2>3
    <3> QED BY <2>1, <2>2, <3>1
  <2> QED BY <2>3 DEF z
<1>10. f[n] = Zero BY <1>8, <1>9, WorthNothing
<1> QED BY <1>10 DEF n

\* Decimal digits are worth what the limbs are, and there is room for them.
LEMMA DecimalsAre ==
    ASSUME NEW a \in Limbs, Tidy(a)
    PROVE  /\ Decimals(a) \in Seq(0..9)
           /\ Len(Decimals(a)) <= Len(a) * MaxDecimals
           /\ PlaceValue(Decimals(a), 10) = LongLong(a)
           /\ Len(Decimals(a)) # 0 => Decimals(a)[1] # 0
<1> DEFINE n == Len(a) * MaxDecimals
           Runs(h) == h = [k \in 0..n |-> IF k = 0 THEN a ELSE DividedBy(h[k - 1], 10).quotient]
           g == CHOOSE h : Runs(h)
           Ends(k) == g[k] = Zero /\ \A j \in 0..(k - 1) : g[j] # Zero
           len == CHOOSE k \in DOMAIN g : Ends(k)
           s == [i \in 1..len |-> DividedBy(g[len - i], 10).rem]
<1>1. n \in Nat BY LimbsHave, MaxDecimalsAssumption
<1>2. Decimals(a) = s BY DEF Decimals
<1>3. PICK f : AreLeft(f, a, n) BY <1>1, LeftExists
<1>4. /\ f \in [0..n -> {v \in Limbs : Tidy(v)}] /\ f[0] = a
      /\ \A k \in 1..n : f[k] = DividedBy(f[k - 1], 10).quotient
  BY <1>3 DEF AreLeft
<1>5. f[n] = Zero BY <1>3, NothingIsLeft
<1>6. Runs(f)
  <2> HIDE DEF n
  <2>1. \A k \in 0..n : f[k] = IF k = 0 THEN a ELSE DividedBy(f[k - 1], 10).quotient
    BY <1>1, <1>4
  <2>2. f = [k \in 0..n |-> f[k]] BY <1>4
  <2> QED BY <2>1, <2>2
<1>7. Runs(g)
  <2> HIDE DEF Runs
  <2> QED BY <1>6
<1> HIDE DEF g, n
<1>8. DOMAIN g = 0..n /\ g = [k \in 0..n |-> g[k]] BY <1>7
<1>9. \A k \in 0..n : g[k] = IF k = 0 THEN a ELSE DividedBy(g[k - 1], 10).quotient BY <1>7
<1> DEFINE T == {k \in 0..n : g[k] = f[k]}
<1>10. 0 \in T BY <1>1, <1>4, <1>9
<1>11. ASSUME NEW k \in 1..n, k - 1 \in T PROVE k \in T
  <2>1. g[k] = DividedBy(g[k - 1], 10).quotient BY <1>1, <1>9
  <2> QED BY <1>4, <1>11, <2>1
<1> HIDE DEF T
<1>12. 0..n \subseteq T BY <1>1, <1>10, <1>11, UpTo
<1>13. \A k \in 0..n : g[k] = f[k] BY <1>12 DEF T
<1>14. g = f BY <1>4, <1>8, <1>13
<1>15. len \in 0..n /\ Ends(len)
  <2> DEFINE S == {k \in 0..n : g[k] = Zero}
  <2>1. n \in S BY <1>1, <1>5, <1>14
  <2>2. S \in SUBSET Nat BY <1>1
  <2>3. PICK m \in S : \A k \in S : m <= k BY <2>1, <2>2, Least
  <2>4. m \in DOMAIN g /\ Ends(m) BY <1>1, <1>8, <2>3
  <2> HIDE DEF Ends
  <2> QED BY <1>8, <2>4
<1>16. g[len] = Zero /\ \A j \in 0..(len - 1) : g[j] # Zero BY <1>15
<1> HIDE DEF len, Ends
<1> DEFINE x(k) == LongLong(g[k])
           d(k) == DividedBy(g[k], 10).rem
<1>17. ASSUME NEW k \in 0..n PROVE g[k] \in Limbs /\ Tidy(g[k]) /\ x(k) \in Nat /\ d(k) \in 0..9
  <2>1. g[k] \in Limbs /\ Tidy(g[k]) BY <1>4, <1>14
  <2>2. x(k) \in Nat BY <2>1, LongLongIsWorth
  <2>3. d(k) \in 0..(10 - 1) BY <2>1, TenIsADigit, DividedIsWorth
  <2> QED BY <2>1, <2>2, <2>3
<1>18. ASSUME NEW k \in 1..n PROVE x(k - 1) = x(k) * 10 + d(k - 1)
  <2>1. k - 1 \in 0..n BY <1>1
  <2>2. g[k - 1] \in Limbs BY <1>17, <2>1
  <2>3. g[k] = DividedBy(g[k - 1], 10).quotient BY <1>4, <1>14
  <2> QED BY <2>2, <2>3, TenIsADigit, DividedIsWorth
<1>19. len \in Nat /\ len <= n BY <1>1, <1>15
<1>20. \A i \in 1..len : len - i \in 0..n /\ s[i] = d(len - i) BY <1>1, <1>19
<1> HIDE DEF d, x
<1>21. s \in [1..len -> 0..9]
  <2>1. \A i \in 1..len : s[i] \in 0..9 BY <1>17, <1>20
  <2>2. s = [i \in 1..len |-> s[i]] OBVIOUS
  <2> HIDE DEF s
  <2> QED BY <2>1, <2>2
<1> HIDE DEF s
<1>22. s \in Seq(0..9) /\ s \in Seq(Nat) /\ Len(s) = len
  <2>1. s \in Seq(0..9) BY <1>19, <1>21
  <2>2. s \in [1..len -> Nat] BY <1>21
  <2>3. s \in Seq(Nat) BY <1>19, <2>2
  <2> QED BY <1>19, <1>21, <2>1, <2>3, LenProperties
<1> DEFINE v == [i \in 0..len |-> x(len - i)]
<1>23. ArePlaceValues(v, s, 10)
  <2>1. v \in [0..len -> Nat]
    <3>1. \A i \in 0..len : len - i \in 0..n BY <1>1, <1>19
    <3> QED BY <1>17, <3>1
  <2>2. v[0] = 0
    <3>1. 0 \in 0..len /\ len - 0 = len BY <1>19
    <3>2. v[0] = x(len) BY <3>1
    <3>3. x(len) = 0 BY <1>16, ZeroIs DEF x
    <3> QED BY <3>2, <3>3
  <2>3. ASSUME NEW i \in 1..len PROVE v[i] = v[i - 1] * 10 + s[i]
    <3> DEFINE k == len - i + 1
    <3>1. k \in 1..n /\ k - 1 = len - i /\ len - (i - 1) = k /\ i - 1 \in 0..len /\ i \in 0..len
      BY <1>1, <1>19
    <3>2. v[i] = x(k - 1) /\ v[i - 1] = x(k) BY <3>1
    <3>3. s[i] = d(k - 1) BY <1>20, <3>1
    <3> HIDE DEF k, v
    <3> QED BY <1>18, <3>1, <3>2, <3>3
  <2> HIDE DEF v
  <2> QED BY <1>22, <2>1, <2>2, <2>3 DEF ArePlaceValues
<1>24. PlaceValue(s, 10) = LongLong(a)
  <2>1. PlaceValue(s, 10) = v[len]
    <3> HIDE DEF v
    <3>1. 10 \in Nat OBVIOUS
    <3> QED BY <1>22, <1>23, <3>1, PlaceValueIs
  <2>2. v[len] = x(0) BY <1>19
  <2>3. x(0) = LongLong(a) BY <1>4, <1>14 DEF x
  <2> QED BY <2>1, <2>2, <2>3
<1>25. ASSUME len # 0 PROVE s[1] # 0
  <2>1. 1 \in 1..len /\ len \in 1..n /\ len - 1 \in 0..n /\ len - 1 \in 0..(len - 1)
    BY <1>1, <1>19, <1>25
  <2>2. g[len - 1] # Zero BY <1>16, <2>1
  <2>3. g[len - 1] \in Limbs /\ Tidy(g[len - 1]) BY <1>17, <2>1
  <2>4. x(len - 1) # 0 BY <2>2, <2>3, WorthNothing DEF x
  <2>5. x(len) = 0 BY <1>16, ZeroIs DEF x
  <2>6. x(len - 1) = 0 * 10 + d(len - 1) BY <1>18, <2>1, <2>5
  <2>7. d(len - 1) \in 0..9 BY <1>17, <2>1
  <2>8. s[1] = d(len - 1) BY <1>20, <2>1
  <2> QED BY <2>4, <2>6, <2>7, <2>8
<1> QED BY <1>2, <1>19, <1>22, <1>24, <1>25 DEF n

\* bigint.c:32, 51, 84, 104: digits in any base, however many, are read without error: into
\* a long long that holds the number, or into decimal text that is worth as much, has no
\* zeros in front and fits into the buffer that was allocated for it.
THEOREM WholeNumbersAreExact ==
    ASSUME NEW digits, NEW base \in 2..16, NEW negative,
           NEW used \in Seq(Numerals), used = SelectSeq(digits, LAMBDA c : c # "_"),
           \A i \in DOMAIN used : used[i] \in ToSet(SubSeq(HexDigits, 1, base)),
           NEW n, n = PlaceValue(Values(used), base)
    PROVE  \/ /\ WholeNumber(negative, digits, base) = Integer(IF negative THEN -n ELSE n)
              /\ 2 * n < LongLongSize
           \/ \E decimals \in Seq(0..9) :
                  /\ WholeNumber(negative, digits, base) = StringEncoded(
                         (IF negative THEN <<"-">> ELSE <<>>)
                         \o [i \in DOMAIN decimals |-> HexDigits[decimals[i] + 1]])
                  /\ PlaceValue(decimals, 10) = n /\ n >= Limb \div 2
                  /\ decimals[1] # 0
                  /\ Len(decimals) <= Len(NumberOf(used, base)) * MaxDecimals
<1> DEFINE a == NumberOf(used, base)
<1>1. a \in Limbs /\ Tidy(a) /\ LongLong(a) = n BY NumberIsWorth
<1>2. WholeNumber(negative, digits, base) =
          IF IsLongLong(a) THEN Integer(IF negative THEN -LongLong(a) ELSE LongLong(a))
                           ELSE StringEncoded(SignedDecimals(negative, a))
  BY DEF WholeNumber
<1> HIDE DEF a
<1>3. CASE IsLongLong(a)
  <2>1. 2 * n < LongLongSize BY <1>1, <1>3, LongLongFits
  <2> QED BY <1>1, <1>2, <1>3, <2>1
<1>4. CASE ~IsLongLong(a)
  <2> DEFINE s == Decimals(a)
  <2>1. /\ s \in Seq(0..9) /\ Len(s) <= Len(a) * MaxDecimals /\ PlaceValue(s, 10) = n
        /\ Len(s) # 0 => s[1] # 0
    BY <1>1, DecimalsAre
  <2>2. n >= Limb \div 2 BY <1>1, <1>4, LongLongFits
  <2>3. WholeNumber(negative, digits, base) = StringEncoded(
            (IF negative THEN <<"-">> ELSE <<>>) \o [i \in DOMAIN s |-> HexDigits[s[i] + 1]])
    BY <1>2, <1>4 DEF SignedDecimals
  <2> HIDE DEF s
  <2>4. Len(s) # 0
    <3> SUFFICES ASSUME Len(s) = 0 PROVE FALSE OBVIOUS
    <3>1. s = <<>> /\ s \in Seq(Nat) BY <2>1, EmptySeq
    <3>2. PICK f : ArePlaceValues(f, s, 10)
      <4>1. 10 \in Nat OBVIOUS
      <4> QED BY <3>1, <4>1, PlaceValuesExist
    <3>3. f[0] = 0 BY <3>2 DEF ArePlaceValues
    <3>4. PlaceValue(s, 10) = f[Len(s)]
      <4>1. 10 \in Nat OBVIOUS
      <4> QED BY <3>1, <3>2, <4>1, PlaceValueIs
    <3>5. 0 >= Limb \div 2 BY <2>1, <2>2, <3>1, <3>3, <3>4
    <3> QED BY <3>5, HalfALimb
  <2> QED BY <2>1, <2>2, <2>3, <2>4 DEF a
<1> QED BY <1>3, <1>4

\* bigint.c:36, 55, 75: what is computed from one limb fits into two of them, that is into
\* the 64-bit variables of the loops, and what is carried on, or is a limb of the quotient,
\* into one.
THEOREM OneLimbIsCarried ==
    ASSUME NEW d \in DigitSet, NEW m \in DigitSet, NEW c \in DigitSet
    PROVE  /\ d * m + c < Limb * Limb /\ (d * m + c) \div Limb \in DigitSet
           /\ \A r \in 0..(m - 1) : /\ d + r * Limb < Limb * Limb
                                    /\ (d + r * Limb) \div m \in DigitSet
<1>1. Limb \in Nat /\ Limb > 16 BY LimbIsNat
<1>2. d \in Nat /\ m \in Nat /\ c \in Nat /\ d <= Limb - 1 /\ m <= Limb - 1 /\ c <= Limb - 1
  BY <1>1 DEF DigitSet
<1>3. d * m + c < Limb * Limb
  <2>1. d * m \in Nat /\ d * m <= (Limb - 1) * m BY <1>1, <1>2
  <2>2. (Limb - 1) * m <= (Limb - 1) * Limb BY <1>1, <1>2
  <2>3. (Limb - 1) * Limb = Limb * Limb - Limb /\ Limb * Limb \in Nat BY <1>1
  <2>4. (Limb - 1) * m \in Nat BY <1>1, <1>2
  <2> QED BY <1>1, <1>2, <2>1, <2>2, <2>3, <2>4
<1>4. ASSUME NEW r \in 0..(m - 1)
      PROVE  d + r * Limb < Limb * Limb /\ (d + r * Limb) \div m \in DigitSet
  <2>1. m \in DigitSet \ {0} BY <1>2
  <2>2. r \in Nat /\ r + 2 <= Limb BY <1>1, <1>2
  <2>3. r * Limb \in Nat /\ Limb * Limb \in Nat BY <1>1, <2>2
  <2>4. (r + 2) * Limb = r * Limb + 2 * Limb /\ (r + 2) * Limb <= Limb * Limb BY <1>1, <2>2
  <2>5. d + r * Limb < Limb * Limb BY <1>1, <1>2, <2>3, <2>4
  <2> QED BY <2>1, <2>5, LimbDivided
<1> QED BY <1>3, <1>4, CarryFits

-----------------------------------------------------------------------------
(***************************************************************************)
(* Strings in quotes.  Both versions read a text from its end to its       *)
(* beginning, as far as its definition goes, an escape at a time; what     *)
(* they make of the rest of it decides what they make of the whole.        *)
(***************************************************************************)

\* A letter that both versions know means the same to both of them.
LEMMA LettersAgree ==
    /\ \A c \in DOMAIN Meaning["V1"] \cap DOMAIN Meaning["V2"] :
           Meaning["V1"][c] = Meaning["V2"][c]
    /\ \A c \in DOMAIN Meaning["V1"] : ~IsSpacing(c)
    /\ "u" \notin DOMAIN Meaning["V1"]
    /\ "u" \notin DOMAIN Meaning["V2"]
<1> DEFINE both == {"n", "r", "t", "b", "f", "\\", "\""}
<1>1. /\ DOMAIN Meaning["V1"] = both \cup {"/"} /\ DOMAIN Meaning["V2"] = both \cup {"s"}
      /\ \A c \in both : Meaning["V1"][c] = Meaning["V2"][c]
  BY Zenon DEF Meaning
<1>2. \A c \in both \cup {"/"} : ~IsSpacing(c)
  BY Zenon DEF IsSpacing, IsWhitespace, IsNewline
<1>3. "u" \notin both \cup {"s", "/"} OBVIOUS
<1>4. "/" \notin both \cup {"s"} OBVIOUS
<1> HIDE DEF both
<1> QED BY <1>1, <1>2, <1>3, <1>4

\* The first position from i on that is in S, or else the end.
LEMMA FirstFrom ==
    ASSUME NEW n \in Nat, NEW i \in 1..(n + 1), NEW S
    PROVE  \E k \in i..(n + 1) :
               /\ \A j \in i..(k - 1) : j \notin S
               /\ k = n + 1 \/ k \in S
<1> DEFINE T == {k \in i..(n + 1) : k = n + 1 \/ k \in S}
<1>1. T \in SUBSET Nat /\ n + 1 \in T OBVIOUS
<1>2. PICK k \in T : \A j \in T : k <= j
  <2> HIDE DEF T
  <2> QED BY <1>1, Least
<1>3. ASSUME NEW j \in i..(k - 1) PROVE j \notin S
  <2>1. j \in i..(n + 1) /\ ~(k <= j) BY <1>2
  <2> QED BY <1>2, <2>1
<1> QED BY <1>2, <1>3

LEMMA AfterDigitsIs ==
    ASSUME NEW s, Len(s) \in Nat, NEW i \in 1..(Len(s) + 1)
    PROVE  /\ AfterDigits(s, i) \in i..(Len(s) + 1)
           /\ \A j \in i..(AfterDigits(s, i) - 1) : s[j] \in DOMAIN HexValue
<1> DEFINE n == Len(s)
           S == {j \in 1..n : s[j] \notin DOMAIN HexValue}
<1>1. PICK k \in i..(n + 1) : (\A j \in i..(k - 1) : j \notin S) /\ (k = n + 1 \/ k \in S)
  <2> HIDE DEF S
  <2> QED BY FirstFrom
<1>2. \A j \in i..(k - 1) : j \in 1..n OBVIOUS
<1>3. \E m \in i..(n + 1) : /\ \A j \in i..(m - 1) : s[j] \in DOMAIN HexValue
                            /\ m = n + 1 \/ s[m] \notin DOMAIN HexValue
  BY <1>1, <1>2
<1> HIDE DEF n
<1> QED BY <1>3 DEF AfterDigits, n

LEMMA AfterSpacingIs ==
    ASSUME NEW s, Len(s) \in Nat, NEW i \in 1..Len(s), ~IsSpacing(s[i])
    PROVE  AfterSpacing(s, i) = i
<1> DEFINE n == Len(s)
           Is(k) == /\ \A j \in i..(k - 1) : IsSpacing(s[j])
                    /\ k = n + 1 \/ ~IsSpacing(s[k])
<1>1. i \in i..(n + 1) /\ Is(i)
  <2>1. i..(i - 1) = {} OBVIOUS
  <2> QED BY <2>1
<1>2. ASSUME NEW k \in i..(n + 1), Is(k) PROVE k = i
  <2> SUFFICES ASSUME k # i PROVE FALSE OBVIOUS
  <2>1. i \in i..(k - 1) OBVIOUS
  <2> QED BY <1>2, <2>1
<1>3. AfterSpacing(s, i) = CHOOSE k \in i..(n + 1) : Is(k) BY Zenon DEF AfterSpacing
<1> HIDE DEF Is, n
<1> QED BY <1>1, <1>2, <1>3

\* An escape ends within the text, and no backslash is in it but perhaps the letter.
LEMMA EscapeIs ==
    ASSUME NEW v \in {"V1", "V2"}, NEW s, Len(s) \in Nat, NEW i \in 2..(Len(s) + 1),
           EscapeAt(v, s, i).ok
    PROVE  /\ i <= Len(s)
           /\ EscapeAt(v, s, i).next \in (i + 1)..(Len(s) + 1)
           /\ \A j \in (i + 1)..(EscapeAt(v, s, i).next - 1) : s[j] # "\\"
           /\ v = "V1" => ~IsSpacing(s[i])
<1> DEFINE e == EscapeAt(v, s, i)
           n == Len(s)
<1>1. i <= n BY DEF EscapeAt, NoEscape
<1>2. CASE s[i] \in DOMAIN Meaning[v]
  <2>1. e = EscapeFor(Meaning[v][s[i]], i + 1) BY <1>1, <1>2, LettersAgree DEF EscapeAt
  <2>2. e.next = i + 1 BY <2>1 DEF EscapeFor
  <2>3. (i + 1)..(e.next - 1) = {} BY <2>2
  <2>4. v = "V1" => ~IsSpacing(s[i]) BY <1>2, LettersAgree
  <2> HIDE DEF e
  <2> QED BY <1>1, <2>2, <2>3, <2>4 DEF e
<1>3. CASE s[i] \notin DOMAIN Meaning[v]
  <2> DEFINE close == AfterDigits(s, i + 2)
             number == Accumulated(SubSeq(s, i + 2, close - 1))
             opens == s[i + 1] = "{"
             closes == s[close] = "}"
  <2>1. s[i] = "u" /\ e = NumberEscapeAt(v, s, i) BY <1>1, <1>3 DEF EscapeAt, NoEscape
  <2>2. e = IF n < i + 2 \/ ~opens THEN NoEscape
            ELSE IF close <= n /\ closes /\ InRange(v, number)
                 THEN EscapeFor(CharacterAt(number), close + 1)
                 ELSE NoEscape
    BY <2>1, Zenon DEF NumberEscapeAt
  <2>3. (opens => s[i + 1] # "\\") /\ (closes => s[close] # "\\") BY Zenon
  <2> HIDE DEF e, number, close, opens, closes
  <2>4. /\ ~(n < i + 2) /\ opens /\ close <= n /\ closes
        /\ e = EscapeFor(CharacterAt(number), close + 1)
    BY <2>2 DEF NoEscape, e
  <2>5. i + 2 \in 1..(n + 1) BY <2>4
  <2>6. close \in (i + 2)..(n + 1) /\ \A j \in (i + 2)..(close - 1) : s[j] \in DOMAIN HexValue
    BY <2>5, AfterDigitsIs DEF close
  <2>7. e.next = close + 1 BY <2>4 DEF EscapeFor
  <2>8. ASSUME NEW j \in (i + 1)..(e.next - 1) PROVE s[j] # "\\"
    <3>1. CASE j = i + 1 BY <2>3, <2>4, <3>1
    <3>2. CASE j = close BY <2>3, <2>4, <3>2
    <3>3. CASE j \in (i + 2)..(close - 1)
      <4>1. "\\" \notin DOMAIN HexValue
        <5>1. "\\" \notin ToSet(HexDigits)
          <6>1. \A k \in 1..16 : HexDigits[k] # "\\" BY SMTT(60) DEF HexDigits
          <6>2. DOMAIN HexDigits = 1..16 BY DEF HexDigits
          <6> QED BY <6>1, <6>2 DEF ToSet
        <5> QED BY <5>1 DEF HexValue
      <4> QED BY <2>6, <3>3, <4>1
    <3> QED BY <2>6, <2>7, <3>1, <3>2, <3>3
  <2>9. ~IsSpacing("u") BY Zenon DEF IsSpacing, IsWhitespace, IsNewline
  <2>10. e.next \in (i + 1)..(n + 1) BY <2>4, <2>6, <2>7
  <2> QED BY <1>1, <2>1, <2>8, <2>9, <2>10 DEF e
<1> QED BY <1>2, <1>3

\* An escape both versions know means the same to both of them.
LEMMA EscapesAgree ==
    ASSUME NEW s, Len(s) \in Nat, NEW i \in 2..(Len(s) + 1),
           EscapeAt("V1", s, i).ok, EscapeAt("V2", s, i).ok
    PROVE  EscapeAt("V1", s, i) = EscapeAt("V2", s, i)
<1>1. i <= Len(s) BY EscapeIs
<1>2. CASE s[i] = "u"
  <2>1. \A v \in {"V1", "V2"} : EscapeAt(v, s, i) = NumberEscapeAt(v, s, i)
    BY <1>1, <1>2, LettersAgree DEF EscapeAt
  <2> DEFINE close == AfterDigits(s, i + 2)
             number == Accumulated(SubSeq(s, i + 2, close - 1))
             opens == s[i + 1] = "{"
             closes == s[close] = "}"
  <2>2. \A v \in {"V1", "V2"} : EscapeAt(v, s, i) =
            IF Len(s) < i + 2 \/ ~opens THEN NoEscape
            ELSE IF close <= Len(s) /\ closes /\ InRange(v, number)
                 THEN EscapeFor(CharacterAt(number), close + 1)
                 ELSE NoEscape
    BY <2>1, Zenon DEF NumberEscapeAt
  <2> HIDE DEF close, number, opens, closes
  <2> QED BY <2>2 DEF NoEscape
<1>3. CASE s[i] # "u"
  <2>1. \A v \in {"V1", "V2"} :
            /\ s[i] \in DOMAIN Meaning[v]
            /\ EscapeAt(v, s, i) = EscapeFor(Meaning[v][s[i]], i + 1)
    BY <1>1, <1>3 DEF EscapeAt, NoEscape
  <2> QED BY <2>1, LettersAgree
<1> QED BY <1>2, <1>3

\* What Resolved makes of s from position i on, given what f makes of what follows.
Resolving(f, v, s, i) ==
    IF i > Len(s) THEN Owned(<<>>)
    ELSE IF v = "V2" /\ (s[i] = "BAD" \/ IsIllegal("V2", s[i])) THEN Null
    ELSE IF s[i] # "\\" THEN Prefixed(s[i], f[i + 1])
    ELSE IF EscapeAt(v, s, i + 1).ok
         THEN Prefixed(EscapeAt(v, s, i + 1).c, f[EscapeAt(v, s, i + 1).next])
         ELSE Null

LEMMA ResolvedIs ==
    ASSUME NEW v \in {"V1", "V2"}, NEW s, Len(s) \in Nat
    PROVE  \E f : /\ \A i \in 1..(Len(s) + 1) : f[i] = Resolving(f, v, s, i)
                  /\ Resolved(v, s) = f[1]
<1> DEFINE n == Len(s)
           T == {m \in 1..(n + 1) : \E f : \A i \in m..(n + 1) : f[i] = Resolving(f, v, s, i)}
<1>1. ASSUME NEW f, NEW g, NEW i \in 1..(n + 1), \A j \in (i + 1)..(n + 1) : f[j] = g[j]
      PROVE  Resolving(f, v, s, i) = Resolving(g, v, s, i)
  <2>1. CASE i > n BY <2>1 DEF Resolving
  <2>2. CASE i <= n /\ s[i] # "\\"
    <3>1. f[i + 1] = g[i + 1] BY <1>1, <2>2
    <3> QED BY <2>2, <3>1 DEF Resolving
  <2>3. CASE i <= n /\ s[i] = "\\" /\ EscapeAt(v, s, i + 1).ok
    <3>1. i + 1 \in 2..(n + 1) BY <2>3
    <3>2. EscapeAt(v, s, i + 1).next \in (i + 2)..(n + 1) BY <2>3, <3>1, EscapeIs
    <3>3. f[EscapeAt(v, s, i + 1).next] = g[EscapeAt(v, s, i + 1).next] BY <1>1, <3>2
    <3> QED BY <2>3, <3>3 DEF Resolving
  <2>4. CASE i <= n /\ s[i] = "\\" /\ ~EscapeAt(v, s, i + 1).ok BY <2>4 DEF Resolving
  <2> QED BY <2>1, <2>2, <2>3, <2>4
<1>2. n + 1 \in T
  <2> DEFINE f == [i \in {n + 1} |-> Owned(<<>>)]
  <2>1. \A i \in (n + 1)..(n + 1) : i = n + 1 OBVIOUS
  <2>2. f[n + 1] = Owned(<<>>) OBVIOUS
  <2> HIDE DEF f
  <2>3. Resolving(f, v, s, n + 1) = Owned(<<>>) BY DEF Resolving
  <2> QED BY <2>1, <2>2, <2>3
<1>3. ASSUME NEW m \in 1..n, m + 1 \in T PROVE m \in T
  <2>1. PICK f : \A i \in (m + 1)..(n + 1) : f[i] = Resolving(f, v, s, i) BY <1>3
  <2> DEFINE g == [i \in m..(n + 1) |-> IF i = m THEN Resolving(f, v, s, m) ELSE f[i]]
  <2>2. g[m] = Resolving(f, v, s, m) /\ \A i \in (m + 1)..(n + 1) : g[i] = f[i] OBVIOUS
  <2> HIDE DEF g
  <2>3. ASSUME NEW i \in m..(n + 1) PROVE g[i] = Resolving(g, v, s, i)
    <3>1. i \in 1..(n + 1) /\ \A j \in (i + 1)..(n + 1) : g[j] = f[j] BY <2>2
    <3>2. Resolving(g, v, s, i) = Resolving(f, v, s, i) BY <1>1, <3>1
    <3> QED BY <2>1, <2>2, <3>2
  <2>4. m \in 1..(n + 1) OBVIOUS
  <2> QED BY <2>3, <2>4
<1> HIDE DEF T
<1>4. 1..(n + 1) \subseteq T BY <1>2, <1>3, DownTo
<1>5. PICK f : \A i \in 1..(n + 1) : f[i] = Resolving(f, v, s, i)
  <2>1. 1 \in 1..(n + 1) OBVIOUS
  <2>2. 1 \in T BY <1>4, <2>1
  <2> HIDE DEF n
  <2> QED BY Zenon, <2>2 DEF T
<1> DEFINE Runs(h) == h = [i \in 1..(n + 1) |-> Resolving(h, v, s, i)]
           g == CHOOSE h : Runs(h)
           h == [i \in 1..(n + 1) |-> f[i]]
<1>6. Runs(h)
  <2>1. \A i \in 1..(n + 1) : h[i] = f[i] OBVIOUS
  <2> HIDE DEF h
  <2>2. \A i \in 1..(n + 1) : h[i] = Resolving(h, v, s, i)
    <3> SUFFICES ASSUME NEW i \in 1..(n + 1) PROVE h[i] = Resolving(h, v, s, i) OBVIOUS
    <3>1. \A j \in (i + 1)..(n + 1) : h[j] = f[j] BY <2>1
    <3>2. Resolving(h, v, s, i) = Resolving(f, v, s, i) BY <1>1, <3>1
    <3> QED BY <1>5, <2>1, <3>2
  <2>3. h = [i \in 1..(n + 1) |-> h[i]] BY DEF h
  <2> QED BY <2>2, <2>3
<1>7. Runs(g)
  <2> HIDE DEF Runs, h
  <2> QED BY <1>6
<1>8. Resolved(v, s) = g[1] BY Zenon DEF Resolved, Resolving
<1> HIDE DEF g
<1>9. \A i \in 1..(n + 1) : g[i] = Resolving(g, v, s, i) BY <1>7
<1> QED BY <1>8, <1>9

\* What RemoveEscapedWhitespace makes of s from position i on.
Removing(f, s, i) ==
    IF i > Len(s) THEN Owned(<<>>)
    ELSE IF s[i] = "BAD" \/ IsIllegal("V2", s[i]) THEN Null
    ELSE IF s[i] # "\\" \/ i = Len(s) THEN Prefixed(s[i], f[i + 1])
    ELSE CASE AfterSpacing(s, i + 1) <= Len(s) /\ s[AfterSpacing(s, i + 1)] = "BAD" -> Null
           [] /\ ~(AfterSpacing(s, i + 1) <= Len(s) /\ s[AfterSpacing(s, i + 1)] = "BAD")
              /\ AfterSpacing(s, i + 1) > i + 1 -> f[AfterSpacing(s, i + 1)]
           [] OTHER -> Prefixed("\\", Prefixed(s[AfterSpacing(s, i + 1)], f[AfterSpacing(s, i + 1) + 1]))

LEMMA AfterSpacingIsLater ==
    ASSUME NEW s, Len(s) \in Nat, NEW i \in 1..(Len(s) + 1)
    PROVE  /\ AfterSpacing(s, i) \in i..(Len(s) + 1)
<1> DEFINE n == Len(s)
           S == {j \in 1..n : ~IsSpacing(s[j])}
<1>1. PICK k \in i..(n + 1) : (\A j \in i..(k - 1) : j \notin S) /\ (k = n + 1 \/ k \in S)
  <2> HIDE DEF S
  <2> QED BY FirstFrom
<1>2. \A j \in i..(k - 1) : j \in 1..n OBVIOUS
<1>3. \E m \in i..(n + 1) : /\ \A j \in i..(m - 1) : IsSpacing(s[j])
                            /\ m = n + 1 \/ ~IsSpacing(s[m])
  BY <1>1, <1>2
<1> HIDE DEF n
<1> QED BY <1>3 DEF AfterSpacing, n

LEMMA RemovedIs ==
    ASSUME NEW s, Len(s) \in Nat
    PROVE  \E f : /\ \A i \in 1..(Len(s) + 1) : f[i] = Removing(f, s, i)
                  /\ RemoveEscapedWhitespace(s) = f[1]
<1> DEFINE n == Len(s)
           T == {m \in 1..(n + 1) : \E f : \A i \in m..(n + 1) : f[i] = Removing(f, s, i)}
<1>1. ASSUME NEW f, NEW g, NEW i \in 1..(n + 1), \A j \in (i + 1)..(n + 1) : f[j] = g[j]
      PROVE  Removing(f, s, i) = Removing(g, s, i)
  <2>1. CASE i > n BY <2>1 DEF Removing
  <2>2. CASE i <= n /\ (s[i] # "\\" \/ i = n)
    <3>1. f[i + 1] = g[i + 1] BY <1>1, <2>2
    <3> QED BY <2>2, <3>1 DEF Removing
  <2>3. CASE i < n /\ s[i] = "\\"
    <3> DEFINE k == AfterSpacing(s, i + 1)
    <3>1. i + 1 \in 1..(n + 1) BY <2>3
    <3>2. k \in (i + 1)..(n + 1) BY <3>1, AfterSpacingIsLater
    <3>3. f[k] = g[k] BY <1>1, <3>2
    <3>4. k = i + 1 => k + 1 \in (i + 1)..(n + 1) BY <2>3
    <3>5. k = i + 1 => f[k + 1] = g[k + 1] BY <1>1, <3>4
    <3>6. k > i + 1 \/ k = i + 1 BY <3>2
    <3> HIDE DEF k
    <3> QED BY <2>3, <3>3, <3>5, <3>6 DEF Removing, k
  <2> QED BY <2>1, <2>2, <2>3
<1>2. n + 1 \in T
  <2> DEFINE f == [i \in {n + 1} |-> Owned(<<>>)]
  <2>1. \A i \in (n + 1)..(n + 1) : i = n + 1 OBVIOUS
  <2>2. f[n + 1] = Owned(<<>>) OBVIOUS
  <2> HIDE DEF f
  <2>3. Removing(f, s, n + 1) = Owned(<<>>) BY DEF Removing
  <2> QED BY <2>1, <2>2, <2>3
<1>3. ASSUME NEW m \in 1..n, m + 1 \in T PROVE m \in T
  <2>1. PICK f : \A i \in (m + 1)..(n + 1) : f[i] = Removing(f, s, i) BY <1>3
  <2> DEFINE g == [i \in m..(n + 1) |-> IF i = m THEN Removing(f, s, m) ELSE f[i]]
  <2>2. g[m] = Removing(f, s, m) /\ \A i \in (m + 1)..(n + 1) : g[i] = f[i] OBVIOUS
  <2> HIDE DEF g
  <2>3. ASSUME NEW i \in m..(n + 1) PROVE g[i] = Removing(g, s, i)
    <3>1. i \in 1..(n + 1) /\ \A j \in (i + 1)..(n + 1) : g[j] = f[j] BY <2>2
    <3>2. Removing(g, s, i) = Removing(f, s, i) BY <1>1, <3>1
    <3> QED BY <2>1, <2>2, <3>2
  <2>4. m \in 1..(n + 1) OBVIOUS
  <2> QED BY <2>3, <2>4
<1> HIDE DEF T
<1>4. 1..(n + 1) \subseteq T BY <1>2, <1>3, DownTo
<1>5. PICK f : \A i \in 1..(n + 1) : f[i] = Removing(f, s, i) BY <1>4 DEF T
<1> DEFINE Runs(h) == h = [i \in 1..(n + 1) |-> Removing(h, s, i)]
           g == CHOOSE h : Runs(h)
           h == [i \in 1..(n + 1) |-> f[i]]
<1>6. Runs(h)
  <2>1. \A i \in 1..(n + 1) : h[i] = f[i] OBVIOUS
  <2> HIDE DEF h
  <2>2. \A i \in 1..(n + 1) : h[i] = Removing(h, s, i)
    <3> SUFFICES ASSUME NEW i \in 1..(n + 1) PROVE h[i] = Removing(h, s, i) OBVIOUS
    <3>1. \A j \in (i + 1)..(n + 1) : h[j] = f[j] BY <2>1
    <3>2. Removing(h, s, i) = Removing(f, s, i) BY <1>1, <3>1
    <3> QED BY <1>5, <2>1, <3>2
  <2>3. h = [i \in 1..(n + 1) |-> h[i]] BY DEF h
  <2> QED BY <2>2, <2>3
<1>7. Runs(g)
  <2> HIDE DEF Runs, h
  <2> QED BY <1>6
<1>8. RemoveEscapedWhitespace(s) = g[1] BY Zenon DEF RemoveEscapedWhitespace, Removing
<1> HIDE DEF g
<1>9. \A i \in 1..(n + 1) : g[i] = Removing(g, s, i) BY <1>7
<1> QED BY <1>8, <1>9

\* From b down to a, one step at a time.
LEMMA DownFrom ==
    ASSUME NEW T, NEW a \in Nat, NEW b \in Nat, a <= b, b \in T,
           \A k \in a..(b - 1) : k + 1 \in T => k \in T
    PROVE  a \in T
<1> DEFINE U == {j \in 0..(b - a) : b - j \in T}
<1>1. 0 \in U OBVIOUS
<1>2. ASSUME NEW j \in 1..(b - a), j - 1 \in U PROVE j \in U
  <2>1. b - j \in a..(b - 1) /\ (b - j) + 1 = b - (j - 1) OBVIOUS
  <2>2. b - (j - 1) \in T BY <1>2
  <2> QED BY <2>1, <2>2
<1> HIDE DEF U
<1>3. b - a \in Nat OBVIOUS
<1>4. b - a \in U BY <1>1, <1>2, <1>3, UpTo
<1> QED BY <1>4 DEF U

LEMMA RestOf ==
    ASSUME NEW S, NEW s \in Seq(S)
    PROVE  /\ Len(s) \in Nat /\ \A i \in 1..Len(s) : s[i] \in S
           /\ SubSeq(s, 1, Len(s)) = s /\ SubSeq(s, Len(s) + 1, Len(s)) = <<>>
           /\ \A i \in 1..Len(s) : SubSeq(s, i, Len(s)) = <<s[i]>> \o SubSeq(s, i + 1, Len(s))
<1>1. Len(s) \in Nat /\ \A i \in 1..Len(s) : s[i] \in S BY LenProperties, ElementOfSeq
<1>2. SubSeq(s, 1, Len(s)) = s BY <1>1
<1>3. SubSeq(s, Len(s) + 1, Len(s)) = <<>> BY <1>1
<1>4. ASSUME NEW i \in 1..Len(s)
      PROVE  SubSeq(s, i, Len(s)) = <<s[i]>> \o SubSeq(s, i + 1, Len(s))
  BY <1>1
<1> QED BY <1>1, <1>2, <1>3, <1>4

\* In what version 1 can read no whitespace is escaped, so nothing is removed from it.
LEMMA NothingIsRemoved ==
    ASSUME NEW S, NEW s \in Seq(S),
           \A i \in 1..Len(s) : s[i] # "BAD" /\ ~IsIllegal("V2", s[i]), Resolved("V1", s).ok
    PROVE  RemoveEscapedWhitespace(s) = Owned(s)
<1> DEFINE n == Len(s)
           rest(i) == SubSeq(s, i, n)
<1>1. n \in Nat /\ (\A i \in 1..n : s[i] # "BAD" /\ ~IsIllegal("V2", s[i]))
  BY LenProperties
<1>2. /\ rest(1) = s /\ rest(n + 1) = <<>>
      /\ \A i \in 1..n : rest(i) = <<s[i]>> \o rest(i + 1)
  BY RestOf
<1> HIDE DEF rest
<1>3. PICK f : /\ \A i \in 1..(n + 1) : f[i] = Resolving(f, "V1", s, i)
               /\ Resolved("V1", s) = f[1]
  BY <1>1, ResolvedIs
<1>4. PICK g : /\ \A i \in 1..(n + 1) : g[i] = Removing(g, s, i)
               /\ RemoveEscapedWhitespace(s) = g[1]
  BY <1>1, RemovedIs
<1> DEFINE Stays(i) == g[i] = Owned(rest(i))
           T == {m \in 1..(n + 1) : \A i \in m..(n + 1) : f[i].ok => Stays(i)}
<1>5. \A c, string : Prefixed(c, string).ok => string.ok BY DEF Prefixed, Null
<1>6. ASSUME NEW c, NEW i \in 1..n, s[i] = c
      PROVE  Prefixed(c, Owned(rest(i + 1))) = Owned(rest(i))
  <2>1. rest(i) = <<c>> \o rest(i + 1) BY <1>2, <1>6
  <2> QED BY <2>1 DEF Prefixed, Owned
<1>7. ASSUME NEW i \in 1..n, s[i] # "\\", Stays(i + 1) PROVE Stays(i)
  <2>1. g[i] = Prefixed(s[i], g[i + 1]) BY <1>1, <1>4, <1>7 DEF Removing
  <2>2. Prefixed(s[i], Owned(rest(i + 1))) = Owned(rest(i)) BY <1>6
  <2> QED BY <1>7, <2>1, <2>2
<1>8. n + 1 \in T
  <2>1. \A i \in (n + 1)..(n + 1) : i = n + 1 BY <1>1
  <2>2. g[n + 1] = Owned(<<>>) BY <1>1, <1>4 DEF Removing
  <2> QED BY <1>1, <1>2, <2>1, <2>2
<1>9. ASSUME NEW m \in 1..n, m + 1 \in T PROVE m \in T
  <2>1. \A i \in (m + 1)..(n + 1) : f[i].ok => Stays(i) BY <1>9
  <2> SUFFICES ASSUME f[m].ok PROVE Stays(m)
    <3>1. \A i \in m..(n + 1) : i = m \/ i \in (m + 1)..(n + 1) BY <1>1
    <3>2. m \in 1..(n + 1) BY <1>1
    <3> HIDE DEF Stays
    <3> QED BY <2>1, <3>1, <3>2
  <2>2. f[m] = Resolving(f, "V1", s, m) BY <1>1, <1>3
  <2>3. CASE s[m] # "\\"
    <3>1. f[m] = Prefixed(s[m], f[m + 1]) BY <1>1, <2>2, <2>3 DEF Resolving
    <3>2. f[m + 1].ok BY <1>5, <3>1
    <3>3. Stays(m + 1) BY <1>1, <2>1, <3>2
    <3> QED BY <1>7, <2>3, <3>3
  <2>4. CASE s[m] = "\\"
    <3> DEFINE e == EscapeAt("V1", s, m + 1)
    <3>1. e.ok /\ f[m] = Prefixed(e.c, f[e.next]) BY <1>1, <2>2, <2>4 DEF Resolving, Null
    <3>2. f[e.next].ok BY <1>5, <3>1
    <3>3. m + 1 \in 2..(n + 1) BY <1>1
    <3>4. /\ m + 1 <= n /\ e.next \in (m + 2)..(n + 1)
          /\ \A j \in (m + 2)..(e.next - 1) : s[j] # "\\"
          /\ ~IsSpacing(s[m + 1])
      <4>1. "V1" \in {"V1", "V2"} OBVIOUS
      <4>2. m + 1 + 1 = m + 2 OBVIOUS
      <4> QED BY <1>1, <3>1, <3>3, <4>1, <4>2, EscapeIs
    <3> HIDE DEF e
    <3>5. Stays(e.next) BY <1>1, <2>1, <3>2, <3>4
    <3> DEFINE U == {k \in 1..(n + 1) : Stays(k)}
    <3>6. m + 2 \in U
      <4>1. e.next \in U BY <1>1, <3>4, <3>5
      <4>2. ASSUME NEW k \in (m + 2)..(e.next - 1), k + 1 \in U PROVE k \in U
        <5>1. k \in 1..n /\ s[k] # "\\" BY <1>1, <3>4
        <5> QED BY <1>7, <4>2, <5>1
      <4>3. m + 2 \in Nat /\ e.next \in Nat /\ m + 2 <= e.next BY <1>1, <3>4
      <4> HIDE DEF U
      <4> QED BY <4>1, <4>2, <4>3, DownFrom
    <3>7. AfterSpacing(s, m + 1) = m + 1
      <4>1. m + 1 \in 1..n BY <1>1, <3>4
      <4> QED BY <1>1, <3>4, <4>1, AfterSpacingIs
    <3>8. g[m] = Prefixed("\\", Prefixed(s[m + 1], g[m + 2]))
      <4>1. s[m + 1] # "BAD" /\ m # n /\ ~(m > n) /\ ~(m + 1 > m + 1) /\ m + 1 + 1 = m + 2
            /\ s[m] # "BAD" /\ ~IsIllegal("V2", s[m])
        BY <1>1, <3>4
      <4>2. g[m] = Removing(g, s, m) BY <1>1, <1>4
      <4> QED BY <2>4, <3>7, <4>1, <4>2 DEF Removing
    <3>9. Prefixed(s[m + 1], g[m + 2]) = Owned(rest(m + 1))
      <4>1. m + 1 \in 1..n /\ m + 1 + 1 = m + 2 BY <1>1, <3>4
      <4>2. Prefixed(s[m + 1], Owned(rest(m + 2))) = Owned(rest(m + 1)) BY <1>6, <4>1
      <4> QED BY <3>6, <4>2
    <3>10. Prefixed("\\", Owned(rest(m + 1))) = Owned(rest(m)) BY <1>6, <2>4
    <3> QED BY <3>8, <3>9, <3>10
  <2> QED BY <2>3, <2>4
<1> HIDE DEF T
<1>10. 1..(n + 1) \subseteq T BY <1>1, <1>8, <1>9, DownTo
<1>11. 1 \in T /\ 1 \in 1..(n + 1) BY <1>1, <1>10
<1>12. Stays(1) BY <1>3, <1>11 DEF T
<1> QED BY <1>2, <1>4, <1>12

\* A text in quotes that both versions can read stands for the same string in both.
THEOREM QuotedStringsAgree ==
    ASSUME NEW s \in Seq(Legal), UnescapeV1(s).ok, UnescapeV2SingleLine(s).ok
    PROVE  UnescapeV1(s) = UnescapeV2SingleLine(s)
<1> DEFINE n == Len(s)
<1>1. n \in Nat /\ (\A i \in 1..n : s[i] # "BAD" /\ ~IsIllegal("V2", s[i]))
  BY LenProperties, ElementOfSeq DEF Legal
<1>2. RemoveEscapedWhitespace(s).text = s BY <1>1, NothingIsRemoved DEF UnescapeV1, Owned
<1>3. UnescapeV2SingleLine(s) = Resolved("V2", s)
  BY <1>2 DEF UnescapeV2SingleLine, ResolveEscapesV2, Null
<1>4. PICK f : /\ \A i \in 1..(n + 1) : f[i] = Resolving(f, "V1", s, i)
               /\ Resolved("V1", s) = f[1]
  BY <1>1, ResolvedIs
<1>5. PICK g : /\ \A i \in 1..(n + 1) : g[i] = Resolving(g, "V2", s, i)
               /\ Resolved("V2", s) = g[1]
  BY <1>1, ResolvedIs
<1> DEFINE Same(i) == f[i].ok /\ g[i].ok => f[i] = g[i]
           T == {m \in 1..(n + 1) : \A i \in m..(n + 1) : Same(i)}
<1>6. \A c, string : Prefixed(c, string).ok => string.ok BY DEF Prefixed, Null
<1>7. n + 1 \in T
  <2>1. \A i \in (n + 1)..(n + 1) : i = n + 1 BY <1>1
  <2>2. f[n + 1] = Owned(<<>>) /\ g[n + 1] = Owned(<<>>) BY <1>1, <1>4, <1>5 DEF Resolving
  <2> QED BY <1>1, <2>1, <2>2
<1>8. ASSUME NEW m \in 1..n, m + 1 \in T PROVE m \in T
  <2>1. \A i \in (m + 1)..(n + 1) : Same(i) BY <1>8
  <2> SUFFICES ASSUME f[m].ok, g[m].ok PROVE f[m] = g[m]
    <3>1. \A i \in m..(n + 1) : i = m \/ i \in (m + 1)..(n + 1) BY <1>1
    <3>2. m \in 1..(n + 1) BY <1>1
    <3>3. Same(m) OBVIOUS
    <3> HIDE DEF Same
    <3> QED BY <2>1, <3>1, <3>2, <3>3
  <2>2. f[m] = Resolving(f, "V1", s, m) /\ g[m] = Resolving(g, "V2", s, m)
    BY <1>1, <1>4, <1>5
  <2>3. CASE s[m] # "\\"
    <3>1. f[m] = Prefixed(s[m], f[m + 1]) /\ g[m] = Prefixed(s[m], g[m + 1])
      BY <1>1, <2>2, <2>3 DEF Resolving
    <3>2. f[m + 1].ok /\ g[m + 1].ok BY <1>6, <3>1
    <3>3. Same(m + 1) BY <1>1, <2>1
    <3> QED BY <3>1, <3>2, <3>3
  <2>4. CASE s[m] = "\\"
    <3> DEFINE d == EscapeAt("V1", s, m + 1)
               e == EscapeAt("V2", s, m + 1)
    <3>1. d.ok /\ f[m] = Prefixed(d.c, f[d.next]) BY <1>1, <2>2, <2>4 DEF Resolving, Null
    <3>2. e.ok /\ g[m] = Prefixed(e.c, g[e.next]) BY <1>1, <2>2, <2>4 DEF Resolving, Null
    <3>3. m + 1 \in 2..(n + 1) BY <1>1
    <3>4. d = e BY <1>1, <3>1, <3>2, <3>3, EscapesAgree
    <3>5. d.next \in (m + 1)..(n + 1)
      <4>1. "V1" \in {"V1", "V2"} OBVIOUS
      <4>2. d.next \in (m + 1 + 1)..(n + 1) BY <1>1, <3>1, <3>3, <4>1, EscapeIs
      <4> HIDE DEF d
      <4> QED BY <1>1, <4>2
    <3> HIDE DEF d, e
    <3>6. f[d.next].ok /\ g[d.next].ok BY <1>6, <3>1, <3>2, <3>4
    <3>7. Same(d.next) BY <2>1, <3>5
    <3> QED BY <3>1, <3>2, <3>4, <3>6, <3>7
  <2> QED BY <2>3, <2>4
<1> HIDE DEF T
<1>9. 1..(n + 1) \subseteq T BY <1>1, <1>7, <1>8, DownTo
<1>10. 1 \in T /\ 1 \in 1..(n + 1) BY <1>1, <1>9
<1>11. Same(1) BY <1>10 DEF T
<1> QED BY <1>3, <1>4, <1>5, <1>11 DEF UnescapeV1

-----------------------------------------------------------------------------
(* Values, while the version is being detected. *)

\* What ReadsAsEveryVersionLeft says of one token.
ReadsAlike(type, text) ==
    LET read == ParseValue({"V1", "V2"}, type, text)
    IN IF read.value.ok
       THEN \A version \in read.versions :
                \/ ParseValue({version}, type, text) = Reading({version}, read.value)
                \/ type = "WORD" /\ version = "V2" /\ IsAlmostNumeric(text)
       ELSE \A version \in {"V1", "V2"} : ~ParseValue({version}, type, text).value.ok

\* It is enough that what is read with both versions allowed is what each of them reads.
LEMMA AreAlike ==
    ASSUME NEW type, NEW text, NEW versions \in SUBSET {"V1", "V2"}, NEW value,
           ParseValue({"V1", "V2"}, type, text) = Reading(versions, value),
           \A v \in {"V1", "V2"} :
               /\ value.ok /\ v \in versions =>
                      \/ ParseValue({v}, type, text) = Reading({v}, value)
                      \/ type = "WORD" /\ v = "V2" /\ IsAlmostNumeric(text)
               /\ ~value.ok => ~ParseValue({v}, type, text).value.ok
    PROVE  ReadsAlike(type, text)
<1> DEFINE read == ParseValue({"V1", "V2"}, type, text)
<1>1. read.versions = versions /\ read.value = value BY DEF Reading
<1> HIDE DEF read
<1> QED BY <1>1 DEF ReadsAlike, read

LEMMA QuotedReadsAlike ==
    ASSUME NEW text \in Seq(Legal)
    PROVE  ReadsAlike("STRING", text)
<1> DEFINE v1 == UnescapeV1(text)
           v2 == UnescapeV2SingleLine(text)
<1>1. v1.ok /\ v2.ok => v1 = v2 BY QuotedStringsAgree
<1>2. \A allowed : ParseValue(allowed, "STRING", text) = QuotedString(allowed, text)
  BY DEF ParseValue
<1>3. QuotedString({"V1", "V2"}, text)
        = Reading(VersionsOfString({"V1", "V2"}, v1, v2), StringOr(IF v2.ok THEN v2 ELSE v1))
  BY DEF QuotedString
<1>4. QuotedString({"V1"}, text) = Reading({"V1"}, StringOr(v1))
  <2>1. QuotedString({"V1"}, text)
          = Reading(VersionsOfString({"V1"}, v1, Null), StringOr(IF Null.ok THEN Null ELSE v1))
    BY DEF QuotedString
  <2>2. ~Null.ok BY DEF Null
  <2>3. VersionsOfString({"V1"}, v1, Null) = {"V1"} BY <2>2 DEF VersionsOfString
  <2> QED BY <2>1, <2>2, <2>3
<1>5. QuotedString({"V2"}, text) = Reading({"V2"}, StringOr(v2))
  <2>1. QuotedString({"V2"}, text)
          = Reading(VersionsOfString({"V2"}, Null, v2), StringOr(IF v2.ok THEN v2 ELSE Null))
    BY DEF QuotedString
  <2>2. ~Null.ok BY DEF Null
  <2>3. VersionsOfString({"V2"}, Null, v2) = {"V2"} BY <2>2 DEF VersionsOfString
  <2>4. StringOr(IF v2.ok THEN v2 ELSE Null) = StringOr(v2) BY <2>2 DEF StringOr
  <2> QED BY <2>1, <2>3, <2>4
<1>6. \A string : StringOr(string).ok = IF string.ok THEN TRUE ELSE FALSE
  BY DEF StringOr, KString, NoValue
<1>7. VersionsOfString({"V1", "V2"}, v1, v2) =
        IF v2.ok /\ ~v1.ok THEN {"V2"} ELSE IF v1.ok /\ ~v2.ok THEN {"V1"} ELSE {"V1", "V2"}
  BY DEF VersionsOfString
<1>8. \A versions, value : Reading(versions, value).versions = versions
                           /\ Reading(versions, value).value = value
  BY DEF Reading
<1> DEFINE versions == VersionsOfString({"V1", "V2"}, v1, v2)
           value == StringOr(IF v2.ok THEN v2 ELSE v1)
<1> HIDE DEF v1, v2
<1>9. versions \in SUBSET {"V1", "V2"} BY <1>7
<1>10. ParseValue({"V1", "V2"}, "STRING", text) = Reading(versions, value) BY <1>2, <1>3
<1>11. /\ ParseValue({"V1"}, "STRING", text) = Reading({"V1"}, StringOr(v1))
       /\ ParseValue({"V2"}, "STRING", text) = Reading({"V2"}, StringOr(v2))
  BY <1>2, <1>4, <1>5
<1>12. /\ value.ok /\ "V1" \in versions => value = StringOr(v1)
       /\ value.ok /\ "V2" \in versions => value = StringOr(v2)
       /\ ~value.ok => ~StringOr(v1).ok /\ ~StringOr(v2).ok
  <2>1. CASE v1.ok /\ v2.ok BY <1>1, <2>1
  <2>2. CASE v1.ok /\ ~v2.ok
    <3>1. versions = {"V1"} /\ value = StringOr(v1) BY <1>7, <2>2
    <3>2. StringOr(v1).ok BY <1>6, <2>2
    <3> HIDE DEF versions, value
    <3> QED BY <3>1, <3>2
  <2>3. CASE ~v1.ok /\ v2.ok
    <3>1. versions = {"V2"} /\ value = StringOr(v2) BY <1>7, <2>3
    <3>2. StringOr(v2).ok BY <1>6, <2>3
    <3> HIDE DEF versions, value
    <3> QED BY <3>1, <3>2
  <2>4. CASE ~v1.ok /\ ~v2.ok
    <3>1. value = StringOr(v1) BY <2>4
    <3>2. ~StringOr(v1).ok /\ ~StringOr(v2).ok BY <1>6, <2>4
    <3> HIDE DEF versions, value
    <3> QED BY <3>1, <3>2
  <2> QED BY <2>1, <2>2, <2>3, <2>4
<1> HIDE DEF versions, value
<1> QED BY <1>8, <1>9, <1>10, <1>11, <1>12, AreAlike

LEMMA OnlyInReadsAlike ==
    ASSUME NEW type, NEW text, NEW v \in {"V1", "V2"}, NEW value,
           \A allowed : ParseValue(allowed, type, text) = OnlyIn(v, allowed, value)
    PROVE  ReadsAlike(type, text)
<1>1. /\ ParseValue({"V1", "V2"}, type, text) = Reading({v}, value)
      /\ ParseValue({v}, type, text) = Reading({v}, value)
  BY DEF OnlyIn
<1>2. ASSUME NEW w \in {"V1", "V2"}, w # v
      PROVE  ParseValue({w}, type, text) = Reading({w}, NoValue)
  <2>1. v \notin {w} BY <1>2
  <2> QED BY <2>1 DEF OnlyIn, NoReading
<1>3. ~NoValue.ok BY DEF NoValue
<1>4. \A versions, x : Reading(versions, x).value = x BY DEF Reading
<1>5. \A w \in {"V1", "V2"} :
          /\ value.ok /\ w \in {v} => ParseValue({w}, type, text) = Reading({w}, value)
          /\ ~value.ok => ~ParseValue({w}, type, text).value.ok
  <2> SUFFICES ASSUME NEW w \in {"V1", "V2"}
               PROVE  /\ w = v => ParseValue({w}, type, text) = Reading({w}, value)
                      /\ ~value.ok => ~ParseValue({w}, type, text).value.ok
    OBVIOUS
  <2>1. CASE w = v BY <1>1, <1>4, <2>1
  <2>2. CASE w # v
    <3>1. ParseValue({w}, type, text) = Reading({w}, NoValue) BY <1>2, <2>2
    <3> QED BY <1>3, <1>4, <2>2, <3>1
  <2> QED BY <2>1, <2>2
<1>6. {v} \in SUBSET {"V1", "V2"} OBVIOUS
<1> QED BY <1>1, <1>5, <1>6, AreAlike

LEMMA RawReadsAlike ==
    ASSUME NEW text, NEW type \in {"RAW_STRING_V1", "RAW_STRING_V2", "RAW_MULTILINE_STRING"}
    PROVE  ReadsAlike(type, text)
<1>1. PICK v, value :
          /\ v \in {"V1", "V2"}
          /\ \A allowed : ParseValue(allowed, type, text) = OnlyIn(v, allowed, value)
  <2>1. CASE type = "RAW_STRING_V1"
    <3>1. \A allowed : ParseValue(allowed, type, text) = OnlyIn("V1", allowed, KString(text))
      BY <2>1 DEF ParseValue
    <3> QED BY <3>1
  <2>2. CASE type = "RAW_STRING_V2"
    <3>1. \A allowed : ParseValue(allowed, type, text) = OnlyIn("V2", allowed, RawStringV2(text))
      BY <2>2 DEF ParseValue
    <3> QED BY <3>1
  <2>3. CASE type = "RAW_MULTILINE_STRING"
    <3>1. \A allowed : ParseValue(allowed, type, text)
                         = OnlyIn("V2", allowed, StringOr(DedentMultilineString(text)))
      BY <2>3 DEF ParseValue
    <3> QED BY <3>1
  <2> QED BY <2>1, <2>2, <2>3
<1> QED BY <1>1, OnlyInReadsAlike

\* A word begins like a keyword of one version, or like a number, or like almost one.
LEMMA WordsDiffer ==
    ASSUME NEW text
    PROVE  /\ text \in DOMAIN KeywordsV1 => /\ text \notin DOMAIN KeywordsV2
                                           /\ ~IsNumeric(text) /\ ~IsAlmostNumeric(text)
           /\ text \in DOMAIN KeywordsV2 => ~IsNumeric(text) /\ ~IsAlmostNumeric(text)
           /\ ~(IsNumeric(text) /\ IsAlmostNumeric(text))
<1>1. text \in DOMAIN KeywordsV1 => text[1] \in {"n", "t", "f"} BY DEF KeywordsV1
<1>2. text \in DOMAIN KeywordsV2 => text[1] = "#" BY DEF KeywordsV2
<1>3. IsNumeric(text) => text[1] \in Digits \cup {"-", "+"} /\ Unsigned(text)[1] \in Digits
  BY DEF IsNumeric, Unsigned, HasSign
<1>4. IsAlmostNumeric(text) => text[1] \in {".", "-", "+"} /\ Unsigned(text)[1] = "."
  BY DEF IsAlmostNumeric, Unsigned, HasSign
<1>5. /\ {"n", "t", "f"} \cap (Digits \cup {"-", "+", ".", "#"}) = {}
      /\ "#" \notin Digits \cup {"-", "+", "."} /\ "." \notin Digits
  BY DEF Digits
<1> QED BY <1>1, <1>2, <1>3, <1>4, <1>5

LEMMA WordReadsAlike ==
    ASSUME NEW text
    PROVE  ReadsAlike("WORD", text)
<1>1. \A allowed : ParseValue(allowed, "WORD", text) = Word(allowed, text) BY DEF ParseValue
<1>2. \A versions, value : Reading(versions, value).versions = versions
                           /\ Reading(versions, value).value = value
  BY DEF Reading
<1>3. ~NoValue.ok BY DEF NoValue
<1>4. CASE text \in DOMAIN KeywordsV1
  <2>1. \A allowed : Word(allowed, text) = OnlyIn("V1", allowed, KeywordsV1[text])
    BY <1>4, WordsDiffer DEF Word
  <2>2. \A allowed : ParseValue(allowed, "WORD", text) = OnlyIn("V1", allowed, KeywordsV1[text])
    BY <1>1, <2>1
  <2>3. "V1" \in {"V1", "V2"} OBVIOUS
  <2> QED BY <2>2, <2>3, OnlyInReadsAlike
<1>5. CASE text \notin DOMAIN KeywordsV1 /\ text \in DOMAIN KeywordsV2
  <2>1. \A allowed : "V2" \in allowed => Word(allowed, text) = Reading({"V2"}, KeywordsV2[text])
    BY <1>5, WordsDiffer DEF Word
  <2>2. KeywordsV2[text].ok BY <1>5, Zenon DEF KeywordsV2, NullValue, Boolean, Special
  <2> DEFINE value == KeywordsV2[text]
  <2>3. /\ ParseValue({"V1", "V2"}, "WORD", text) = Reading({"V2"}, value)
        /\ ParseValue({"V2"}, "WORD", text) = Reading({"V2"}, value)
    BY <1>1, <2>1
  <2>4. {"V2"} \in SUBSET {"V1", "V2"} OBVIOUS
  <2> HIDE DEF value
  <2>5. value.ok BY <2>2 DEF value
  <2> QED BY <2>3, <2>4, <2>5, AreAlike
<1>6. CASE text \notin DOMAIN KeywordsV1 \cup DOMAIN KeywordsV2 /\ IsNumeric(text)
  <2>1. \A allowed : Word(allowed, text) = Reading(allowed, ParseNumber(text))
    BY <1>6, WordsDiffer DEF Word
  <2> DEFINE value == ParseNumber(text)
  <2>2. \A allowed : ParseValue(allowed, "WORD", text) = Reading(allowed, value)
    BY <1>1, <2>1
  <2>3. {"V1", "V2"} \in SUBSET {"V1", "V2"} OBVIOUS
  <2> HIDE DEF value
  <2>4. \A v \in {"V1", "V2"} :
            /\ ParseValue({v}, "WORD", text) = Reading({v}, value)
            /\ ~value.ok => ~ParseValue({v}, "WORD", text).value.ok
    BY <1>2, <2>2
  <2> QED BY <2>2, <2>3, <2>4, AreAlike
<1>7. CASE text \notin DOMAIN KeywordsV1 \cup DOMAIN KeywordsV2 /\ ~IsNumeric(text)
  <2>1. \A allowed : ~(allowed = {"V2"} /\ IsAlmostNumeric(text)) =>
                         Word(allowed, text) = Identifier(allowed, text)
    BY <1>7 DEF Word
  <2>2. IsAlmostNumeric(text) => Word({"V2"}, text) = NoReading({"V2"})
    BY <1>7 DEF Word
  <2> DEFINE valid(v) == IF v = "V1" THEN IdentifierIsValidV1(text) ELSE IdentifierIsValidV2(text)
  <2>3. \A allowed : Identifier(allowed, text) =
            LET vs == {v \in allowed : valid(v)}
            IN IF vs = {} THEN NoReading(allowed) ELSE Reading(vs, KString(text))
    BY DEF Identifier
  <2>4. KString(text).ok BY DEF KString
  <2> HIDE DEF valid
  <2>5. ASSUME NEW v \in {"V1", "V2"}
        PROVE  Identifier({v}, text) = IF valid(v) THEN Reading({v}, KString(text))
                                       ELSE NoReading({v})
    <3>1. {w \in {v} : valid(w)} = IF valid(v) THEN {v} ELSE {} OBVIOUS
    <3> QED BY <2>3, <3>1
  <2>6. {"V1", "V2"} # {"V2"} /\ {"V1"} # {"V2"} OBVIOUS
  <2>7. \A version \in {w \in {"V1", "V2"} : valid(w)} : valid(version) OBVIOUS
  <2>8. ({w \in {"V1", "V2"} : valid(w)} = {}) <=> (~valid("V1") /\ ~valid("V2")) OBVIOUS
  <2> DEFINE vs == {w \in {"V1", "V2"} : valid(w)}
  <2>9. Word({"V1", "V2"}, text) = IF vs = {} THEN NoReading({"V1", "V2"})
                                   ELSE Reading(vs, KString(text))
    BY <2>1, <2>3, <2>6
  <2>10. vs \subseteq {"V1", "V2"} OBVIOUS
  <2>11. ASSUME NEW v \in {"V1", "V2"}, ~(v = "V2" /\ IsAlmostNumeric(text))
         PROVE  Word({v}, text) = IF valid(v) THEN Reading({v}, KString(text))
                                  ELSE NoReading({v})
    <3>1. ~({v} = {"V2"} /\ IsAlmostNumeric(text)) BY <2>11
    <3> QED BY <2>1, <2>5, <3>1
  <2> HIDE DEF vs
  <2>12. CASE vs = {}
    <3>1. ~ParseValue({"V1", "V2"}, "WORD", text).value.ok
      BY <1>1, <1>2, <1>3, <2>9, <2>12 DEF NoReading
    <3>2. ASSUME NEW v \in {"V1", "V2"} PROVE ~ParseValue({v}, "WORD", text).value.ok
      <4>1. ~valid(v) BY <2>8, <2>12 DEF vs
      <4>2. Word({v}, text) = NoReading({v}) BY <2>2, <2>11, <4>1
      <4> QED BY <1>1, <1>2, <1>3, <4>2 DEF NoReading
    <3> QED BY <3>1, <3>2 DEF ReadsAlike
  <2>13. CASE vs # {}
    <3>1. ParseValue({"V1", "V2"}, "WORD", text) = Reading(vs, KString(text))
      BY <1>1, <2>9, <2>13
    <3>2. ASSUME NEW v \in vs, ~(v = "V2" /\ IsAlmostNumeric(text))
          PROVE  ParseValue({v}, "WORD", text) = Reading({v}, KString(text))
      <4>1. v \in {"V1", "V2"} /\ valid(v) BY <2>7, <2>10 DEF vs
      <4> QED BY <1>1, <2>11, <3>2, <4>1
    <3> QED BY <1>2, <2>4, <3>1, <3>2 DEF ReadsAlike
  <2> QED BY <2>12, <2>13
<1> QED BY <1>4, <1>5, <1>6, <1>7

\* What FlattenSeq has put together after each part
LEMMA FlattenedInTurn ==
    ASSUME NEW S, NEW parts \in Seq(Seq(S))
    PROVE  \E f \in [0..Len(parts) -> Seq(S)] :
               /\ f[0] = <<>>
               /\ \A k \in 1..Len(parts) : f[k] = f[k - 1] \o parts[k]
               /\ FlattenSeq(parts) = f[Len(parts)]
<1> DEFINE n == Len(parts)
           step == [k \in 1..n |-> [y \in Seq(S) |-> y \o parts[k]]]
<1>1. n \in Nat /\ \A k \in 1..n : parts[k] \in Seq(S) BY LenProperties, ElementOfSeq
<1>2. PICK f : IsLoop(f, Seq(S), n, <<>>, step)
  <2>1. step \in [1..n -> [Seq(S) -> Seq(S)]]
    <3>1. ASSUME NEW k \in 1..n, NEW y \in Seq(S) PROVE y \o parts[k] \in Seq(S)
      BY <1>1, ConcatProperties
    <3> QED BY <3>1
  <2> HIDE DEF step
  <2>2. <<>> \in Seq(S) BY EmptySeq
  <2> QED BY <1>1, <2>1, <2>2, Loop
<1> HIDE DEF step
<1>3. f \in [0..n -> Seq(S)] /\ f[0] = <<>> /\ \A k \in 1..n : f[k] = step[k][f[k - 1]]
  BY <1>2 DEF IsLoop
<1>4. ASSUME NEW k \in 1..n PROVE f[k] = f[k - 1] \o parts[k]
  <2>1. k - 1 \in 0..n BY <1>1
  <2>2. f[k] = step[k][f[k - 1]] /\ f[k - 1] \in Seq(S) BY <1>3, <2>1
  <2> QED BY <2>2 DEF step
<1>5. CASE n = 0
  <2>1. parts = <<>> BY <1>5, EmptySeq
  <2>2. FlattenSeq(parts) = parts BY <1>5 DEF FlattenSeq
  <2> QED BY <1>3, <1>4, <1>5, <2>1, <2>2
<1>6. CASE n # 0
  <2>1. f[1] = parts[1]
    <3>1. 1 \in 1..n /\ 1 - 1 = 0 BY <1>1, <1>6
    <3>2. f[1] = <<>> \o parts[1] BY <1>3, <1>4, <3>1
    <3> QED BY <1>1, <3>1, <3>2, ConcatEmptySeq
  <2> DEFINE Runs(h) == h = [i \in 1..n |-> IF i = 1 THEN parts[i] ELSE h[i - 1] \o parts[i]]
             g == CHOOSE h : Runs(h)
             h == [i \in 1..n |-> f[i]]
  <2>2. Runs(h)
    <3>1. \A i \in 1..n : h[i] = f[i] OBVIOUS
    <3>2. h = [i \in 1..n |-> h[i]] OBVIOUS
    <3> HIDE DEF h
    <3>3. \A i \in 1..n : h[i] = IF i = 1 THEN parts[i] ELSE h[i - 1] \o parts[i]
      <4> SUFFICES ASSUME NEW i \in 1..n
                   PROVE  h[i] = IF i = 1 THEN parts[i] ELSE h[i - 1] \o parts[i]
        OBVIOUS
      <4>1. CASE i = 1 BY <2>1, <3>1, <4>1
      <4>2. CASE i # 1
        <5>1. i - 1 \in 1..n BY <1>1, <4>2
        <5> QED BY <1>4, <3>1, <4>2, <5>1
      <4> QED BY <4>1, <4>2
    <3> QED BY <3>2, <3>3
  <2>3. Runs(g)
    <3> HIDE DEF Runs, h
    <3> QED BY <2>2
  <2>4. FlattenSeq(parts) = g[n]
    <3>1. ~(Len(parts) = 0) BY <1>6
    <3> QED BY <3>1, Zenon DEF FlattenSeq
  <2> HIDE DEF g
  <2>5. \A i \in 1..n : g[i] = IF i = 1 THEN parts[i] ELSE g[i - 1] \o parts[i] BY <2>3
  <2> DEFINE T == {i \in 0..n : i # 0 => g[i] = f[i]}
  <2>6. 0 \in T BY <1>1
  <2>7. ASSUME NEW k \in 1..n, k - 1 \in T PROVE k \in T
    <3>1. CASE k = 1 BY <2>1, <2>5, <3>1
    <3>2. CASE k # 1
      <4>1. g[k] = g[k - 1] \o parts[k]
        <5> HIDE DEF T
        <5> QED BY <2>5, <3>2
      <4>2. k - 1 # 0 BY <1>1, <3>2
      <4>3. g[k - 1] = f[k - 1] BY <2>7, <4>2
      <4>4. g[k] = f[k] BY <1>4, <4>1, <4>3
      <4> QED BY <1>1, <4>4
    <3> QED BY <3>1, <3>2
  <2> HIDE DEF T
  <2>8. 0..n \subseteq T BY <1>1, <2>6, <2>7, UpTo
  <2>9. n \in T BY <1>1, <2>8
  <2>10. FlattenSeq(parts) = f[n] BY <1>6, <2>4, <2>9 DEF T
  <2> QED BY <1>3, <1>4, <2>10
<1> QED BY <1>5, <1>6

\* Sequences of a set, one after the other, are one of that set.
LEMMA FlattenedIsSeq ==
    ASSUME NEW S, NEW parts \in Seq(Seq(S))
    PROVE  FlattenSeq(parts) \in Seq(S)
<1>1. PICK f \in [0..Len(parts) -> Seq(S)] : FlattenSeq(parts) = f[Len(parts)]
  BY FlattenedInTurn
<1>2. Len(parts) \in 0..Len(parts) BY LenProperties
<1> QED BY <1>1, <1>2

\* The texts that are read as strings are put together of their elements as they are.
TextsIInv ==
    subject \in {"characters", "escapes", "lines"} => input \in Seq(Elements[subject])

LEMMA TextsInvariant == DataSpec => []TextsIInv
<1>1. DataInit => TextsIInv BY EmptySeq DEF DataInit, TextsIInv
<1>2. TextsIInv /\ [Extend]_dataVars => TextsIInv'
  <2> SUFFICES ASSUME TextsIInv, [Extend]_dataVars, subject' \in {"characters", "escapes", "lines"}
               PROVE  input' \in Seq(Elements[subject'])
    BY DEF TextsIInv
  <2>1. CASE Extend
    <3>1. subject' = subject BY <2>1 DEF Extend
    <3>2. input \in Seq(Elements[subject]) BY <3>1 DEF TextsIInv
    <3>3. PICK element \in Elements[subject] : input' = Append(input, Placed(element))
      BY <2>1 DEF Extend
    <3>4. Placed(element) = element BY <3>1 DEF Placed
    <3> QED BY <3>1, <3>2, <3>3, <3>4, AppendProperties
  <2>2. CASE UNCHANGED dataVars BY <2>2 DEF dataVars, TextsIInv
  <2> QED BY <2>1, <2>2
<1> QED BY <1>1, <1>2, PTL DEF DataSpec

\* _parse_value, while the version is being detected: the value of a token of any length
\* is what each of the versions left takes it for, and one that is refused is refused by
\* both.
THEOREM ValuesSurviveDetection == DataSpec => []ReadsAsEveryVersionLeft
<1>1. TextsIInv => ReadsAsEveryVersionLeft
  <2> SUFFICES ASSUME TextsIInv, NEW type \in TokenTypes PROVE ReadsAlike(type, Text)
    BY DEF ReadsAsEveryVersionLeft, ReadsAlike
  <2>1. CASE type = "WORD" BY <2>1, WordReadsAlike
  <2>2. CASE type \in {"RAW_STRING_V1", "RAW_STRING_V2", "RAW_MULTILINE_STRING"}
    BY <2>2, RawReadsAlike
  <2>3. CASE type = "STRING"
    <3>1. subject \in {"escapes", "lines"} BY <2>3 DEF TokenTypes
    <3>2. Text \in Seq(Legal)
      <4>1. CASE subject = "escapes"
        <5> DEFINE parts == [i \in DOMAIN input |-> input[i].spelled]
        <5>1. Text = FlattenSeq(parts) BY <4>1, Zenon DEF Text, Spelling
        <5>2. input \in Seq(Elements["escapes"]) BY <4>1 DEF TextsIInv
        <5>3. \A i \in 1..Len(input) : input[i].spelled \in Seq(Legal)
          BY <5>2, ElementOfSeq, SpellingsAssumption
        <5>4. parts \in Seq(Seq(Legal))
          <6>1. DOMAIN input = 1..Len(input) /\ Len(input) \in Nat BY <5>2, LenProperties
          <6> QED BY <5>3, <6>1
        <5> HIDE DEF parts
        <5> QED BY <5>1, <5>4, FlattenedIsSeq
      <4>2. CASE subject = "lines"
        <5>1. Text = input BY <4>2 DEF Text
        <5>2. input \in Seq(Elements["lines"]) BY <4>2 DEF TextsIInv
        <5>3. Elements["lines"] \subseteq Legal BY SpellingsAssumption
        <5>4. DOMAIN input = 1..Len(input) /\ Len(input) \in Nat BY <5>2, LenProperties
        <5>5. \A i \in 1..Len(input) : input[i] \in Legal BY <5>2, <5>3, ElementOfSeq
        <5>6. input = [i \in 1..Len(input) |-> input[i]] BY <5>2, <5>4
        <5> QED BY <5>1, <5>4, <5>5, <5>6
      <4> QED BY <3>1, <4>1, <4>2
    <3> QED BY <2>3, <3>2, QuotedReadsAlike
  <2>4. TokenTypes \subseteq {"WORD", "STRING", "RAW_STRING_V1", "RAW_STRING_V2",
                              "RAW_MULTILINE_STRING"}
    BY DEF TokenTypes
  <2> QED BY <2>1, <2>2, <2>3, <2>4
<1> QED BY <1>1, TextsInvariant, PTL

-----------------------------------------------------------------------------
(***************************************************************************)
(* Strings that are escaped, put in quotes and read again.                 *)
(***************************************************************************)
LEMMA PowerIsNat == ASSUME NEW k \in Nat PROVE 2^k \in Nat
<1>1. IsFiniteSet(1..k) /\ Cardinality(1..k) = k BY FS_Interval
<1>2. IsFiniteSet(SUBSET (1..k)) /\ Cardinality(SUBSET (1..k)) = 2^k BY <1>1, FS_SUBSET
<1> QED BY <1>2, FS_CardinalityType

LEMMA HexValueIs ==
    ASSUME NEW i \in 1..16
    PROVE  /\ HexDigits[i] \in DOMAIN HexValue
           /\ HexValue[HexDigits[i]] = i - 1
           /\ HexDigits[i] \in Numerals
<1>1. DOMAIN HexDigits = 1..16 /\ Len(HexDigits) = 16 BY DEF HexDigits
<1>2. ToSet(HexDigits) = {HexDigits[k] : k \in 1..16} BY <1>1 DEF ToSet
<1>3. /\ HexDigits[1] = "0" /\ HexDigits[2] = "1" /\ HexDigits[3] = "2" /\ HexDigits[4] = "3"
      /\ HexDigits[5] = "4" /\ HexDigits[6] = "5" /\ HexDigits[7] = "6" /\ HexDigits[8] = "7"
      /\ HexDigits[9] = "8" /\ HexDigits[10] = "9" /\ HexDigits[11] = "a" /\ HexDigits[12] = "b"
      /\ HexDigits[13] = "c" /\ HexDigits[14] = "d" /\ HexDigits[15] = "e" /\ HexDigits[16] = "f"
  BY DEF HexDigits
<1> HIDE DEF HexDigits
<1>4. (CHOOSE k \in 1..16 : HexDigits[k] = HexDigits[i]) = i
  <2>1. ASSUME NEW k \in 1..16, HexDigits[k] = HexDigits[i] PROVE k = i
    <3>1. i \in 1..4 \/ i \in 5..8 \/ i \in 9..12 \/ i \in 13..16 OBVIOUS
    <3>2. CASE i \in 1..4 BY <1>3, <2>1, <3>2
    <3>3. CASE i \in 5..8 BY <1>3, <2>1, <3>3
    <3>4. CASE i \in 9..12 BY <1>3, <2>1, <3>4
    <3>5. CASE i \in 13..16 BY <1>3, <2>1, <3>5
    <3> QED BY <3>1, <3>2, <3>3, <3>4, <3>5
  <2> QED BY <2>1
<1>5. HexDigits[i] \in ToSet(HexDigits) BY <1>2
<1>6. HexValue[HexDigits[i]] = i - 1 BY <1>4, <1>5 DEF HexValue
<1>7. HexDigits[i] \in Numerals BY <1>2 DEF Numerals
<1> QED BY <1>5, <1>6, <1>7 DEF HexValue

\* The number that digits are read as, of which the text is shown to exist
AreAccumulated(r, digits) ==
    r = [k \in 0..Len(digits) |->
            IF k = 0 THEN 0 ELSE (r[k - 1] * 16 + HexValue[digits[k]]) % 2^AccumulatorBits]

LEMMA AccumulatedIs ==
    ASSUME NEW digits, NEW r, AreAccumulated(r, digits)
    PROVE  \E q : AreAccumulated(q, digits) /\ Accumulated(digits) = q[Len(digits)]
<1> DEFINE q == CHOOSE q : AreAccumulated(q, digits)
<1>1. AreAccumulated(q, digits) OBVIOUS
<1>2. Accumulated(digits) = q[Len(digits)] BY Zenon DEF Accumulated, AreAccumulated
<1> QED BY <1>1, <1>2

\* The text of a code point is not too long for what it is read into.
LEMMA HexComesBack ==
    ASSUME NEW n \in Nat, n <= Largest
    PROVE  /\ Hex(n) \in Seq(DOMAIN HexValue) /\ Len(Hex(n)) \in 1..6
           /\ Accumulated(Hex(n)) = n
<1> DEFINE place == HexPlaces
           Is(i) == (i = 6 \/ n >= place[i]) /\ \A j \in 1..(i - 1) : n < place[j]
           first == CHOOSE i \in 1..6 : Is(i)
           q(i) == n \div place[i]
           m == 7 - first
           h == [k \in 1..m |-> HexDigits[(q(first + k - 1) % 16) + 1]]
<1>1. Hex(n) = h BY Zenon DEF Hex
<1>2. /\ place[1] = 1048576 /\ place[2] = 65536 /\ place[3] = 4096
      /\ place[4] = 256 /\ place[5] = 16 /\ place[6] = 1
  BY SMT DEF HexPlaces
<1>3. n \in Nat /\ n <= 1114111 BY SMT DEF Largest
<1> HIDE DEF place
<1>4. first \in 1..6 /\ Is(first)
  <2> DEFINE S == {i \in 1..6 : i = 6 \/ n >= place[i]}
  <2>1. S \in SUBSET Nat /\ 6 \in S OBVIOUS
  <2>2. PICK i \in S : \A k \in S : i <= k
    <3> HIDE DEF S
    <3> QED BY <2>1, Least
  <2>3. ASSUME NEW j \in 1..(i - 1) PROVE n < place[j]
    <3>1. j \in 1..6 /\ ~(i <= j) BY <2>2
    <3>2. ~(n >= place[j]) BY <2>2, <3>1
    <3>3. j = 1 \/ j = 2 \/ j = 3 \/ j = 4 \/ j = 5 \/ j = 6 BY <3>1
    <3> QED BY SMT, <1>2, <1>3, <3>2, <3>3
  <2>4. Is(i) /\ i \in 1..6 BY <2>2, <2>3
  <2> HIDE DEF Is
  <2> QED BY <2>4
<1> HIDE DEF first
<1>5. first = 1 \/ first = 2 \/ first = 3 \/ first = 4 \/ first = 5 \/ first = 6 BY <1>4
<1>6. q(first) \in 0..15
  <2>1. CASE first = 1 BY SMT, <1>2, <1>3, <2>1
  <2>2. CASE first # 1
    <3>1. n < place[first - 1] BY <1>4, <2>2
    <3> QED BY SMT, <1>2, <1>3, <1>5, <2>2, <3>1
  <2> QED BY <2>1, <2>2
<1>7. ASSUME NEW i \in 1..6 PROVE q(i) \in 0..n /\ q(i) % 16 \in 0..15
  <2>1. i = 1 \/ i = 2 \/ i = 3 \/ i = 4 \/ i = 5 \/ i = 6 OBVIOUS
  <2> QED BY SMT, <1>2, <1>3, <2>1
<1>8. ASSUME NEW i \in 2..6 PROVE q(i) = q(i - 1) * 16 + (q(i) % 16)
  <2>1. CASE i = 2 BY SMT, <1>2, <1>3, <2>1
  <2>2. CASE i = 3 BY SMT, <1>2, <1>3, <2>2
  <2>3. CASE i = 4 BY SMT, <1>2, <1>3, <2>3
  <2>4. CASE i = 5 BY SMT, <1>2, <1>3, <2>4
  <2>5. CASE i = 6 BY SMT, <1>2, <1>3, <2>5
  <2> QED BY <2>1, <2>2, <2>3, <2>4, <2>5
<1>9. q(6) = n BY SMT, <1>2, <1>3
<1> HIDE DEF q
<1>10. m \in 1..6 BY <1>4
<1>11. ASSUME NEW k \in 1..m
       PROVE  /\ h[k] \in DOMAIN HexValue
              /\ HexValue[h[k]] = q(first + k - 1) % 16
  <2>1. first + k - 1 \in 1..6 BY <1>4
  <2>2. (q(first + k - 1) % 16) + 1 \in 1..16 BY <1>7, <2>1
  <2> QED BY <1>7, <2>1, <2>2, HexValueIs
<1>12. h \in Seq(DOMAIN HexValue) /\ Len(h) = m
  <2>1. h = [k \in 1..m |-> h[k]] OBVIOUS
  <2>2. Len(h) = m BY <1>10
  <2> HIDE DEF h
  <2> QED BY SMTT(60), <1>10, <1>11, <2>1, <2>2
<1> HIDE DEF h
<1>13. 2^AccumulatorBits \in Nat /\ 2^AccumulatorBits > 1114111
  BY AccumulatorBitsAssumption, PowerIsNat DEF Largest
<1> DEFINE value(k) == IF k = 0 THEN 0 ELSE q(first + k - 1)
<1>14. ASSUME NEW k \in 1..m
       PROVE  (value(k - 1) * 16 + HexValue[h[k]]) % 2^AccumulatorBits = value(k)
  <2>1. first + k - 1 \in 1..6 BY <1>4
  <2>2. value(k) \in 0..n BY <1>7, <2>1
  <2>3. value(k - 1) * 16 + HexValue[h[k]] = value(k)
    <3>1. CASE k = 1
      <4>1. q(first) % 16 = q(first) BY <1>6
      <4>2. first + 1 - 1 = first BY <1>4
      <4>3. HexValue[h[1]] = q(first) BY <1>11, <3>1, <4>1, <4>2
      <4> QED BY <1>6, <3>1, <4>2, <4>3
    <3>2. CASE k # 1
      <4> DEFINE i == first + k - 1
      <4>1. i \in 2..6 /\ i - 1 = first + (k - 1) - 1 BY <1>4, <3>2
      <4> HIDE DEF i
      <4>2. q(i) = q(i - 1) * 16 + (q(i) % 16) BY <1>8, <4>1
      <4> QED BY <1>11, <3>2, <4>1, <4>2 DEF i
    <3> QED BY <3>1, <3>2
  <2> HIDE DEF value
  <2>4. \A x \in 0..n : x % 2^AccumulatorBits = x BY SMT, <1>3, <1>13
  <2> QED BY <2>2, <2>3, <2>4
<1> HIDE DEF value
<1> DEFINE r == [k \in 0..m |-> value(k)]
<1>15. value(0) = 0 BY DEF value
<1>16. AreAccumulated(r, h)
  <2>1. \A k \in 0..m : r[k] = IF k = 0 THEN 0
                              ELSE (r[k - 1] * 16 + HexValue[h[k]]) % 2^AccumulatorBits
    <3> SUFFICES ASSUME NEW k \in 0..m, k # 0
                 PROVE  r[k] = (r[k - 1] * 16 + HexValue[h[k]]) % 2^AccumulatorBits
      BY <1>15
    <3>1. k \in 1..m /\ k - 1 \in 0..m BY <1>10
    <3>2. r[k - 1] = value(k - 1) /\ r[k] = value(k) BY <3>1
    <3> QED BY <1>14, <3>1, <3>2
  <2>2. r = [k \in 0..m |-> r[k]] OBVIOUS
  <2> HIDE DEF r
  <2> QED BY <1>12, <2>1, <2>2 DEF AreAccumulated
<1>17. PICK f : AreAccumulated(f, h) /\ Accumulated(h) = f[m] BY <1>12, <1>16, AccumulatedIs
<1> DEFINE T == {k \in 0..m : f[k] = value(k)}
<1>18. \A k \in 0..m : f[k] = IF k = 0 THEN 0
                             ELSE (f[k - 1] * 16 + HexValue[h[k]]) % 2^AccumulatorBits
  BY <1>12, <1>17 DEF AreAccumulated
<1>19. 0 \in T BY <1>10, <1>15, <1>18
<1>20. ASSUME NEW k \in 1..m, k - 1 \in T PROVE k \in T
  <2>1. f[k - 1] = value(k - 1) BY <1>20
  <2>2. f[k] = (f[k - 1] * 16 + HexValue[h[k]]) % 2^AccumulatorBits BY <1>18
  <2> QED BY <1>14, <2>1, <2>2
<1> HIDE DEF T
<1>21. 0..m \subseteq T BY <1>10, <1>19, <1>20, UpTo
<1>22. f[m] = value(m) BY <1>10, <1>21 DEF T
<1>23. value(m) = n
  <2>1. first + m - 1 = 6 /\ m # 0 BY <1>4
  <2> QED BY <1>9, <2>1 DEF value
<1> QED BY <1>1, <1>10, <1>12, <1>17, <1>22, <1>23

\* Where each part is in the whole
ArePlaces(at, parts) ==
    /\ at \in [1..(Len(parts) + 1) -> Nat \ {0}]
    /\ at[1] = 1 /\ at[Len(parts) + 1] = Len(FlattenSeq(parts)) + 1
    /\ \A k \in 1..Len(parts) :
           /\ at[k + 1] = at[k] + Len(parts[k]) /\ at[k + 1] <= Len(FlattenSeq(parts)) + 1
           /\ \A j \in 1..Len(parts[k]) : FlattenSeq(parts)[at[k] + j - 1] = parts[k][j]

LEMMA PartsAreInPlace ==
    ASSUME NEW S, NEW parts \in Seq(Seq(S))
    PROVE  \E at : ArePlaces(at, parts)
<1> DEFINE n == Len(parts)
           whole == FlattenSeq(parts)
<1>1. n \in Nat /\ \A k \in 1..n : parts[k] \in Seq(S) BY LenProperties, ElementOfSeq
<1>2. PICK f \in [0..n -> Seq(S)] : /\ f[0] = <<>>
                                    /\ \A k \in 1..n : f[k] = f[k - 1] \o parts[k]
                                    /\ whole = f[n]
  BY FlattenedInTurn
<1> HIDE DEF whole
<1> DEFINE length(k) == Len(f[k])
           size(k) == Len(parts[k])
<1>3. \A k \in 0..n : length(k) \in Nat BY <1>2, LenProperties
<1>4. ASSUME NEW k \in 1..n
      PROVE  /\ size(k) \in Nat /\ length(k) = length(k - 1) + size(k)
             /\ \A i \in 1..length(k - 1) : f[k][i] = f[k - 1][i]
             /\ \A j \in 1..size(k) : f[k][length(k - 1) + j] = parts[k][j]
  <2>1. k - 1 \in 0..n /\ parts[k] \in Seq(S) BY <1>1
  <2>2. f[k - 1] \in Seq(S) BY <1>2, <2>1
  <2>3. f[k] = f[k - 1] \o parts[k] BY <1>2
  <2>4. Len(parts[k]) \in Nat /\ Len(f[k - 1]) \in Nat BY <2>1, <2>2, LenProperties
  <2> QED BY <2>1, <2>2, <2>3, <2>4, ConcatProperties
<1> DEFINE Begins(k) == length(k) <= length(n) /\ \A i \in 1..length(k) : whole[i] = f[k][i]
           T == {k \in 0..n : Begins(k)}
<1>5. n \in T BY <1>1, <1>2, <1>3
<1> HIDE DEF length, size
<1>6. ASSUME NEW k \in 0..(n - 1), k + 1 \in T PROVE k \in T
  <2> DEFINE m == k + 1
  <2>1. m \in 1..n /\ m - 1 = k /\ k \in 0..n /\ n \in 0..n BY <1>1
  <2>2. Begins(m) BY <1>6
  <2> HIDE DEF m
  <2>3. length(m) = length(k) + size(m) /\ size(m) \in Nat
        /\ \A i \in 1..length(k) : f[m][i] = f[k][i]
    BY <1>4, <2>1
  <2>4. length(k) \in Nat /\ length(n) \in Nat BY <1>3, <2>1
  <2>5. \A i \in 1..length(k) : i \in 1..length(m) BY <2>3, <2>4
  <2>6. Begins(k) BY <2>2, <2>3, <2>4, <2>5
  <2> HIDE DEF Begins
  <2> QED BY <2>1, <2>6
<1>7. ASSUME NEW k \in 0..n PROVE Begins(k)
  <2>1. \A i \in k..(n - 1) : i + 1 \in T => i \in T BY <1>6
  <2> HIDE DEF T
  <2>2. k \in T BY <1>1, <1>5, <2>1, DownFrom
  <2> QED BY <2>2 DEF T
<1> HIDE DEF T
<1> DEFINE at == [k \in 1..(n + 1) |-> length(k - 1) + 1]
<1>8. at \in [1..(n + 1) -> Nat \ {0}] /\ at[1] = 1 /\ at[n + 1] = Len(whole) + 1
  <2>1. \A k \in 1..(n + 1) : k - 1 \in 0..n BY <1>1
  <2>2. 1 \in 1..(n + 1) /\ n + 1 \in 1..(n + 1) /\ n + 1 - 1 = n /\ 1 - 1 = 0
    BY <1>1
  <2>3. length(0) = 0 /\ length(n) = Len(whole) BY <1>2, EmptySeq DEF length
  <2>4. \A k \in 1..(n + 1) : length(k - 1) + 1 \in Nat \ {0}
    <3> SUFFICES ASSUME NEW k \in 1..(n + 1) PROVE length(k - 1) + 1 \in Nat \ {0} OBVIOUS
    <3>1. length(k - 1) \in Nat BY <1>3, <2>1
    <3> QED BY <3>1
  <2>5. at[1] = length(0) + 1 /\ at[n + 1] = length(n) + 1 BY <2>2
  <2>6. at \in [1..(n + 1) -> Nat \ {0}] BY <2>4
  <2> HIDE DEF at
  <2>7. at[1] = 1 /\ at[n + 1] = Len(whole) + 1 BY <2>3, <2>5
  <2> QED BY <2>6, <2>7
<1>9. ASSUME NEW k \in 1..n
      PROVE  /\ at[k + 1] = at[k] + size(k) /\ at[k + 1] <= Len(whole) + 1
             /\ \A j \in 1..size(k) : whole[at[k] + j - 1] = parts[k][j]
  <2>1. k \in 1..(n + 1) /\ k + 1 \in 1..(n + 1) /\ k + 1 - 1 = k /\ k \in 0..n /\ k - 1 \in 0..n
    BY <1>1
  <2>2. at[k] = length(k - 1) + 1 /\ at[k + 1] = length(k) + 1 BY <2>1
  <2>3. length(k - 1) \in Nat BY <1>3, <2>1
  <2>4. /\ size(k) \in Nat /\ length(k) = length(k - 1) + size(k)
        /\ \A j \in 1..size(k) : f[k][length(k - 1) + j] = parts[k][j]
    BY <1>4
  <2> HIDE DEF at
  <2> DEFINE before == length(k - 1)
  <2>5. ASSUME NEW j \in 1..size(k) PROVE whole[at[k] + j - 1] = parts[k][j]
    <3>1. at[k] + j - 1 = before + j /\ before + j \in 1..length(k)
      <4>1. before \in Nat /\ at[k] = before + 1 /\ length(k) = before + size(k) /\ size(k) \in Nat
        BY <2>2, <2>3, <2>4
      <4> HIDE DEF before
      <4> QED BY <4>1
    <3>2. whole[before + j] = f[k][before + j] BY <1>7, <2>1, <3>1
    <3> QED BY <2>4, <3>1, <3>2
  <2>6. at[k + 1] <= Len(whole) + 1
    <3>1. length(k) <= length(n) BY <1>7, <2>1
    <3>2. length(n) = Len(whole) /\ length(k) \in Nat /\ length(n) \in Nat
      BY <1>2, <1>3, <2>1, <1>1 DEF length
    <3> QED BY <2>2, <3>1, <3>2
  <2> QED BY <2>2, <2>3, <2>4, <2>5, <2>6
<1> HIDE DEF at
<1> QED BY ZenonT(60), <1>8, <1>9 DEF whole, size, ArePlaces

\* An odd number of backslashes stands before k if one does, and an even one before that.
LEMMA EscapedIs ==
    ASSUME NEW s, NEW start \in Nat, NEW k \in Nat, start <= k
    PROVE  Tokens!Escaped(s, start, k) <=>
               k > start /\ s[k - 1] = "\\" /\ ~Tokens!Escaped(s, start, k - 1)
<1> DEFINE Stops(j) == {n \in 0..(j - start) : n = j - start \/ s[j - n - 1] # "\\"}
           run(j) == CHOOSE n \in Stops(j) : \A m \in Stops(j) : n <= m
<1>1. ASSUME NEW j \in Nat, start <= j
      PROVE  Tokens!Escaped(s, start, j) <=> run(j) % 2 = 1
  <2> DEFINE back == [i \in 1..(j - start) |-> s[j - i]]
             N == {n \in 0..Len(back) : n = Len(back) \/ ~(back[n + 1] = "\\")}
  <2>1. Tokens!Escaped(s, start, j) <=> Tokens!Least(N) % 2 = 1
    BY Zenon DEF Tokens!Escaped, Tokens!Run
  <2>2. Len(back) = j - start BY <1>1
  <2>3. N = Stops(j)
    <3>1. ASSUME NEW n \in 0..(j - start), n # j - start PROVE back[n + 1] = s[j - n - 1]
      <4>1. n + 1 \in 1..(j - start) /\ j - (n + 1) = j - n - 1 BY <1>1, <3>1
      <4> QED BY <4>1
    <3> HIDE DEF back
    <3> QED BY <2>2, <3>1
  <2> HIDE DEF N, Stops
  <2> QED BY <2>1, <2>3, Zenon DEF Tokens!Least
<1>2. ASSUME NEW j \in Nat, start <= j
      PROVE  run(j) \in Stops(j) /\ \A m \in Stops(j) : run(j) <= m
  <2>1. Stops(j) \in SUBSET Nat /\ j - start \in Stops(j) BY <1>2
  <2> HIDE DEF Stops
  <2> QED BY <2>1, Least
<1> HIDE DEF run
<1>3. CASE k = start
  <2>1. run(k) = 0 BY <1>2, <1>3
  <2> QED BY <1>1, <1>3, <2>1
<1>4. CASE k > start /\ s[k - 1] # "\\"
  <2>1. 0 \in Stops(k) BY <1>4
  <2>2. run(k) = 0 BY <1>2, <2>1
  <2> QED BY <1>1, <1>4, <2>2
<1>5. CASE k > start /\ s[k - 1] = "\\"
  <2>1. k - 1 \in Nat /\ start <= k - 1 BY <1>5
  <2>2. run(k) \in Stops(k) /\ (\A m \in Stops(k) : run(k) <= m)
        /\ run(k - 1) \in Stops(k - 1) /\ (\A m \in Stops(k - 1) : run(k - 1) <= m)
    BY <1>2, <2>1
  <2>3. ASSUME NEW n \in 0..(k - 1 - start) PROVE n + 1 \in Stops(k) <=> n \in Stops(k - 1)
    <3>1. k - (n + 1) - 1 = k - 1 - n - 1 /\ (n + 1 = k - start <=> n = k - 1 - start)
          /\ n + 1 \in 0..(k - start)
      BY <1>5
    <3> QED BY <3>1
  <2>4. run(k) # 0
    <3>1. k - 0 - 1 = k - 1 /\ k - start # 0 BY <1>5
    <3>2. 0 \notin Stops(k) BY <1>5, <3>1
    <3> QED BY <2>2, <3>2
  <2>5. run(k) \in 1..(k - start) /\ run(k - 1) \in 0..(k - 1 - start) BY <2>2, <2>4
  <2> HIDE DEF Stops
  <2>6. run(k) - 1 \in 0..(k - 1 - start) /\ run(k) - 1 + 1 = run(k) BY <2>5
  <2>7. run(k) - 1 \in Stops(k - 1) /\ run(k - 1) + 1 \in Stops(k) BY <2>2, <2>3, <2>5, <2>6
  <2>8. run(k) = run(k - 1) + 1 BY <2>2, <2>5, <2>7
  <2>9. run(k) % 2 = 1 <=> ~(run(k - 1) % 2 = 1) BY <2>5, <2>8
  <2> QED BY <1>1, <1>5, <2>1, <2>9
<1> QED BY <1>3, <1>4, <1>5

ClosingBrace == "}"
OpeningBrace == "{"
Quote == "\""
BothLetters == {"n", "r", "t", "b", "f", "\\", Quote}

\* What spells a character in version v: itself, an escape of a letter, or one of a number.
IsPlain(v, p, c) ==
    p = <<c>> /\ c \notin {"\\", Quote, "BAD"} /\ ~IsIllegal(v, c)
IsLettered(p, c) ==
    \E l \in BothLetters :
        p = <<"\\", l>> /\ \A u \in {"V1", "V2"} : l \in DOMAIN Meaning[u] /\ Meaning[u][l] = c
IsNumbered(p, c) ==
    \E h \in Seq(DOMAIN HexValue) :
        /\ Len(p) = Len(h) + 4
        /\ p[1] = "\\" /\ p[2] = "u" /\ p[3] = OpeningBrace /\ p[Len(h) + 4] = ClosingBrace
        /\ \A j \in 1..Len(h) : p[j + 3] = h[j]
        /\ CharacterAt(Accumulated(h)) = c /\ InRange("V2", Accumulated(h))
Spells(v, p, c) == IsPlain(v, p, c) \/ IsLettered(p, c) \/ IsNumbered(p, c)

LEMMA DigitIs ==
    ASSUME NEW x \in DOMAIN HexValue
    PROVE  /\ x \notin {"\\", Quote, "BAD"} /\ x # ClosingBrace
           /\ ~IsIllegal("V2", x) /\ ~IsNewline(x)
<1> DEFINE Sixteen == {"0", "1", "2", "3", "4", "5", "6", "7", "8", "9", "a", "b", "c", "d", "e", "f"}
<1>1. \A i \in 1..16 : HexDigits[i] \in Sixteen
  <2>1. \A i \in 1..16 : i \in 1..4 \/ i \in 5..8 \/ i \in 9..12 \/ i \in 13..16 OBVIOUS
  <2>2. \A i \in 1..4 : HexDigits[i] \in Sixteen BY DEF HexDigits
  <2>3. \A i \in 5..8 : HexDigits[i] \in Sixteen BY DEF HexDigits
  <2>4. \A i \in 9..12 : HexDigits[i] \in Sixteen BY DEF HexDigits
  <2>5. \A i \in 13..16 : HexDigits[i] \in Sixteen BY DEF HexDigits
  <2> HIDE DEF Sixteen
  <2> QED BY <2>1, <2>2, <2>3, <2>4, <2>5
<1>2. DOMAIN HexDigits = 1..16 BY DEF HexDigits
<1>3. x \in ToSet(HexDigits) BY DEF HexValue
<1>4. x \in Sixteen
  <2> HIDE DEF Sixteen
  <2> QED BY <1>1, <1>2, <1>3 DEF ToSet
<1> QED BY <1>4, Zenon DEF IsIllegal, IsNewline, ClosingBrace, Quote

\* The code points of the characters that may be escaped by a number
LEMMA CodeIs ==
    ASSUME NEW c \in DOMAIN Code
    PROVE  /\ Code[c] \in Nat /\ Code[c] <= Largest
           /\ CharacterAt(Code[c]) = c /\ InRange("V2", Code[c])
<1> DEFINE below == [NUL |-> 0, BS |-> 8, TAB |-> 9, LF |-> 10, VT |-> 11, FF |-> 12, CR |-> 13,
                     A |-> 65, a |-> 97]
           beyond == [DEL |-> 127, NEL |-> 133, NBSP |-> 160, other |-> 169, BOM |-> 65279]
<1>1. DOMAIN below = {"NUL", "BS", "TAB", "LF", "VT", "FF", "CR", "A", "a"}
      /\ DOMAIN beyond = {"DEL", "NEL", "NBSP", "other", "BOM"}
  OBVIOUS
<1>2. Code = [d \in DOMAIN below \cup DOMAIN beyond |->
                  IF d \in DOMAIN below THEN below[d] ELSE beyond[d]]
  BY SMT DEF Code
<1>3. /\ below["NUL"] = 0 /\ below["BS"] = 8 /\ below["TAB"] = 9 /\ below["LF"] = 10
      /\ below["VT"] = 11 /\ below["FF"] = 12 /\ below["CR"] = 13 /\ below["A"] = 65 /\ below["a"] = 97
      /\ beyond["DEL"] = 127 /\ beyond["NEL"] = 133 /\ beyond["NBSP"] = 160
      /\ beyond["other"] = 169 /\ beyond["BOM"] = 65279
  BY SMT
<1> HIDE DEF below, beyond
<1>4. DOMAIN Code = DOMAIN below \cup DOMAIN beyond BY <1>2
<1>5. /\ Code["NUL"] = 0 /\ Code["BS"] = 8 /\ Code["TAB"] = 9 /\ Code["LF"] = 10
      /\ Code["VT"] = 11 /\ Code["FF"] = 12 /\ Code["CR"] = 13 /\ Code["A"] = 65 /\ Code["a"] = 97
      /\ Code["DEL"] = 127 /\ Code["NEL"] = 133 /\ Code["NBSP"] = 160
      /\ Code["other"] = 169 /\ Code["BOM"] = 65279
  BY SMT, <1>1, <1>2, <1>3
<1>6. \A d \in DOMAIN Code : Code[d] \in Nat /\ (Code[d] < 200 \/ Code[d] = 65279)
  BY SMT, <1>1, <1>4, <1>5
<1>7. \A d, e \in DOMAIN Code : Code[d] = Code[e] => d = e
  BY SMT, <1>1, <1>4, <1>5
<1>8. CharacterAt(Code[c]) = c
  <2>1. (CHOOSE d \in DOMAIN Code : Code[d] = Code[c]) = c BY <1>7
  <2>2. \E d \in DOMAIN Code : Code[d] = Code[c] OBVIOUS
  <2> QED BY <2>1, <2>2, Zenon DEF CharacterAt
<1>9. Code[c] <= Largest BY SMT, <1>6 DEF Largest
<1>10. Code[c] \notin Surrogates BY SMTT(60), <1>6 DEF Surrogates
<1> QED BY <1>6, <1>8, <1>9, <1>10 DEF InRange

ByNumber(v, mode, c) == IF v = "V1" THEN ByNumberV1(mode, c) ELSE ByNumberV2(mode, c)

\* What else than the character itself may be in what spells it
Marks == BothLetters \cup DOMAIN HexValue \cup {"\\", "u", OpeningBrace, ClosingBrace}

\* However a character is escaped, it is spelled.
LEMMA SpelledIsSpelling ==
    ASSUME NEW v \in {"V1", "V2"}, NEW mode, NEW c, c # "BAD"
    PROVE  /\ Spells(v, Spelled(c, ByLetter(mode, c), ByNumber(v, mode, c)), c)
           /\ Spelled(c, ByLetter(mode, c), ByNumber(v, mode, c)) \in Seq({c} \cup Marks)
<1> DEFINE p == Spelled(c, ByLetter(mode, c), ByNumber(v, mode, c))
           lettered == {"LF", "CR", "TAB", "BS", "FF", "\\", Quote}
           both == BothLetters
<1>1. CASE ByLetter(mode, c)
  <2>1. p = <<"\\", Letter[c]>> BY <1>1, Zenon DEF Spelled
  <2>2. c \in lettered BY <1>1, Zenon DEF ByLetter, Quote
  <2>3. Letter = [d \in lettered |->
                    CASE d = "LF" -> "n" [] d = "CR" -> "r" [] d = "TAB" -> "t" [] d = "BS" -> "b"
                      [] d = "FF" -> "f" [] OTHER -> d]
    BY Zenon DEF Letter, Quote
  <2>4. /\ c = "LF" => Letter[c] = "n"
        /\ c = "CR" => Letter[c] = "r"
        /\ c = "TAB" => Letter[c] = "t"
        /\ c = "BS" => Letter[c] = "b"
        /\ c = "FF" => Letter[c] = "f"
        /\ c \in {"\\", Quote} => Letter[c] = c
    <3> DEFINE quote == Quote
    <3>1. quote \notin {"LF", "CR", "TAB", "BS", "FF", "\\"} BY Zenon DEF Quote
    <3> QED BY <2>2, <2>3, <3>1
  <2>5. Letter[c] \in both BY <2>2, <2>4 DEF BothLetters
  <2>6. DOMAIN Meaning["V1"] = both \cup {"/"} /\ DOMAIN Meaning["V2"] = both \cup {"s"}
    BY Zenon DEF Meaning, BothLetters, Quote
  <2> DEFINE meant(l) == CASE l = "n" -> "LF" [] l = "r" -> "CR" [] l = "t" -> "TAB"
                           [] l = "b" -> "BS" [] l = "f" -> "FF" [] l = "s" -> " " [] OTHER -> l
  <2>7. \A l \in both : Meaning["V1"][l] = meant(l) /\ Meaning["V2"][l] = meant(l)
    BY Zenon DEF Meaning, BothLetters, Quote
  <2>8. meant("n") = "LF" /\ meant("r") = "CR" /\ meant("t") = "TAB" /\ meant("b") = "BS"
        /\ meant("f") = "FF" /\ meant("\\") = "\\" /\ meant(Quote) = Quote
    BY Zenon DEF Quote
  <2> HIDE DEF meant, p
  <2>9. meant(Letter[c]) = c BY <2>2, <2>4, <2>8
  <2>10. \A u \in {"V1", "V2"} : Letter[c] \in DOMAIN Meaning[u] /\ Meaning[u][Letter[c]] = c
    BY <2>5, <2>6, <2>7, <2>9
  <2>11. p \in Seq({c} \cup Marks)
    <3>1. "\\" \in Marks /\ Letter[c] \in Marks BY <2>5 DEF Marks
    <3> HIDE DEF both
    <3> QED BY <2>1, <3>1
  <2> QED BY <2>1, <2>5, <2>10, <2>11 DEF Spells, IsLettered, p
<1>2. CASE ~ByLetter(mode, c) /\ ByNumber(v, mode, c)
  <2> DEFINE h == Hex(Code[c])
             a == <<"\\", "u", OpeningBrace>>
             z == <<ClosingBrace>>
  <2>1. p = a \o h \o z BY <1>2, Zenon DEF Spelled, OpeningBrace, ClosingBrace
  <2>2. c \in DOMAIN Code
    <3>1. c \in {"NUL", "BS", "VT", "DEL", "NEL", "BOM"} \/ c \in DOMAIN Code
      BY <1>2 DEF ByNumber, ByNumberV1, ByNumberV2, Beyond, IsIllegal
    <3>2. {"NUL", "BS", "VT", "DEL", "NEL", "BOM"} \subseteq DOMAIN Code BY SMT DEF Code
    <3> QED BY <3>1, <3>2
  <2>3. /\ h \in Seq(DOMAIN HexValue) /\ Len(h) \in Nat /\ Accumulated(h) = Code[c]
    BY <2>2, CodeIs, HexComesBack
  <2>4. CharacterAt(Accumulated(h)) = c /\ InRange("V2", Accumulated(h)) BY <2>2, <2>3, CodeIs
  <2> HIDE DEF h
  <2>5. /\ Len(a \o h \o z) = Len(h) + 4
        /\ (a \o h \o z)[1] = "\\" /\ (a \o h \o z)[2] = "u" /\ (a \o h \o z)[3] = OpeningBrace
        /\ (a \o h \o z)[Len(h) + 4] = ClosingBrace
        /\ \A j \in 1..Len(h) : (a \o h \o z)[j + 3] = h[j]
    BY <2>3
  <2> HIDE DEF p, a, z
  <2>6. IsNumbered(p, c) BY <2>1, <2>3, <2>4, <2>5 DEF IsNumbered
  <2>7. p \in Seq({c} \cup Marks)
    <3> DEFINE M == {c} \cup Marks
    <3>1. DOMAIN HexValue \subseteq M /\ {"\\", "u", OpeningBrace, ClosingBrace} \subseteq M
      BY DEF Marks
    <3> HIDE DEF M
    <3>2. a \in Seq(M) /\ z \in Seq(M) BY <3>1 DEF a, z
    <3>3. h \in Seq(M)
      <4>1. \A j \in 1..Len(h) : h[j] \in M BY <2>3, <3>1, ElementOfSeq
      <4>2. h = [j \in 1..Len(h) |-> h[j]] BY <2>3
      <4> QED BY <2>3, <4>1, <4>2
    <3>4. a \o h \in Seq(M) BY <3>2, <3>3, ConcatProperties
    <3>5. a \o h \o z \in Seq(M) BY <3>2, <3>4, ConcatProperties
    <3> QED BY <2>1, <3>5 DEF M
  <2> QED BY <2>6, <2>7 DEF Spells, p
<1>3. CASE ~ByLetter(mode, c) /\ ~ByNumber(v, mode, c)
  <2>1. p = <<c>> BY <1>3, Zenon DEF Spelled
  <2>2. c \notin {"\\", Quote} BY <1>3, Zenon DEF ByLetter, Quote
  <2>3. ~IsIllegal(v, c) BY <1>3 DEF ByNumber, ByNumberV2, IsIllegal
  <2> HIDE DEF p
  <2>4. IsPlain(v, p, c) BY <2>1, <2>2, <2>3 DEF IsPlain
  <2> QED BY <2>1, <2>4 DEF Spells, p
<1> QED BY <1>1, <1>2, <1>3

\* What spells a character can be read by the tokenizer; a quote in it comes behind a
\* backslash, and it is a newline only if the character is one.
LEMMA SpellingIs ==
    ASSUME NEW v \in {"V1", "V2"}, NEW p, NEW c, Spells(v, p, c)
    PROVE  /\ Len(p) \in Nat \ {0}
           /\ \A j \in 1..Len(p) : /\ p[j] # "BAD" /\ ~IsIllegal(v, p[j])
                                   /\ IsNewline(p[j]) => IsNewline(c) /\ p = <<c>>
           /\ \/ /\ \A j \in 1..Len(p) : p[j] # Quote 
                 /\ p[Len(p)] # "\\"
              \/ Len(p) = 2 /\ p[1] = "\\"
<1>1. CASE IsPlain(v, p, c)
  <2>1. Len(p) = 1 /\ p[1] = c BY <1>1 DEF IsPlain
  <2>2. \A j \in 1..1 : j = 1 OBVIOUS
  <2> QED BY <1>1, <2>1, <2>2 DEF IsPlain
<1>2. CASE IsLettered(p, c)
  <2>1. PICK l \in BothLetters : p = <<"\\", l>>
    BY <1>2 DEF IsLettered
  <2>2. Len(p) = 2 /\ p[1] = "\\" /\ p[2] = l BY <2>1
  <2>3. \A x \in BothLetters : x # "BAD" /\ ~IsIllegal(v, x) /\ ~IsNewline(x)
    BY Zenon DEF IsIllegal, IsNewline, BothLetters, Quote
  <2>5. "\\" \in BothLetters BY DEF BothLetters
  <2>4. \A j \in 1..2 : j = 1 \/ j = 2 OBVIOUS
  <2> QED BY <2>2, <2>3, <2>4, <2>5
<1>3. CASE IsNumbered(p, c)
  <2>1. PICK h \in Seq(DOMAIN HexValue) :
          /\ Len(p) = Len(h) + 4
          /\ p[1] = "\\" /\ p[2] = "u" /\ p[3] = OpeningBrace /\ p[Len(h) + 4] = ClosingBrace
          /\ \A j \in 1..Len(h) : p[j + 3] = h[j]
    BY <1>3 DEF IsNumbered
  <2>2. Len(h) \in Nat BY LenProperties
  <2>3. \A x \in {"\\", "u", OpeningBrace, ClosingBrace} :
            x # "BAD" /\ ~IsIllegal(v, x) /\ ~IsNewline(x) /\ x # Quote
    BY Zenon DEF IsIllegal, IsNewline, OpeningBrace, ClosingBrace, Quote
  <2>4. \A x \in DOMAIN HexValue : x # "BAD" /\ ~IsIllegal(v, x) /\ ~IsNewline(x) /\ x # Quote
    BY DigitIs DEF IsIllegal
  <2>5. ASSUME NEW j \in 1..(Len(h) + 4)
        PROVE  p[j] # "BAD" /\ ~IsIllegal(v, p[j]) /\ ~IsNewline(p[j]) /\ p[j] # Quote
    <3>1. CASE j \in {1, 2, 3} BY <2>1, <2>3, <3>1
    <3>2. CASE j = Len(h) + 4 BY <2>1, <2>3, <3>2
    <3>3. CASE j \in 4..(Len(h) + 3)
      <4>1. j - 3 \in 1..Len(h) /\ j - 3 + 3 = j BY <2>2, <3>3
      <4>2. p[j] = h[j - 3] BY <2>1, <4>1
      <4>3. h[j - 3] \in DOMAIN HexValue BY <4>1, ElementOfSeq
      <4> QED BY <2>4, <4>2, <4>3
    <3> QED BY <2>2, <3>1, <3>2, <3>3
  <2>6. ClosingBrace # "\\" BY Zenon DEF ClosingBrace
  <2> QED BY <2>1, <2>2, <2>5, <2>6
<1> QED BY <1>1, <1>2, <1>3 DEF Spells

LEMMA AfterDigitsAre ==
    ASSUME NEW s, Len(s) \in Nat, NEW i \in Nat \ {0}, NEW m \in Nat, i + m <= Len(s),
           \A j \in i..(i + m - 1) : s[j] \in DOMAIN HexValue, s[i + m] \notin DOMAIN HexValue
    PROVE  AfterDigits(s, i) = i + m
<1> DEFINE Is(k) == /\ \A j \in i..(k - 1) : s[j] \in DOMAIN HexValue
                    /\ k = Len(s) + 1 \/ s[k] \notin DOMAIN HexValue
<1>1. i + m \in i..(Len(s) + 1) /\ Is(i + m) OBVIOUS
<1>2. ASSUME NEW k \in i..(Len(s) + 1), Is(k) PROVE k = i + m
  <2>1. CASE k < i + m
    <3>1. k \in i..(i + m - 1) /\ k # Len(s) + 1 BY <2>1
    <3> QED BY <1>2, <3>1
  <2>2. CASE k > i + m
    <3>1. i + m \in i..(k - 1) BY <2>2
    <3> QED BY <1>2, <3>1
  <2> QED BY <2>1, <2>2
<1>3. AfterDigits(s, i) = CHOOSE k \in i..(Len(s) + 1) : Is(k) BY Zenon DEF AfterDigits
<1> HIDE DEF Is
<1> QED BY <1>1, <1>2, <1>3

\* The text s spells c from position i on.
SpelledAt(v, s, i, p, c) ==
    /\ Spells(v, p, c)
    /\ Len(s) \in Nat /\ i \in 1..Len(s) /\ i + Len(p) - 1 <= Len(s)
    /\ \A j \in 1..Len(p) : s[i + j - 1] = p[j]

\* Version u, or the common reading of both, reads what is written in version v.
Reads(u, v) == v \in {"V1", "V2"} /\ u \in {"V1", v}

Resolves(f, u, s) == \A i \in 1..(Len(s) + 1) : f[i] = Resolving(f, u, s, i)

\* Resolved finds a character where it is spelled.
LEMMA SpellingIsResolved ==
    ASSUME NEW v, NEW u, Reads(u, v),
           NEW s, NEW i, NEW p, NEW c, SpelledAt(v, s, i, p, c),
           NEW f, Resolves(f, u, s)
    PROVE  f[i] = Prefixed(c, f[i + Len(p)])
<1> USE DEF SpelledAt, Reads
<1>0. f[i] = Resolving(f, u, s, i) BY DEF Resolves
<1>1. Len(s) \in Nat /\ ~(i > Len(s)) OBVIOUS
<1>2. Len(p) \in Nat \ {0} /\ (\A j \in 1..Len(p) : p[j] # "BAD" /\ ~IsIllegal(v, p[j]))
  BY SpellingIs
<1>3. s[i] = p[1]
  <2>1. 1 \in 1..Len(p) /\ i + 1 - 1 = i BY <1>2
  <2> QED BY <2>1
<1>4. ~(u = "V2" /\ (s[i] = "BAD" \/ IsIllegal("V2", s[i])))
  <2>1. 1 \in 1..Len(p) BY <1>2
  <2>2. u = "V2" => v = "V2" OBVIOUS
  <2> QED BY <1>2, <1>3, <2>1, <2>2
<1>5. CASE IsPlain(v, p, c)
  <2>1. Len(p) = 1 /\ p[1] = c /\ c # "\\" BY <1>5 DEF IsPlain
  <2> QED BY <1>0, <1>1, <1>3, <1>4, <2>1 DEF Resolving
<1>6. CASE IsLettered(p, c)
  <2>1. PICK l \in BothLetters : /\ p = <<"\\", l>>
                                 /\ \A w \in {"V1", "V2"} : l \in DOMAIN Meaning[w] /\ Meaning[w][l] = c
    BY <1>6 DEF IsLettered
  <2>2. Len(p) = 2 /\ p[1] = "\\" /\ p[2] = l BY <2>1
  <2>3. s[i + 1] = l /\ i + 1 <= Len(s)
    <3>1. 2 \in 1..Len(p) /\ i + 2 - 1 = i + 1 BY <2>2
    <3> QED BY <1>1, <2>2, <3>1
  <2>4. l \in DOMAIN Meaning[u] /\ Meaning[u][l] = c BY <2>1
  <2>5. EscapeAt(u, s, i + 1) = EscapeFor(c, i + 1 + 1)
    <3>1. l # "u" BY <2>1, LettersAgree
    <3>2. ~(i + 1 > Len(s)) BY <1>1, <2>3
    <3> QED BY <2>3, <2>4, <3>1, <3>2 DEF EscapeAt
  <2>6. i + 1 + 1 = i + Len(p) BY <2>2
  <2> QED BY <1>0, <1>1, <1>3, <1>4, <2>2, <2>5, <2>6 DEF Resolving, EscapeFor
<1>7. CASE IsNumbered(p, c)
  <2>1. PICK h \in Seq(DOMAIN HexValue) :
          /\ Len(p) = Len(h) + 4
          /\ p[1] = "\\" /\ p[2] = "u" /\ p[3] = OpeningBrace /\ p[Len(h) + 4] = ClosingBrace
          /\ \A j \in 1..Len(h) : p[j + 3] = h[j]
          /\ CharacterAt(Accumulated(h)) = c /\ InRange("V2", Accumulated(h))
    BY <1>7 DEF IsNumbered
  <2>2. Len(h) \in Nat /\ \A j \in 1..Len(h) : h[j] \in DOMAIN HexValue
    BY LenProperties, ElementOfSeq
  <2> DEFINE m == Len(h)
             close == i + 3 + m
  <2>3. m \in Nat /\ close \in Nat /\ close <= Len(s) BY <1>1, <2>1, <2>2
  <2>4. s[i + 1] = "u" /\ s[i + 2] = OpeningBrace /\ s[close] = ClosingBrace
    <3>1. 2 \in 1..Len(p) /\ i + 2 - 1 = i + 1 /\ 3 \in 1..Len(p) /\ i + 3 - 1 = i + 2
          /\ m + 4 \in 1..Len(p) /\ i + (m + 4) - 1 = close
      BY <2>1, <2>3
    <3> HIDE DEF close
    <3> QED BY <2>1, <3>1
  <2>5. ASSUME NEW j \in 1..m PROVE s[i + 3 + j - 1] = h[j]
    <3>1. j + 3 \in 1..Len(p) /\ i + (j + 3) - 1 = i + 3 + j - 1 BY <2>1, <2>3
    <3> QED BY <2>1, <3>1
  <2>6. AfterDigits(s, i + 3) = close
    <3>1. ASSUME NEW j \in (i + 3)..(i + 3 + m - 1) PROVE s[j] \in DOMAIN HexValue
      <4>1. j - i - 2 \in 1..m /\ i + 3 + (j - i - 2) - 1 = j BY <2>3
      <4> QED BY <2>2, <2>5, <4>1
    <3>2. ClosingBrace \notin DOMAIN HexValue BY DigitIs
    <3>3. i + 3 \in Nat \ {0} /\ i + 3 + m <= Len(s) BY <2>3
    <3> HIDE DEF m
    <3> QED BY ZenonT(60), <1>1, <2>3, <2>4, <3>1, <3>2, <3>3, AfterDigitsAre
  <2>7. SubSeq(s, i + 3, close - 1) = h
    <3>1. close - 1 = i + 3 + m - 1 /\ (i + 3 + m - 1) - (i + 3) + 1 = m
          /\ i + 3 \in Nat /\ close - 1 \in Nat
      BY <2>3
    <3> DEFINE t == SubSeq(s, i + 3, close - 1)
    <3>2. t = [j \in 1..m |-> s[i + 3 + j - 1]]
      <4>1. t = [j \in 1..((close - 1) - (i + 3) + 1) |-> s[(i + 3) + j - 1]]
        BY SubSeqProperties DEF SubSeq
      <4> QED BY <3>1, <4>1
    <3>3. h = [j \in 1..m |-> h[j]] BY LenProperties
    <3> HIDE DEF t, m, close
    <3> QED BY <2>5, <3>2, <3>3 DEF t
  <2>8. InRange(u, Accumulated(h)) BY <2>1 DEF InRange
  <2> DEFINE opens == s[i + 1 + 1] = "{"
             closes == s[close] = "}"
  <2>9. opens /\ closes
    <3>1. i + 1 + 1 = i + 2 BY <1>1
    <3>2. s[i + 1 + 1] = OpeningBrace BY <2>4, <3>1
    <3> QED BY <2>4, <3>2, Zenon DEF OpeningBrace, ClosingBrace
  <2>10. NumberEscapeAt(u, s, i + 1) = EscapeFor(c, close + 1)
    <3>1. NumberEscapeAt(u, s, i + 1) =
            IF Len(s) < i + 1 + 2 \/ ~opens THEN NoEscape
            ELSE IF close <= Len(s) /\ closes /\ InRange(u, Accumulated(h))
                 THEN EscapeFor(CharacterAt(Accumulated(h)), close + 1)
                 ELSE NoEscape
      <4>1. i + 1 + 2 = i + 3 BY <1>1
      <4> HIDE DEF close
      <4> QED BY <2>6, <2>7, <4>1, Zenon DEF NumberEscapeAt
    <3>2. ~(Len(s) < i + 1 + 2) BY <1>1, <2>3
    <3> HIDE DEF opens, closes, close
    <3> QED BY <2>1, <2>3, <2>8, <2>9, <3>1, <3>2
  <2>11. EscapeAt(u, s, i + 1) = EscapeFor(c, close + 1)
    <3>1. "u" \notin DOMAIN Meaning[u] BY LettersAgree
    <3>2. i + 1 <= Len(s) /\ ~(i + 1 > Len(s)) BY <1>1, <2>3
    <3> HIDE DEF close, opens, closes
    <3> QED BY <2>4, <2>10, <3>1, <3>2 DEF EscapeAt
  <2>12. close + 1 = i + Len(p) BY <2>1, <2>3
  <2> HIDE DEF close, opens, closes
  <2> QED BY <1>0, <1>1, <1>3, <1>4, <2>1, <2>11, <2>12 DEF Resolving, EscapeFor
<1> QED BY <1>5, <1>6, <1>7 DEF Spells

AreSpelled(v, parts, text) ==
    Len(parts) = Len(text) /\ \A k \in 1..Len(text) : Spells(v, parts[k], text[k])

\* A text of which the parts spell characters stands for these, one after the other.
LEMMA SpelledTextIsResolved ==
    ASSUME NEW v \in {"V1", "V2"}, NEW u \in {"V1", v}, NEW C, NEW text \in Seq(C),
           NEW S, NEW parts \in Seq(Seq(S)), AreSpelled(v, parts, text)
    PROVE  Resolved(u, FlattenSeq(parts)) = Owned(text)
<1> DEFINE n == Len(text)
           s == FlattenSeq(parts)
           rest(k) == SubSeq(text, k, n)
           size(k) == Len(parts[k])
<1> USE DEF AreSpelled
<1>1. n \in Nat /\ s \in Seq(S) /\ Len(s) \in Nat BY FlattenedIsSeq, LenProperties
<1>2. PICK at : ArePlaces(at, parts) BY PartsAreInPlace
<1>3. /\ at \in [1..(n + 1) -> Nat \ {0}] /\ at[1] = 1 /\ at[n + 1] = Len(s) + 1
      /\ \A k \in 1..n : /\ at[k + 1] = at[k] + size(k) /\ at[k + 1] <= Len(s) + 1
                         /\ \A j \in 1..size(k) : s[at[k] + j - 1] = parts[k][j]
  BY <1>2, Zenon DEF ArePlaces
<1>4. /\ rest(1) = text /\ rest(n + 1) = <<>>
      /\ \A k \in 1..n : rest(k) = <<text[k]>> \o rest(k + 1)
  BY RestOf
<1>5. \A k \in 1..n : size(k) \in Nat \ {0} BY SpellingIs
<1> HIDE DEF s, rest, size
<1>6. ASSUME NEW k \in 1..n PROVE at[k] \in 1..Len(s) /\ at[k + 1] <= Len(s) + 1
  <2>1. k \in 1..(n + 1) BY <1>1
  <2>2. at[k + 1] = at[k] + size(k) /\ size(k) \in Nat \ {0} /\ at[k] \in Nat \ {0}
        /\ at[k + 1] <= Len(s) + 1
    BY <1>3, <1>5, <2>1
  <2> QED BY SMTT(60), <1>1, <2>2
<1>7. PICK f : Resolves(f, u, s) /\ Resolved(u, s) = f[1]
  <2>1. u \in {"V1", "V2"} OBVIOUS
  <2>2. PICK f : /\ \A i \in 1..(Len(s) + 1) : f[i] = Resolving(f, u, s, i)
                 /\ Resolved(u, s) = f[1]
    BY <1>1, <2>1, ResolvedIs, Zenon
  <2> QED BY <2>2 DEF Resolves
<1> DEFINE T == {k \in 1..(n + 1) : f[at[k]] = Owned(rest(k))}
<1>8. n + 1 \in T
  <2>1. Len(s) + 1 \in 1..(Len(s) + 1) /\ Len(s) + 1 > Len(s) BY <1>1
  <2>2. f[Len(s) + 1] = Owned(<<>>) BY <1>7, <2>1 DEF Resolving, Resolves
  <2> QED BY <1>1, <1>3, <1>4, <2>2
<1>9. ASSUME NEW k \in 1..n, k + 1 \in T PROVE k \in T
  <2> DEFINE i == at[k]
             p == parts[k]
             c == text[k]
  <2>1. i \in 1..Len(s) /\ at[k + 1] <= Len(s) + 1 /\ size(k) \in Nat BY <1>5, <1>6
  <2>2. Len(p) = size(k) BY DEF size
  <2>3. at[k + 1] = i + Len(p) /\ \A j \in 1..Len(p) : s[i + j - 1] = p[j] BY <1>3, <2>2
  <2>4. f[at[k + 1]] = Owned(rest(k + 1)) BY <1>9
  <2>5. Spells(v, p, c) OBVIOUS
  <2> HIDE DEF i, p, c
  <2>6. i + Len(p) - 1 <= Len(s) BY <1>1, <2>1, <2>2, <2>3
  <2>8. f[i] = Prefixed(c, f[i + Len(p)])
    <3>1. SpelledAt(v, s, i, p, c) BY <1>1, <2>1, <2>3, <2>5, <2>6 DEF SpelledAt
    <3>2. Reads(u, v) BY DEF Reads
    <3>3. Resolves(f, u, s) BY <1>7
    <3> QED BY <3>1, <3>2, <3>3, SpellingIsResolved
  <2>9. f[i] = Owned(<<c>> \o rest(k + 1))
    <3>1. f[i + Len(p)] = Owned(rest(k + 1)) BY <2>3, <2>4
    <3>2. \A x : Prefixed(c, Owned(x)) = Owned(<<c>> \o x) BY DEF Prefixed, Owned
    <3> QED BY <2>8, <3>1, <3>2
  <2>10. rest(k) = <<c>> \o rest(k + 1) BY <1>4 DEF c
  <2>11. k \in 1..(n + 1) BY <1>1
  <2> QED BY <2>9, <2>10, <2>11 DEF i
<1> HIDE DEF T
<1>10. 1..(n + 1) \subseteq T BY <1>1, <1>8, <1>9, DownTo
<1>11. 1 \in T /\ 1 \in 1..(n + 1)
  <2> HIDE DEF n
  <2> QED BY <1>1, <1>10
<1>12. f[1] = Owned(text) BY <1>3, <1>4, <1>11 DEF T
<1> QED BY <1>7, <1>12 DEF s

\* Every character of the whole is one of a part.
IsAllParts(at, parts) ==
    \A i \in 1..Len(FlattenSeq(parts)) :
        \E k \in 1..Len(parts) : \E j \in 1..Len(parts[k]) :
            i = at[k] + j - 1 /\ FlattenSeq(parts)[i] = parts[k][j]

LEMMA EachIsInAPart ==
    ASSUME NEW S, NEW parts \in Seq(Seq(S)), NEW at, ArePlaces(at, parts)
    PROVE  IsAllParts(at, parts)
<1> SUFFICES ASSUME NEW i \in 1..Len(FlattenSeq(parts))
             PROVE  \E k \in 1..Len(parts) : \E j \in 1..Len(parts[k]) :
                        i = at[k] + j - 1 /\ FlattenSeq(parts)[i] = parts[k][j]
  BY DEF IsAllParts
<1> DEFINE n == Len(parts)
           whole == FlattenSeq(parts)
           size(k) == Len(parts[k])
           T == {k \in 1..(n + 1) : at[k] > i}
<1>1. n \in Nat /\ Len(whole) \in Nat BY LenProperties, FlattenedIsSeq
<1>2. /\ at \in [1..(n + 1) -> Nat \ {0}] /\ at[1] = 1 /\ at[n + 1] = Len(whole) + 1
      /\ \A k \in 1..n : /\ at[k + 1] = at[k] + size(k) /\ at[k + 1] <= Len(whole) + 1
                         /\ \A j \in 1..size(k) : whole[at[k] + j - 1] = parts[k][j]
  BY Zenon DEF ArePlaces
<1>3. \A k \in 1..n : size(k) \in Nat
  <2> SUFFICES ASSUME NEW k \in 1..n PROVE size(k) \in Nat OBVIOUS
  <2>1. parts[k] \in Seq(S) BY ElementOfSeq
  <2> QED BY <2>1, LenProperties
<1>4. i \in 1..Len(whole) OBVIOUS
<1> HIDE DEF whole, size, n
<1>5. T \in SUBSET Nat /\ n + 1 \in T BY <1>1, <1>2, <1>4
<1>6. PICK m \in T : \A k \in T : m <= k
  <2> HIDE DEF T
  <2> QED BY <1>5, Least
<1> DEFINE k == m - 1
<1>7. k \in 1..n /\ k \in 1..(n + 1) /\ k + 1 = m /\ ~(m <= k)
  <2>1. m \in 1..(n + 1) /\ m # 1 BY <1>2, <1>4, <1>6
  <2> QED BY <1>1, <2>1
<1>8. at[m] > i BY <1>6
<1> HIDE DEF k
<1>9. at[k] <= i /\ at[k] \in Nat BY SMTT(60), <1>1, <1>2, <1>4, <1>6, <1>7
<1> DEFINE j == i - at[k] + 1
<1>10. j \in 1..size(k) /\ i = at[k] + j - 1
  <2>1. at[m] = at[k] + size(k) /\ size(k) \in Nat BY <1>2, <1>3, <1>7
  <2> QED BY SMTT(60), <1>1, <1>4, <1>8, <1>9, <2>1
<1> HIDE DEF j
<1>11. whole[i] = parts[k][j] BY <1>2, <1>7, <1>10
<1> QED BY <1>7, <1>10, <1>11 DEF whole, size, n

\* s is t, in quotes.
InQuotes(s, t) ==
    /\ Len(t) \in Nat /\ Len(s) = Len(t) + 2
    /\ s[1] = Quote /\ s[Len(t) + 2] = Quote
    /\ \A i \in 1..Len(t) : s[i + 1] = t[i]
    /\ SubSeq(s, 2, Len(t) + 1) = t
    /\ SubSeq(s, 2, Len(t) + 2) = t \o <<Quote>>

LEMMA InQuotesIs ==
    ASSUME NEW S, NEW t \in Seq(S)
    PROVE  InQuotes(<<Quote>> \o t \o <<Quote>>, t)
<1> DEFINE c == Quote
           n == Len(t)
           s == <<c>> \o t \o <<c>>
           D == S \cup {c}
<1>1. n \in Nat /\ t = [i \in 1..n |-> t[i]] /\ \A i \in 1..n : t[i] \in S
  BY LenProperties, ElementOfSeq
<1>2. t \in Seq(D) /\ <<c>> \in Seq(D) BY <1>1
<1>3. Len(s) = n + 2 /\ s[1] = c /\ s[n + 2] = c /\ \A i \in 1..n : s[i + 1] = t[i]
  BY <1>1, <1>2
<1>4. s \in Seq(D) BY <1>2, ConcatProperties
<1> HIDE DEF s, D, c
<1>5. SubSeq(s, 2, n + 1) = t
  <2>1. SubSeq(s, 2, n + 1) = [i \in 1..n |-> s[i + 1]] BY <1>1, <1>3, <1>4
  <2> QED BY <1>1, <1>3, <2>1
<1>6. SubSeq(s, 2, n + 2) = t \o <<c>>
  <2>1. SubSeq(s, 2, n + 2) = [i \in 1..(n + 1) |-> s[i + 1]] BY <1>1, <1>3, <1>4
  <2>2. t \o <<c>> = [i \in 1..(n + 1) |-> IF i = n + 1 THEN c ELSE t[i]] BY <1>1, <1>2
  <2>3. ASSUME NEW i \in 1..(n + 1) PROVE s[i + 1] = IF i = n + 1 THEN c ELSE t[i]
    BY <1>1, <1>3
  <2> QED BY <2>1, <2>2, <2>3
<1> QED BY <1>1, <1>3, <1>5, <1>6 DEF s, c, InQuotes

\* Of the quotes behind the first one, the last is the only one that is not escaped.
OnlyLastCloses(s) ==
    /\ ~Tokens!Escaped(s, 2, Len(s))
    /\ \A i \in 2..(Len(s) - 1) : s[i] = Quote => Tokens!Escaped(s, 2, i)

LEMMA QuotesAreEscaped ==
    ASSUME NEW v \in {"V1", "V2"}, NEW text, NEW S, NEW parts \in Seq(Seq(S)),
           AreSpelled(v, parts, text), NEW s, InQuotes(s, FlattenSeq(parts))
    PROVE  OnlyLastCloses(s)
<1> DEFINE n == Len(parts)
           whole == FlattenSeq(parts)
           size(k) == Len(parts[k])
           Odd(k) == Tokens!Escaped(s, 2, k)
<1>1. n \in Nat /\ Len(whole) \in Nat BY LenProperties, FlattenedIsSeq
<1>2. PICK at : ArePlaces(at, parts) BY PartsAreInPlace
<1>3. /\ at \in [1..(n + 1) -> Nat \ {0}] /\ at[1] = 1 /\ at[n + 1] = Len(whole) + 1
      /\ \A k \in 1..n : /\ at[k + 1] = at[k] + size(k) /\ at[k + 1] <= Len(whole) + 1
                         /\ \A j \in 1..size(k) : whole[at[k] + j - 1] = parts[k][j]
  BY <1>2, Zenon DEF ArePlaces
<1>4. ASSUME NEW k \in 1..n
      PROVE  /\ size(k) \in Nat \ {0}
             /\ \/ (\A j \in 1..size(k) : parts[k][j] # Quote) /\ parts[k][size(k)] # "\\"
                \/ size(k) = 2 /\ parts[k][1] = "\\"
  <2>1. Spells(v, parts[k], text[k]) BY DEF AreSpelled
  <2> QED BY <2>1, SpellingIs
<1>5. \A i \in 1..Len(whole) : s[i + 1] = whole[i] BY Zenon DEF InQuotes
<1>6. \A i \in 1..Len(whole) : \E k \in 1..n : \E j \in 1..size(k) :
          i = at[k] + j - 1 /\ whole[i] = parts[k][j]
  <2>1. IsAllParts(at, parts) BY <1>2, EachIsInAPart
  <2> QED BY <2>1, Zenon DEF IsAllParts
<1>7. Len(s) = Len(whole) + 2 BY Zenon DEF InQuotes
<1>8. \A k \in Nat : 2 <= k => (Odd(k) <=> k > 2 /\ s[k - 1] = "\\" /\ ~Odd(k - 1))
  BY EscapedIs
<1> HIDE DEF n, whole, size, Odd
<1>9. ASSUME NEW k \in 1..n
      PROVE  /\ at[k] \in Nat \ {0} /\ at[k + 1] = at[k] + size(k)
             /\ \A j \in 1..size(k) : s[at[k] + j] = parts[k][j]
  <2>1. /\ at[k] \in Nat \ {0} /\ at[k + 1] = at[k] + size(k) /\ at[k + 1] <= Len(whole) + 1
        /\ \A j \in 1..size(k) : whole[at[k] + j - 1] = parts[k][j]
    BY <1>1, <1>3
  <2>2. ASSUME NEW j \in 1..size(k) PROVE s[at[k] + j] = parts[k][j]
    <3>1. at[k] + j - 1 \in 1..Len(whole) /\ at[k] + j - 1 + 1 = at[k] + j
      <4>1. size(k) \in Nat BY <1>4
      <4> QED BY SMTT(60), <1>1, <2>1, <4>1
    <3>2. whole[at[k] + j - 1] = parts[k][j] BY <2>1
    <3> QED BY <1>5, <3>1, <3>2
  <2> QED BY <2>1, <2>2
<1>10. ASSUME NEW k \in 1..n, ~Odd(at[k] + 1), size(k) = 2, parts[k][1] = "\\"
       PROVE  Odd(at[k] + 2)
  <2>1. s[at[k] + 1] = "\\"
    <3>1. 1 \in 1..size(k) BY <1>10
    <3> QED BY <1>9, <1>10, <3>1
  <2> DEFINE b == at[k] + 2
  <2>2. b \in Nat /\ 2 <= b /\ b > 2 /\ b - 1 = at[k] + 1 BY <1>9
  <2>3. s[b - 1] = "\\" /\ ~Odd(b - 1) BY <1>10, <2>1, <2>2
  <2> HIDE DEF b
  <2>4. Odd(b) BY <1>8, <2>2, <2>3
  <2> QED BY <2>4 DEF b
<1> DEFINE T == {k \in 0..n : ~Odd(at[k + 1] + 1)}
<1>11. 0 \in T
  <2>1. ~Odd(2) BY <1>8
  <2> QED BY <1>1, <1>3, <2>1
<1>12. ASSUME NEW k \in 1..n, k - 1 \in T PROVE k \in T
  <2>1. ~Odd(at[k] + 1)
    <3>1. k - 1 + 1 = k OBVIOUS
    <3> QED BY <1>12, <3>1
  <2> DEFINE end == at[k] + size(k)
  <2>2. at[k + 1] = end /\ end \in Nat /\ end + 1 > 2 /\ end + 1 - 1 = end BY SMTT(60), <1>4, <1>9
  <2>3. CASE parts[k][size(k)] # "\\"
    <3>1. size(k) \in 1..size(k) BY <1>4
    <3>2. s[end] # "\\" BY <1>9, <2>3, <3>1
    <3> QED BY <1>8, <2>2, <3>2
  <2>4. CASE size(k) = 2 /\ parts[k][1] = "\\"
    <3>1. Odd(at[k] + 2) BY <1>10, <2>1, <2>4
    <3>2. Odd(end) BY <2>4, <3>1
    <3> HIDE DEF end
    <3>3. end + 1 \in Nat /\ 2 <= end + 1 BY <2>2
    <3>4. ~Odd(end + 1) BY <1>8, <2>2, <3>2, <3>3
    <3> QED BY <2>2, <3>4
  <2> QED BY <1>4, <2>3, <2>4
<1> HIDE DEF T
<1>13. 0..n \subseteq T BY <1>1, <1>11, <1>12, UpTo
<1>14. \A k \in 0..n : ~Odd(at[k + 1] + 1) BY <1>13 DEF T
<1>15. ~Odd(Len(s))
  <2>1. at[n + 1] + 1 = Len(s) /\ n \in 0..n BY <1>1, <1>3, <1>7
  <2> QED BY <1>14, <2>1
<1>16. ASSUME NEW i \in 2..(Len(s) - 1), s[i] = Quote PROVE Odd(i)
  <2>1. i - 1 \in 1..Len(whole) /\ i - 1 + 1 = i BY <1>1, <1>7
  <2>2. PICK k \in 1..n : \E j \in 1..size(k) : i - 1 = at[k] + j - 1 /\ whole[i - 1] = parts[k][j]
    BY <1>6, <2>1
  <2>3. PICK j \in 1..size(k) : i - 1 = at[k] + j - 1 /\ whole[i - 1] = parts[k][j] BY <2>2
  <2>4. parts[k][j] = Quote BY <1>5, <1>16, <2>1, <2>3
  <2>5. size(k) = 2 /\ parts[k][1] = "\\" BY <1>4, <2>4
  <2>6. j = 2
    <3>1. Quote # "\\" BY Zenon DEF Quote
    <3> QED BY <2>4, <2>5, <3>1
  <2>7. i = at[k] + 2
    <3>1. at[k] \in Nat /\ i \in Int /\ i - 1 = at[k] + 2 - 1 BY <1>9, <2>3, <2>6
    <3> QED BY SMTT(60), <3>1
  <2>8. ~Odd(at[k] + 1)
    <3>1. k - 1 \in 0..n /\ k - 1 + 1 = k BY <1>1
    <3> QED BY <1>14, <3>1
  <2> QED BY <1>10, <2>5, <2>7, <2>8
<1> QED BY <1>15, <1>16, Zenon DEF Odd, OnlyLastCloses

\* What may be in a text of which the parts are spelled.
LEMMA SpelledTextHas ==
    ASSUME NEW v \in {"V1", "V2"}, NEW text, NEW S, NEW parts \in Seq(Seq(S)),
           AreSpelled(v, parts, text), NEW i \in 1..Len(FlattenSeq(parts))
    PROVE  /\ FlattenSeq(parts)[i] # "BAD" /\ ~IsIllegal(v, FlattenSeq(parts)[i])
           /\ IsNewline(FlattenSeq(parts)[i]) =>
                  \E k \in 1..Len(text) : IsNewline(text[k]) /\ parts[k] = <<text[k]>>
<1> DEFINE whole == FlattenSeq(parts)
           size(k) == Len(parts[k])
<1>1. PICK at : ArePlaces(at, parts) BY PartsAreInPlace
<1>2. IsAllParts(at, parts) BY <1>1, EachIsInAPart
<1>3. PICK k \in 1..Len(parts) : \E j \in 1..size(k) : whole[i] = parts[k][j]
  BY <1>2, Zenon DEF IsAllParts
<1>4. PICK j \in 1..size(k) : whole[i] = parts[k][j] BY <1>3
<1> DEFINE p == parts[k]
           c == text[k]
<1>5. k \in 1..Len(text) /\ Spells(v, p, c) BY DEF AreSpelled
<1>6. p[j] # "BAD" /\ ~IsIllegal(v, p[j]) /\ (IsNewline(p[j]) => IsNewline(c) /\ p = <<c>>)
  <2> HIDE DEF p, c
  <2>1. j \in 1..Len(p) BY DEF p
  <2> QED BY <1>5, <2>1, SpellingIs
<1> QED BY <1>4, <1>5, <1>6

\* Such a text in quotes is one token.
LEMMA ClosedIsToken ==
    ASSUME NEW v \in {"V1", "V2"}, NEW S, NEW t \in Seq(S),
           \A i \in 1..Len(t) : t[i] # "BAD" /\ ~IsIllegal(v, t[i]),
           NEW s, InQuotes(s, t), OnlyLastCloses(s)
    PROVE  Tokens!Answer(v, s) = Tokens!Taking(Len(s), Tokens!Token("STRING", t))
<1> DEFINE n == Len(t)
           Odd(k) == Tokens!Escaped(s, 2, k)
<1>2. /\ n \in Nat /\ Len(s) = n + 2
      /\ s[1] = Quote /\ s[n + 2] = Quote
      /\ SubSeq(s, 2, n + 1) = t /\ SubSeq(s, 2, n + 2) = t \o <<Quote>>
  BY Zenon DEF InQuotes
<1>3. \A i \in 1..n : t[i] # "BAD" /\ ~IsIllegal(v, t[i]) OBVIOUS
<1> HIDE DEF n
<1>4. ~Odd(n + 2) /\ \A i \in 2..(n + 1) : s[i] = Quote => Odd(i)
  <2>1. Len(s) - 1 = n + 1 BY <1>2
  <2>2. ~Odd(Len(s)) /\ \A i \in 2..(Len(s) - 1) : s[i] = Quote => Odd(i)
    BY Zenon DEF OnlyLastCloses
  <2> QED BY <1>2, <2>1, <2>2, Zenon
<1>5. ~Odd(2)
  <2>1. 2 \in Nat /\ 2 <= 2 /\ ~(2 > 2) OBVIOUS
  <2> QED BY <2>1, EscapedIs, Zenon
<1> HIDE DEF Odd
<1>6. ~(Len(s) > 2 /\ s[2] = Quote) BY <1>2, <1>4, <1>5
<1>7. Tokens!Quotes(s, 1, 3) = 1
  <2>1. Tokens!Quotes(s, 1, 3) =
            IF 3 = 3 /\ Len(s) >= 1 + 2 /\ (\A i \in 1..(1 + 2) : s[i] = Quote) THEN 3 ELSE 1
    BY Zenon DEF Tokens!Quotes, Tokens!All, Quote
  <2>2. ~(Len(s) >= 1 + 2 /\ (\A i \in 1..(1 + 2) : s[i] = Quote))
    <3>1. 2 \in 1..(1 + 2) OBVIOUS
    <3> QED BY <1>2, <1>6, <3>1
  <2> QED BY <2>1, <2>2
<1> DEFINE ends == {k \in (2 + 1 - 1)..Len(s) : \A i \in (k - 1 + 1)..k : s[i] = Quote /\ ~Odd(i)}
<1>8. ends = {n + 2}
  <2>1. \A k \in 2..(n + 2) : (\A i \in (k - 1 + 1)..k : s[i] = Quote /\ ~Odd(i))
                               <=> s[k] = Quote /\ ~Odd(k)
    <3> SUFFICES ASSUME NEW k \in 2..(n + 2)
                 PROVE (\A i \in (k - 1 + 1)..k : s[i] = Quote /\ ~Odd(i))
                            <=> s[k] = Quote /\ ~Odd(k)
      OBVIOUS
    <3>1. k \in (k - 1 + 1)..k /\ \A i \in (k - 1 + 1)..k : i = k BY <1>2
    <3> QED BY <3>1
  <2>2. \A k \in 2..(n + 2) : s[k] = Quote /\ ~Odd(k) <=> k = n + 2 BY <1>2, <1>4
  <2> QED BY <1>2, <2>1, <2>2
<1>9. Tokens!PlainString(v, s) = Tokens!Closed(v, s, "STRING", 2, ends, 1)
  <2> DEFINE bad == Len(s) > 2 /\ s[2] = Quote /\ s[3] = "BAD"
  <2>1. Tokens!PlainString(v, s) =
            IF bad THEN Tokens!Refusal
            ELSE Tokens!Closed(v, s, IF 1 = 3 THEN "MULTILINE_STRING" ELSE "STRING", 1 + 1,
                    {k \in (1 + 1 + 1 - 1)..Len(s) : \A i \in (k - 1 + 1)..k :
                         s[i] = Quote /\ ~Tokens!Escaped(s, 1 + 1, i)}, 1)
    BY <1>7, Zenon DEF Tokens!PlainString, Quote
  <2>2. ~bad BY <1>6
  <2>3. 1 + 1 = 2 /\ 1 # 3 OBVIOUS
  <2> HIDE DEF bad
  <2> QED BY <2>1, <2>2, <2>3, Zenon DEF Odd
<1>10. Tokens!Closed(v, s, "STRING", 2, ends, 1) = Tokens!Taking(n + 2, Tokens!Token("STRING", t))
  <2>1. Tokens!Least(ends) = n + 2
    <3> HIDE DEF ends
    <3>1. Tokens!Least(ends) = CHOOSE k \in ends : \A m \in ends : k <= m
      BY Zenon DEF Tokens!Least
    <3>2. n + 2 \in ends /\ \A k \in ends : k = n + 2 BY <1>8
    <3>3. \A m \in ends : n + 2 <= m BY <1>2, <3>2
    <3> QED BY <3>1, <3>2, <3>3
  <2>2. ends # {} BY <1>8
  <2>3. Tokens!Acceptable(v, SubSeq(s, 2, n + 2))
    <3> DEFINE e == t \o <<Quote>>
    <3>1. DOMAIN e = 1..(n + 1) /\ (\A i \in 1..n : e[i] = t[i]) /\ e[n + 1] = Quote
      <4>1. t \in Seq(S \cup {Quote}) /\ <<Quote>> \in Seq(S \cup {Quote})
        <5>1. \A i \in 1..Len(t) : t[i] \in S BY ElementOfSeq
        <5>2. Len(t) \in Nat /\ t = [i \in 1..Len(t) |-> t[i]] BY LenProperties
        <5> QED BY <5>1, <5>2
      <4> QED BY <1>2, <4>1 DEF n
    <3>3. Quote # "BAD" /\ ~IsIllegal(v, Quote) BY Zenon DEF Quote, IsIllegal
    <3>4. \A i \in 1..(n + 1) : i \in 1..n \/ i = n + 1 BY <1>2
    <3> HIDE DEF e
    <3>5. \A i \in DOMAIN e : e[i] # "BAD" /\ ~IsIllegal(v, e[i])
      BY <1>3, <3>1, <3>3, <3>4
    <3>6. SubSeq(s, 2, n + 2) = e BY <1>2 DEF e
    <3> QED BY <3>5, <3>6 DEF Tokens!Acceptable, Tokens!IsIllegal, IsIllegal
  <2>4. n + 2 - 1 = n + 1 BY <1>2
  <2> HIDE DEF ends
  <2>5. SubSeq(s, 2, n + 1) = t BY <1>2
  <2>6. Tokens!Closed(v, s, "STRING", 2, ends, 1) =
            IF ends # {} /\ Tokens!Acceptable(v, SubSeq(s, 2, Tokens!Least(ends)))
            THEN Tokens!Taking(Tokens!Least(ends),
                               Tokens!Token("STRING", SubSeq(s, 2, Tokens!Least(ends) - 1)))
            ELSE Tokens!Refusal
    BY Zenon DEF Tokens!Closed
  <2> DEFINE last == Tokens!Least(ends)
  <2>7. last = n + 2 /\ last - 1 = n + 1
    <3> HIDE DEF last
    <3>1. last = n + 2 BY <2>1 DEF last
    <3>2. n \in Nat BY <1>2
    <3> QED BY <3>1, <3>2
  <2>8. SubSeq(s, 2, last - 1) = t /\ Tokens!Acceptable(v, SubSeq(s, 2, last)) BY <2>3, <2>5, <2>7
  <2> HIDE DEF last
  <2>9. Tokens!Closed(v, s, "STRING", 2, ends, 1) = Tokens!Taking(last, Tokens!Token("STRING", t))
    <3>1. Tokens!Closed(v, s, "STRING", 2, ends, 1) =
            IF ends # {} /\ Tokens!Acceptable(v, SubSeq(s, 2, last))
            THEN Tokens!Taking(last, Tokens!Token("STRING", SubSeq(s, 2, last - 1)))
            ELSE Tokens!Refusal
      BY <2>6, Zenon DEF last
    <3> QED BY <2>2, <2>8, <3>1, Zenon
  <2> QED BY <2>7, <2>9, Zenon
<1>11. Tokens!Answer(v, s) = Tokens!PlainString(v, s)
  <2> DEFINE c == s[1]
  <2>1. c = Quote /\ s # <<>> BY <1>2
  <2>2. Tokens!Acceptable(v, <<c>>)
    <3>1. Quote # "BAD" /\ ~IsIllegal(v, Quote) BY Zenon DEF Quote, IsIllegal
    <3> QED BY <2>1, <3>1 DEF Tokens!Acceptable, Tokens!IsIllegal, IsIllegal
  <2>3. /\ ~Tokens!IsWhitespace(v, Quote) /\ ~Tokens!IsNewline(Quote) /\ Quote # ";"
        /\ Quote \notin {"\\", "(", ")", "{", "}", "="}
        /\ Quote # "/" /\ Quote \notin {"r", "#"} /\ ~Tokens!IsWordChar(v, Quote)
    BY Zenon DEF Quote, Tokens!IsWhitespace, Tokens!IsNewline, Tokens!IsWordChar, Tokens!Reserved
  <2>4. DOMAIN Tokens!Punctuation = {"\\", "(", ")", "{", "}", "="}
    BY Zenon DEF Tokens!Punctuation
  <2> QED BY <2>1, <2>2, <2>3, <2>4, Zenon DEF Tokens!Answer, Quote
<1> QED BY <1>2, <1>9, <1>10, <1>11

LEMMA QuotedIsToken ==
    ASSUME NEW v \in {"V1", "V2"}, NEW text, NEW S, NEW parts \in Seq(Seq(S)),
           AreSpelled(v, parts, text), NEW s, s = <<Quote>> \o FlattenSeq(parts) \o <<Quote>>
    PROVE  Tokens!Answer(v, s) = Tokens!Taking(Len(s), Tokens!Token("STRING", FlattenSeq(parts)))
<1> DEFINE whole == FlattenSeq(parts)
<1>1. whole \in Seq(S) BY FlattenedIsSeq
<1>2. \A i \in 1..Len(whole) : whole[i] # "BAD" /\ ~IsIllegal(v, whole[i]) BY SpelledTextHas
<1>3. InQuotes(s, whole)
  <2>1. s = <<Quote>> \o whole \o <<Quote>> OBVIOUS
  <2> HIDE DEF whole
  <2> QED BY <1>1, <2>1, InQuotesIs, Zenon
<1>4. OnlyLastCloses(s) BY <1>3, QuotesAreEscaped, Zenon
<1> HIDE DEF whole
<1>5. Tokens!Answer(v, s) = Tokens!Taking(Len(s), Tokens!Token("STRING", whole))
  BY <1>1, <1>2, <1>3, <1>4, ClosedIsToken, Zenon
<1> QED BY <1>5 DEF whole

\* A newline that is to be escaped does not stay what it is.
LEMMA NewlineIsEscaped ==
    ASSUME NEW v \in {"V1", "V2"}, NEW mode, "NEWLINE" \in mode, NEW c, IsNewline(c)
    PROVE  Spelled(c, ByLetter(mode, c), ByNumber(v, mode, c)) # <<c>>
<1> DEFINE p == Spelled(c, ByLetter(mode, c), ByNumber(v, mode, c))
<1>1. c # "\\" BY Zenon DEF IsNewline
<1>2. p[1] = "\\"
  <2>1. CASE ByLetter(mode, c)
    <3>1. p = <<"\\", Letter[c]>> BY ZenonT(60), <2>1 DEF Spelled
    <3> HIDE DEF p
    <3> QED BY <3>1
  <2>2. CASE ~ByLetter(mode, c)
    <3> DEFINE h == Hex(Code[c])
               a == <<"\\", "u", OpeningBrace>>
               z == <<ClosingBrace>>
    <3>1. c = "NEL" BY <2>2, Zenon DEF ByLetter, IsNewline
    <3>2. ByNumber(v, mode, c) BY <3>1 DEF ByNumber, ByNumberV1, ByNumberV2, Beyond
    <3>3. p = a \o h \o z BY <2>2, <3>2, Zenon DEF Spelled, OpeningBrace, ClosingBrace
    <3>4. c \in DOMAIN Code BY SMT, <3>1 DEF Code
    <3>5. h \in Seq(DOMAIN HexValue) BY <3>4, CodeIs, HexComesBack
    <3> HIDE DEF h
    <3>6. (a \o h \o z)[1] = "\\" BY <3>5
    <3> HIDE DEF p, a, z
    <3> QED BY <3>3, <3>6
  <2> QED BY <2>1, <2>2
<1> HIDE DEF p
<1>3. p # <<c>>
  <2> SUFFICES ASSUME p = <<c>> PROVE FALSE OBVIOUS
  <2>1. p[1] = c OBVIOUS
  <2> QED BY <1>1, <1>2, <2>1
<1> QED BY <1>3 DEF p

\* What kdl_escape_v makes of a text, in parts
PartsOf(v, mode, text) ==
    [i \in DOMAIN text |-> Spelled(text[i], ByLetter(mode, text[i]), ByNumber(v, mode, text[i]))]

LEMMA EscapedIsSpelled ==
    ASSUME NEW v \in {"V1", "V2"}, NEW mode, NEW C, NEW text \in Seq(C), ~Contains(text, "BAD")
    PROVE  /\ PartsOf(v, mode, text) \in Seq(Seq(C \cup Marks))
           /\ AreSpelled(v, PartsOf(v, mode, text), text)
           /\ Escape(v, text, mode) = Owned(FlattenSeq(PartsOf(v, mode, text)))
<1> DEFINE n == Len(text)
           parts == PartsOf(v, mode, text)
           part(c) == Spelled(c, ByLetter(mode, c), ByNumber(v, mode, c))
<1>1. n \in Nat /\ DOMAIN text = 1..n /\ \A i \in 1..n : text[i] \in C /\ text[i] # "BAD"
  BY LenProperties, ElementOfSeq DEF Contains
<1>2. parts = [i \in 1..n |-> part(text[i])] BY <1>1 DEF PartsOf
<1> HIDE DEF parts
<1>3. ASSUME NEW i \in 1..n
      PROVE  Spells(v, part(text[i]), text[i]) /\ part(text[i]) \in Seq(C \cup Marks)
  <2> DEFINE c == text[i]
             p == part(c)
  <2>1. c \in C /\ c # "BAD" BY <1>1
  <2> HIDE DEF c
  <2>2. Spells(v, p, c) /\ p \in Seq({c} \cup Marks) BY <2>1, SpelledIsSpelling
  <2> HIDE DEF p
  <2>3. p \in Seq(C \cup Marks)
    <3>1. Len(p) \in Nat /\ p = [j \in 1..Len(p) |-> p[j]] BY <2>2, LenProperties
    <3>2. \A j \in 1..Len(p) : p[j] \in {c} \cup Marks BY <2>2, ElementOfSeq
    <3>3. \A j \in 1..Len(p) : p[j] \in C \cup Marks BY <2>1, <3>2
    <3> QED BY <3>1, <3>3
  <2> QED BY <2>2, <2>3 DEF c, p
<1> HIDE DEF part
<1>4. \A i \in 1..n : parts[i] = part(text[i]) BY <1>2
<1>5. parts \in Seq(Seq(C \cup Marks)) /\ Len(parts) = n BY <1>1, <1>2, <1>3
<1>6. AreSpelled(v, parts, text) BY <1>3, <1>4, <1>5 DEF AreSpelled
<1>7. Escape(v, text, mode) = Owned(FlattenSeq(parts))
  <2>1. CASE v = "V1" BY <2>1, Zenon DEF Escape, EscapeV1, ByNumber, PartsOf, parts
  <2>2. CASE v # "V1" BY <2>2, Zenon DEF Escape, EscapeV2, ByNumber, PartsOf, parts
  <2> QED BY <2>1, <2>2
<1> QED BY <1>5, <1>6, <1>7 DEF parts

\* What is escaped has no newline if the text has none or if newlines are escaped.
LEMMA NoNewlineIsLeft ==
    ASSUME NEW v \in {"V1", "V2"}, NEW mode, NEW C, NEW text \in Seq(C), ~Contains(text, "BAD"),
           "NEWLINE" \in mode \/ ~ContainsNewline(text)
    PROVE  ~ContainsNewline(FlattenSeq(PartsOf(v, mode, text)))
<1> DEFINE parts == PartsOf(v, mode, text)
           whole == FlattenSeq(parts)
<1>1. parts \in Seq(Seq(C \cup Marks)) /\ AreSpelled(v, parts, text) BY EscapedIsSpelled
<1>2. whole \in Seq(C \cup Marks) BY <1>1, FlattenedIsSeq
<1>3. DOMAIN text = 1..Len(text) /\ DOMAIN whole = 1..Len(whole) /\ Len(text) \in Nat
  <2> HIDE DEF whole
  <2> QED BY <1>2, LenProperties
<1>4. \A k \in 1..Len(text) :
          parts[k] = Spelled(text[k], ByLetter(mode, text[k]), ByNumber(v, mode, text[k]))
  BY <1>3 DEF PartsOf
<1> HIDE DEF parts
<1>5. ASSUME NEW i \in 1..Len(whole) PROVE ~IsNewline(whole[i])
  <2> SUFFICES ASSUME IsNewline(whole[i]) PROVE FALSE OBVIOUS
  <2>1. PICK k \in 1..Len(text) : IsNewline(text[k]) /\ parts[k] = <<text[k]>>
    BY ZenonT(60), <1>1, SpelledTextHas
  <2>2. CASE "NEWLINE" \in mode BY <1>4, <2>1, <2>2, NewlineIsEscaped
  <2>3. CASE ~ContainsNewline(text)
    <3>1. SubSeq(text, 1, k) \in Seq(C) /\ Len(SubSeq(text, 1, k)) = k
          /\ \A j \in 1..k : SubSeq(text, 1, k)[j] = text[j]
      BY <1>3
    <3>2. ~Contains(SubSeq(text, 1, k), "BAD")
      <4>1. \A j \in 1..k : text[j] # "BAD" BY <1>3 DEF Contains
      <4> QED BY <3>1, <4>1 DEF Contains
    <3> QED BY <1>3, <2>1, <2>3, <3>2 DEF ContainsNewline
  <2> QED BY <2>2, <2>3
<1> HIDE DEF whole
<1> QED BY <1>3, <1>5 DEF ContainsNewline, whole, parts

LEMMA EscapedTextIsRead ==
    ASSUME NEW v \in {"V1", "V2"}, NEW mode, NEW C, NEW text \in Seq(C), ~Contains(text, "BAD"),
           v = "V2" => "NEWLINE" \in mode \/ ~ContainsNewline(text)
    PROVE  Unescape(v, FlattenSeq(PartsOf(v, mode, text))) = Owned(text)
<1> DEFINE parts == PartsOf(v, mode, text)
           whole == FlattenSeq(parts)
<1>1. parts \in Seq(Seq(C \cup Marks)) /\ AreSpelled(v, parts, text) BY EscapedIsSpelled
<1>2. whole \in Seq(C \cup Marks) BY <1>1, FlattenedIsSeq
<1>3. \A u \in {"V1", v} : Resolved(u, whole) = Owned(text)
  <2> HIDE DEF parts
  <2> QED BY <1>1, SpelledTextIsResolved
<1>4. CASE v = "V1" BY <1>3, <1>4 DEF Unescape, UnescapeV1
<1>5. CASE v = "V2"
  <2>1. \A i \in 1..Len(whole) : whole[i] # "BAD" /\ ~IsIllegal("V2", whole[i])
    BY <1>1, <1>5, SpelledTextHas
  <2>2. ~ContainsNewline(whole) BY <1>5, NoNewlineIsLeft
  <2>3. Resolved("V1", whole) = Owned(text) /\ Resolved("V2", whole) = Owned(text)
    BY <1>3, <1>5
  <2> HIDE DEF whole
  <2>4. Resolved("V1", whole).ok BY <2>3 DEF Owned
  <2>5. RemoveEscapedWhitespace(whole).text = whole
    BY <1>2, <2>1, <2>4, NothingIsRemoved DEF Owned
  <2>6. Unescape(v, whole) = Owned(text)
    BY <1>5, <2>2, <2>3, <2>5 DEF Unescape, UnescapeV2SingleLine, ResolveEscapesV2
  <2> QED BY <2>6 DEF whole
<1> QED BY <1>4, <1>5

\* kdl_escape_v: whatever a string holds, however long it is, and whichever characters
\* are to be escaped, what is made of it can be put in quotes, as one token, and is read
\* as the same string; only what is no UTF-8 is refused.
THEOREM EscapingIsUndone == DataSpec => []EscapedTextComesBack
<1>1. TextsIInv => EscapedTextComesBack
  <2> SUFFICES ASSUME TextsIInv, subject = "characters",
                      NEW version \in {"V1", "V2"}, NEW mode \in EscapeModes
               PROVE  LET escaped == Escape(version, input, mode)
                          quoted == <<"\"">> \o escaped.text \o <<"\"">>
                      IN /\ escaped.ok <=> ~Contains(input, "BAD")
                         /\ escaped.ok /\ (version = "V2" => "NEWLINE" \in mode \/ ~ContainsNewline(input)) =>
                                /\ Unescape(version, escaped.text) = Owned(input)
                                /\ Tokens!Answer(version, quoted)
                                     = Tokens!Taking(Len(quoted), Tokens!Token("STRING", escaped.text))
    BY Zenon DEF EscapedTextComesBack
  <2> DEFINE escaped == Escape(version, input, mode)
             C == Elements["characters"]
             parts == PartsOf(version, mode, input)
             whole == FlattenSeq(parts)
             quoted == <<Quote>> \o whole \o <<Quote>>
  <2>1. input \in Seq(C) BY DEF TextsIInv
  <2>2. CASE Contains(input, "BAD")
    <3>1. escaped = Null BY <2>2, Zenon DEF Escape, EscapeV1, EscapeV2
    <3>2. ~escaped.ok BY <3>1 DEF Null
    <3> HIDE DEF escaped
    <3> QED BY <2>2, <3>2, Zenon DEF escaped
  <2>3. CASE ~Contains(input, "BAD")
    <3> HIDE DEF C
    <3>1. /\ parts \in Seq(Seq(C \cup Marks)) /\ AreSpelled(version, parts, input)
          /\ escaped = Owned(whole)
      BY <2>1, <2>3, EscapedIsSpelled
    <3>2. escaped.ok /\ escaped.text = whole BY <3>1 DEF Owned
    <3>3. (version = "V2" => "NEWLINE" \in mode \/ ~ContainsNewline(input))
              => Unescape(version, whole) = Owned(input)
      BY <2>1, <2>3, EscapedTextIsRead
    <3>4. Tokens!Answer(version, quoted) = Tokens!Taking(Len(quoted), Tokens!Token("STRING", whole))
      <4> HIDE DEF parts
      <4> QED BY <3>1, QuotedIsToken, Zenon
    <3> HIDE DEF escaped, whole
    <3> QED BY <2>3, <3>2, <3>3, <3>4, Zenon DEF escaped, Quote
  <2> QED BY <2>2, <2>3
<1> QED BY <1>1, TextsInvariant, PTL
=============================================================================
