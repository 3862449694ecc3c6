------------------------- MODULE KdlTokenizerProofs -------------------------
(***************************************************************************)
(* The tokenizer's pointers and bytes, for every document, every way to    *)
(* cut it into reads, and every size of the buffer.                        *)
(***************************************************************************)
EXTENDS KdlTokenizer, SequenceTheorems, TLAPS

-----------------------------------------------------------------------------
(* The inductive invariant. *)

\* What memory may hold, and what it may be read as.
Byte == (UNION {{d[i] : i \in 1..Len(d)} : d \in Documents}) \cup {Garbage}
Letter == Byte \cup {"none", "NEL", "NBSP", "BOM", "other"}

\* The block, and the document in it.  A buffer that has not been allocated is empty.
MemoryIInv ==
    /\ stream \in BOOLEAN /\ allocated \in BOOLEAN
    /\ file \in Seq(Byte) /\ mem \in Seq(Byte)
    /\ base \in Nat /\ doc \in [data : Nat, len : Nat]
    /\ base <= doc.data /\ doc.data + doc.len <= base + Len(mem)
    /\ stream /\ ~allocated => mem = <<>>

LocalVariables ==
    [cur : Nat, dry : BOOLEAN, prev : Letter, depth : Int, raw : BOOLEAN, v1 : BOOLEAN,
     hashes : Nat, quotes : Nat, start : Nat, hashes_found : Nat, quotes_found : Nat,
     end : Nat]

\* What is unread begins with a character that a word may begin with.
StartsWord ==
    /\ PopCodepoint(Unread).status = "OK"
    /\ IsWordChar(charset, PopCodepoint(Unread).c)

\* A loop that runs and its locals: how far cur has come at least, where a string may
\* have ended, and that what may fall back to a word begins as one.
RunsWith(loop, locals) ==
    /\ loop # "idle" /\ locals \in LocalVariables
    /\ doc.data <= locals.cur /\ locals.cur <= doc.data + doc.len
    /\ loop = "token" => locals.cur = doc.data
    /\ loop \in {"whitespace", "cr", "slash", "line", "block"} => locals.cur > doc.data
    /\ loop \in {"hashes", "quotes"} =>
           /\ locals.cur >= doc.data + locals.quotes
           /\ locals.end = 0 /\ locals.quotes_found = 0
    /\ loop = "string" =>
           /\ doc.data + locals.start <= locals.cur /\ doc.data + locals.end <= locals.cur
           /\ locals.end # 0 \/ locals.quotes_found # 0 => locals.start <= locals.end
    /\ loop = "word" \/ locals.raw => StartsWord

\* Whether a loop runs, and what the latest call has returned if none does.
CallIInv ==
    /\ at # "idle" => token.status = "NONE" /\ RunsWith(at, l)
    /\ at = "idle" /\ token.status = "OK" =>
           /\ token.from \in Nat /\ token.len \in Nat
           /\ base <= token.from /\ token.from + token.len <= doc.data

TokenizerIInv == MemoryIInv /\ CallIInv

-----------------------------------------------------------------------------
(* Characters. *)

Unreadable(why) == [status |-> why, c |-> Garbage, width |-> 0]

LEMMA CodepointCases ==
    ASSUME NEW s, s # <<>>
    PROVE  /\ s[1] \in Continuation \cup {Garbage} => PopCodepoint(s) = Unreadable("DECODE_ERROR")
           /\ s[1] \notin Continuation \cup {Garbage} =>
              /\ Len(s) < SequenceLength(s[1]) => PopCodepoint(s) = Unreadable("INCOMPLETE")
              /\ ~(Len(s) < SequenceLength(s[1])) =>
                 PopCodepoint(s) =
                 IF \A i \in 2..SequenceLength(s[1]) : s[i] \in Continuation
                 THEN [status |-> "OK", c |-> Character(SubSeq(s, 1, SequenceLength(s[1]))),
                       width |-> SequenceLength(s[1])]
                 ELSE Unreadable("DECODE_ERROR")
<1> DEFINE bad == s[1] \in Continuation \cup {Garbage}
           short == Len(s) < SequenceLength(s[1])
           whole == \A i \in 2..SequenceLength(s[1]) : s[i] \in Continuation
           read == [status |-> "OK", c |-> Character(SubSeq(s, 1, SequenceLength(s[1]))),
                    width |-> SequenceLength(s[1])]
<1>1. PopCodepoint(s) =
         CASE bad -> Unreadable("DECODE_ERROR")
           [] ~bad /\ short -> Unreadable("INCOMPLETE")
           [] OTHER -> IF whole THEN read ELSE Unreadable("DECODE_ERROR")
  BY DEF PopCodepoint, Unreadable
<1> HIDE DEF bad, short, whole, read
<1>2. /\ bad => PopCodepoint(s) = Unreadable("DECODE_ERROR")
      /\ ~bad /\ short => PopCodepoint(s) = Unreadable("INCOMPLETE")
      /\ ~bad /\ ~short =>
             PopCodepoint(s) = IF whole THEN read ELSE Unreadable("DECODE_ERROR")
  BY <1>1
<1> QED BY <1>2 DEF bad, short, whole, read

LEMMA Codepoint ==
    ASSUME NEW s \in Seq(Byte)
    PROVE  /\ PopCodepoint(s).status \in {"OK", "EOF", "INCOMPLETE", "DECODE_ERROR"}
           /\ PopCodepoint(s).c \in Letter
           /\ PopCodepoint(s).status = "OK" =>
                  /\ s # <<>> /\ PopCodepoint(s).width = SequenceLength(s[1])
                  /\ PopCodepoint(s).width \in 1..Len(s)
                  /\ \A i \in 2..PopCodepoint(s).width : s[i] \in Continuation
                  /\ s[1] \notin Continuation \cup {Garbage}
                  /\ PopCodepoint(s).c = Character(SubSeq(s, 1, PopCodepoint(s).width))
<1>1. CASE s = <<>> BY <1>1 DEF PopCodepoint, Letter, Byte
<1>2. CASE s # <<>>
  <2> DEFINE width == SequenceLength(s[1])
             part == SubSeq(s, 1, width)
  <2>1. s[1] \in Byte /\ Len(s) \in Nat /\ Len(s) >= 1
    BY <1>2, EmptySeq, LenProperties, ElementOfSeq
  <2>2. width \in 1..3 BY DEF SequenceLength
  <2>3. Len(s) >= width => part \in Seq(Byte) /\ Len(part) = width
    <3> SUFFICES ASSUME Len(s) >= width PROVE part \in Seq(Byte) /\ Len(part) = width
      OBVIOUS
    <3>1. \A i \in 1..width : s[i] \in Byte BY <2>1, <2>2, ElementOfSeq
    <3> HIDE DEF width
    <3> QED BY <2>2, <3>1, SubSeqProperties
  <2>4. Len(s) >= width => Character(part) \in Letter
    <3> SUFFICES ASSUME Len(s) >= width PROVE Character(part) \in Letter OBVIOUS
    <3>1. part[1] \in Byte BY <2>2, <2>3, ElementOfSeq
    <3> HIDE DEF part
    <3> QED BY <3>1 DEF Character, Letter
  <2> HIDE DEF width, part
  <2>5. s[1] \in Continuation \cup {Garbage} => PopCodepoint(s) = Unreadable("DECODE_ERROR")
    BY <1>2, CodepointCases
  <2>6. CASE \/ s[1] \in Continuation \cup {Garbage} \/ Len(s) < width
             \/ ~\A i \in 2..width : s[i] \in Continuation
    <3>1. \/ PopCodepoint(s) = Unreadable("DECODE_ERROR")
          \/ PopCodepoint(s) = Unreadable("INCOMPLETE")
      BY <1>2, <2>1, <2>2, <2>6, CodepointCases DEF width
    <3> QED BY <3>1 DEF Unreadable, Letter, Byte
  <2>7. CASE ~(\/ s[1] \in Continuation \cup {Garbage} \/ Len(s) < width
               \/ ~\A i \in 2..width : s[i] \in Continuation)
    <3>1. PopCodepoint(s) = [status |-> "OK", c |-> Character(part), width |-> width]
      BY <1>2, <2>1, <2>2, <2>7, CodepointCases DEF width, part
    <3> QED BY <1>2, <2>1, <2>2, <2>4, <2>7, <3>1 DEF width, part
  <2> QED BY <2>6, <2>7
<1> QED BY <1>1, <1>2

\* A character that is all there stays what it is when more is read.
LEMMA CodepointStays ==
    ASSUME NEW s \in Seq(Byte), NEW t \in Seq(Byte), Len(s) <= Len(t),
           \A i \in 1..Len(s) : t[i] = s[i], PopCodepoint(s).status = "OK"
    PROVE  PopCodepoint(t) = PopCodepoint(s)
<1> DEFINE p == PopCodepoint(s)
           width == SequenceLength(s[1])
<1>1. /\ s # <<>> /\ p.width = width /\ width \in 1..Len(s)
      /\ \A i \in 2..width : s[i] \in Continuation
      /\ s[1] \notin Continuation \cup {Garbage}
  BY Codepoint
<1>2. Len(s) \in Nat /\ Len(t) \in Nat BY LenProperties
<1>3. t # <<>> /\ t[1] = s[1] BY <1>1, <1>2, EmptySeq
<1>4. SubSeq(t, 1, width) = SubSeq(s, 1, width)
  <2> HIDE DEF width
  <2>1. \A i \in 1..width : s[i] \in Byte /\ t[i] = s[i] BY <1>1, <1>2, ElementOfSeq
  <2>2. \A i \in 1..width : t[i] \in Byte BY <2>1
  <2>3. width \in Nat /\ 1 \in Nat BY <1>1
  <2> QED BY <1>1, <1>2, <2>1, <2>2, <2>3, SubSeqProperties DEF SubSeq
<1>5. \A i \in 2..width : t[i] \in Continuation BY <1>1, <1>2
<1>6. Len(t) >= width /\ Len(s) >= width BY <1>1, <1>2
<1> DEFINE read == [status |-> "OK", c |-> Character(SubSeq(s, 1, width)), width |-> width]
<1>7. PopCodepoint(t) = read
  <2>1. SequenceLength(t[1]) = width /\ t[1] \notin Continuation \cup {Garbage}
    BY <1>1, <1>3
  <2>2. ~(Len(t) < SequenceLength(t[1])) BY <1>1, <1>2, <1>6, <2>1
  <2> QED BY <1>3, <1>4, <1>5, <2>1, <2>2, CodepointCases
<1>8. PopCodepoint(s) = read
  BY <1>1, <1>2, <1>6, CodepointCases
<1> QED BY <1>7, <1>8

\* No character both ends a word and belongs to it; what may begin a raw string may
\* begin a word.
LEMMA WordCharacters ==
    ASSUME NEW cs
    PROVE  /\ IsWordChar(cs, "r") /\ IsWordChar(cs, "#")
           /\ \A c : IsWordChar(cs, c) => ~IsEndOfWord(cs, c)
BY DEF IsWordChar, IsEndOfWord, Separators, Reserved, Garbage, IsWhitespace, IsNewline,
   IsIllegal

-----------------------------------------------------------------------------
(* Memory. *)

\* Bytes, of memory that lies at b.
BytesOf(memory, b, a, n) ==
    [i \in 1..n |-> IF a + i - 1 - b + 1 \in DOMAIN memory THEN memory[a + i - b] ELSE Garbage]

LEMMA BytesAre ==
    ASSUME NEW memory \in Seq(Byte), NEW b \in Nat, NEW a \in Nat, NEW n \in Nat
    PROVE  /\ BytesOf(memory, b, a, n) \in Seq(Byte) /\ Len(BytesOf(memory, b, a, n)) = n
           /\ b <= a /\ a + n <= b + Len(memory) =>
                  \A i \in 1..n : BytesOf(memory, b, a, n)[i] = memory[a + i - b]
<1> DEFINE bytes == BytesOf(memory, b, a, n)
           byte(i) == IF a + i - 1 - b + 1 \in DOMAIN memory THEN memory[a + i - b]
                      ELSE Garbage
<1>1. DOMAIN memory = 1..Len(memory) /\ Len(memory) \in Nat BY LenProperties
<1>2. ASSUME NEW i \in 1..n PROVE byte(i) \in Byte
  <2>1. a + i - 1 - b + 1 = a + i - b OBVIOUS
  <2>2. a + i - b \in 1..Len(memory) => memory[a + i - b] \in Byte BY ElementOfSeq
  <2> QED BY <1>1, <2>1, <2>2 DEF Byte
<1>3. b <= a /\ a + n <= b + Len(memory) => \A i \in 1..n : byte(i) = memory[a + i - b]
  BY <1>1
<1>4. bytes = [i \in 1..n |-> byte(i)] BY DEF BytesOf
<1> HIDE DEF byte, bytes
<1>5. bytes \in [1..n -> Byte] BY <1>2, <1>4
<1>6. bytes \in Seq(Byte) BY <1>5, SeqDef
<1>7. Len(bytes) = n BY <1>4, <1>6, LenProperties
<1> QED BY <1>3, <1>4, <1>6, <1>7 DEF bytes

LEMMA UnreadIs ==
    ASSUME MemoryIInv
    PROVE  /\ Unread \in Seq(Byte) /\ Len(Unread) = doc.len
           /\ \A i \in 1..doc.len : Unread[i] = mem[doc.data + i - base]
<1>1. /\ mem \in Seq(Byte) /\ base \in Nat /\ doc.data \in Nat /\ doc.len \in Nat
      /\ base <= doc.data /\ doc.data + doc.len <= base + Len(mem)
  BY DEF MemoryIInv
<1>2. Unread = BytesOf(mem, base, doc.data, doc.len) BY DEF Unread, Bytes, BytesOf
<1> QED BY ZenonT(60), <1>1, <1>2, BytesAre

LEMMA UnreadIsNext ==
    ASSUME MemoryIInv'
    PROVE  /\ Unread' \in Seq(Byte) /\ Len(Unread') = doc'.len
           /\ \A i \in 1..doc'.len : Unread'[i] = mem'[doc'.data + i - base']
<1>1. /\ mem' \in Seq(Byte) /\ base' \in Nat /\ doc'.data \in Nat /\ doc'.len \in Nat
      /\ base' <= doc'.data /\ doc'.data + doc'.len <= base' + Len(mem')
  BY DEF MemoryIInv
<1>2. Unread' = BytesOf(mem', base', doc'.data, doc'.len) BY DEF Unread, Bytes, BytesOf
<1> QED BY ZenonT(60), <1>1, <1>2, BytesAre

LEMMA BlankIs == ASSUME NEW n \in Nat PROVE Blank(n) \in Seq(Byte) /\ Len(Blank(n)) = n
<1>1. Blank(n) \in [1..n -> Byte] BY DEF Blank, Byte
<1>2. Blank(n) \in Seq(Byte) BY <1>1, SeqDef
<1> QED BY <1>2, LenProperties DEF Blank

\* What a loop sees.
LEMMA HereIs ==
    ASSUME MemoryIInv, NEW loop, RunsWith(loop, l)
    PROVE  /\ Here.status \in {"OK", "EOF", "INCOMPLETE", "DECODE_ERROR"}
           /\ Here.c \in Letter
           /\ Here.status = "OK" => /\ next \in Nat /\ l.cur < next
                                    /\ next <= doc.data + doc.len
                                    /\ Here.width \in Nat /\ next = l.cur + Here.width
           /\ l.cur = doc.data => Here = PopCodepoint(Unread)
<1>1. /\ doc.data \in Nat /\ doc.len \in Nat /\ l.cur \in Nat
      /\ doc.data <= l.cur /\ l.cur <= doc.data + doc.len
  BY DEF MemoryIInv, RunsWith, LocalVariables
<1> DEFINE left == doc.len - (l.cur - doc.data)
           s == Bytes(l.cur, left)
<1>2. left \in Nat /\ l.cur + left = doc.data + doc.len BY <1>1
<1>3. s \in Seq(Byte) /\ Len(s) = left
  <2>1. s = BytesOf(mem, base, l.cur, left) BY DEF Bytes, BytesOf
  <2> HIDE DEF s, left
  <2> QED BY ZenonT(60), <1>1, <1>2, <2>1, BytesAre DEF MemoryIInv
<1>4. Here = PopCodepoint(s) BY DEF Here
<1>5. l.cur = doc.data => s = Unread
  <2>1. l.cur = doc.data => left = doc.len BY <1>1
  <2> QED BY <2>1 DEF Unread
<1> HIDE DEF s, left
<1>6. /\ PopCodepoint(s).status \in {"OK", "EOF", "INCOMPLETE", "DECODE_ERROR"}
      /\ PopCodepoint(s).c \in Letter
      /\ PopCodepoint(s).status = "OK" => PopCodepoint(s).width \in 1..Len(s)
  BY <1>3, Codepoint
<1>7. Here.status = "OK" => Here.width \in 1..left BY <1>3, <1>4, <1>6
<1> QED BY SMTT(60), <1>1, <1>2, <1>4, <1>5, <1>6, <1>7 DEF next

-----------------------------------------------------------------------------
(* Sequences of bytes. *)

\* What is left of u once k of it have been taken.
LEMMA Suffix ==
    ASSUME NEW u \in Seq(Byte), NEW v \in Seq(Byte), NEW f \in Seq(Byte), NEW k \in Nat,
           Len(v) = Len(u) - k, \A i \in 1..Len(v) : v[i] = u[k + i]
    PROVE  /\ Len(v \o f) = Len(u \o f) - k
           /\ v \o f = SubSeq(u \o f, k + 1, Len(u \o f))
<1> DEFINE U == u \o f
           V == v \o f
           S == SubSeq(U, k + 1, Len(U))
<1>1. Len(u) \in Nat /\ Len(v) \in Nat /\ Len(f) \in Nat BY LenProperties
<1>2. /\ U \in Seq(Byte) /\ Len(U) = Len(u) + Len(f)
      /\ \A i \in 1..Len(u) + Len(f) : U[i] = IF i <= Len(u) THEN u[i] ELSE f[i - Len(u)]
  BY ConcatProperties
<1>3. /\ V \in Seq(Byte) /\ Len(V) = Len(v) + Len(f)
      /\ \A i \in 1..Len(v) + Len(f) : V[i] = IF i <= Len(v) THEN v[i] ELSE f[i - Len(v)]
  BY ConcatProperties
<1> HIDE DEF U, V
<1>4. \A i \in k + 1..Len(U) : U[i] \in Byte BY <1>1, <1>2, ElementOfSeq
<1>5. /\ S \in Seq(Byte)
      /\ Len(S) = IF k + 1 <= Len(U) THEN Len(U) - (k + 1) + 1 ELSE 0
      /\ \A i \in 1..Len(U) - (k + 1) + 1 : S[i] = U[k + 1 + i - 1]
  BY <1>1, <1>2, <1>4, SubSeqProperties
<1> HIDE DEF S
<1>6. Len(S) = Len(V) BY <1>1, <1>2, <1>3, <1>5
<1>7. ASSUME NEW i \in 1..Len(V) PROVE V[i] = S[i]
  <2>1. S[i] = U[k + i] /\ k + i \in 1..Len(u) + Len(f) BY <1>1, <1>2, <1>3, <1>5
  <2>2. CASE i <= Len(v)
    <3>1. V[i] = v[i] BY <1>1, <1>3, <2>2
    <3>2. U[k + i] = u[k + i] BY <1>1, <1>2, <2>1, <2>2
    <3> QED BY <1>1, <2>1, <2>2, <3>1, <3>2
  <2>3. CASE i > Len(v)
    <3>1. V[i] = f[i - Len(v)]
      <4>1. i \in 1..Len(v) + Len(f) /\ ~(i <= Len(v)) BY <1>1, <1>3, <2>3
      <4> QED BY <1>3, <4>1
    <3>2. U[k + i] = f[k + i - Len(u)] BY <1>1, <1>2, <2>1, <2>3
    <3>3. k + i - Len(u) = i - Len(v) BY <1>1
    <3> QED BY <2>1, <3>1, <3>2, <3>3
  <2> QED BY <1>1, <1>3, <2>2, <2>3
<1>8. V = S BY <1>3, <1>5, <1>6, <1>7, SeqEqual
<1> QED BY <1>1, <1>2, <1>3, <1>8 DEF U, V, S

\* n bytes of the file come behind what is unread.
LEMMA Added ==
    ASSUME NEW u \in Seq(Byte), NEW v \in Seq(Byte), NEW f \in Seq(Byte), NEW n \in Nat,
           n <= Len(f), Len(v) = Len(u) + n, \A i \in 1..Len(u) : v[i] = u[i],
           \A i \in 1..n : v[Len(u) + i] = f[i]
    PROVE  /\ SubSeq(f, n + 1, Len(f)) \in Seq(Byte)
           /\ v \o SubSeq(f, n + 1, Len(f)) = u \o f
<1> DEFINE g == SubSeq(f, n + 1, Len(f))
           U == u \o f
           V == v \o g
<1>1. Len(u) \in Nat /\ Len(v) \in Nat /\ Len(f) \in Nat BY LenProperties
<1>2. \A i \in n + 1..Len(f) : f[i] \in Byte BY <1>1, ElementOfSeq
<1>3. /\ g \in Seq(Byte) /\ Len(g) = Len(f) - n
      /\ \A i \in 1..Len(f) - n : g[i] = f[n + i]
  <2>1. /\ g \in Seq(Byte)
        /\ Len(g) = IF n + 1 <= Len(f) THEN Len(f) - (n + 1) + 1 ELSE 0
        /\ \A i \in 1..Len(f) - (n + 1) + 1 : g[i] = f[n + 1 + i - 1]
    BY <1>1, <1>2, SubSeqProperties
  <2> HIDE DEF g
  <2> QED BY <1>1, <2>1
<1> HIDE DEF g
<1>4. /\ U \in Seq(Byte) /\ Len(U) = Len(u) + Len(f)
      /\ \A i \in 1..Len(u) + Len(f) : U[i] = IF i <= Len(u) THEN u[i] ELSE f[i - Len(u)]
  BY ConcatProperties
<1>5. /\ V \in Seq(Byte) /\ Len(V) = Len(v) + Len(g)
      /\ \A i \in 1..Len(v) + Len(g) : V[i] = IF i <= Len(v) THEN v[i] ELSE g[i - Len(v)]
  BY <1>3, ConcatProperties
<1> HIDE DEF U, V
<1>6. Len(U) = Len(V) BY <1>1, <1>3, <1>4, <1>5
<1>7. ASSUME NEW i \in 1..Len(U) PROVE U[i] = V[i]
  <2>1. i \in 1..Len(u) + Len(f) /\ i \in 1..Len(v) + Len(g) BY <1>1, <1>4, <1>5, <1>6
  <2>2. CASE i <= Len(u)
    <3>1. U[i] = u[i] /\ V[i] = v[i] BY <1>1, <1>4, <1>5, <2>1, <2>2
    <3> QED BY <1>1, <2>2, <3>1
  <2>3. CASE i > Len(u) /\ i <= Len(v)
    <3>1. U[i] = f[i - Len(u)] /\ V[i] = v[i] BY <1>1, <1>4, <1>5, <2>1, <2>3
    <3>2. i - Len(u) \in 1..n /\ Len(u) + (i - Len(u)) = i BY <1>1, <2>3
    <3> QED BY <3>1, <3>2
  <2>4. CASE i > Len(v)
    <3>1. U[i] = f[i - Len(u)] /\ V[i] = g[i - Len(v)] BY <1>1, <1>4, <1>5, <2>1, <2>4
    <3>2. i - Len(v) \in 1..Len(f) - n /\ n + (i - Len(v)) = i - Len(u)
      BY <1>1, <1>3, <2>1, <2>4
    <3> QED BY <1>3, <3>1, <3>2
  <2> QED BY <1>1, <2>2, <2>3, <2>4
<1>8. U = V BY <1>4, <1>5, <1>6, <1>7, SeqEqual
<1> QED BY <1>3, <1>8 DEF U, V, g

-----------------------------------------------------------------------------
(* A refill. *)

\* The document is at address a, n bytes longer, and cur has been moved along.
Refilled(a, n) ==
    /\ UNCHANGED <<charset, at, token>>
    /\ MemoryIInv'
    /\ doc' = [data |-> a, len |-> doc.len + n]
    /\ \E dry \in BOOLEAN : l' = [l EXCEPT !.cur = a + (l.cur - doc.data), !.dry = dry]
    /\ \A i \in 1..doc.len : Unread'[i] = Unread[i]
    /\ Unread' \o file' = Unread \o file

LEMMA MovedUpIs ==
    ASSUME MemoryIInv, stream
    PROVE  /\ MovedUp \in Seq(Byte) /\ Len(MovedUp) \in Nat /\ doc.len <= Len(MovedUp)
           /\ \A i \in 1..doc.len : MovedUp[i] = Unread[i]
<1>1. doc.len \in Nat /\ doc.data \in Nat /\ base \in Nat /\ Len(mem) \in Nat
  BY LenProperties DEF MemoryIInv
<1>2. CASE allocated
  <2>1. Unread \in Seq(Byte) /\ Len(Unread) = doc.len BY UnreadIs
  <2>2. Len(mem) - doc.len \in Nat BY <1>1 DEF MemoryIInv
  <2>3. /\ Blank(Len(mem) - doc.len) \in Seq(Byte)
        /\ Len(Blank(Len(mem) - doc.len)) = Len(mem) - doc.len
    BY <2>2, BlankIs
  <2>4. MovedUp = Unread \o Blank(Len(mem) - doc.len) BY <1>2 DEF MovedUp
  <2> QED BY <1>1, <2>1, <2>2, <2>3, <2>4, ConcatProperties
<1>3. CASE ~allocated
  <2>1. mem = <<>> BY <1>3 DEF MemoryIInv
  <2>2. doc.len = 0 BY <1>1, <2>1, EmptySeq DEF MemoryIInv
  <2>3. MovedUp = Blank(Increment) BY <1>3 DEF MovedUp
  <2>4. Increment \in Nat BY IncrementAssumption
  <2> QED BY <2>2, <2>3, <2>4, BlankIs
<1> QED BY <1>2, <1>3

LEMMA FromString ==
    ASSUME MemoryIInv, l \in LocalVariables, RefillFromString PROVE Refilled(doc.data, 0)
<1>1. /\ l' = [l EXCEPT !.dry = TRUE] /\ UNCHANGED <<bufferVars, charset, at, token>>
  BY DEF RefillFromString
<1>2. MemoryIInv' BY <1>1 DEF MemoryIInv, bufferVars
<1>3. Unread' = Unread /\ file' = file BY <1>1 DEF Unread, Bytes, bufferVars
<1>4. doc' = [data |-> doc.data, len |-> doc.len + 0] BY <1>1 DEF bufferVars, MemoryIInv
<1>5. l' = [l EXCEPT !.cur = doc.data + (l.cur - doc.data), !.dry = TRUE]
  <2>1. doc.data + (l.cur - doc.data) = l.cur BY DEF MemoryIInv, LocalVariables
  <2> QED BY <1>1, <2>1 DEF LocalVariables
<1> QED BY <1>1, <1>2, <1>3, <1>4, <1>5 DEF Refilled

LEMMA Failed ==
    ASSUME MemoryIInv, l \in LocalVariables, RefillFails
    PROVE  \E a \in Nat : Refilled(a, 0)
<1>1. UNCHANGED <<file, stream, allocated, base, charset, at, token>> /\ stream
  BY DEF RefillFails
<1>2. CASE allocated
  <2>1. mem' = MovedUp /\ Repoint(base, 0) BY <1>2 DEF RefillFails
  <2>2. /\ MovedUp \in Seq(Byte) /\ Len(MovedUp) \in Nat /\ doc.len <= Len(MovedUp)
        /\ \A i \in 1..doc.len : MovedUp[i] = Unread[i]
    BY <1>1, MovedUpIs
  <2>3. doc' = [data |-> base, len |-> doc.len + 0] BY <2>1 DEF Repoint
  <2>4. doc'.data = base /\ doc'.len = doc.len BY <2>3 DEF MemoryIInv
  <2>5. MemoryIInv' BY <1>1, <1>2, <2>1, <2>2, <2>3, <2>4 DEF MemoryIInv
  <2>6. Unread' \in Seq(Byte) /\ Len(Unread') = doc.len
        /\ \A i \in 1..doc.len : Unread'[i] = mem'[base + i - base]
    BY <1>1, <2>4, <2>5, UnreadIsNext
  <2>7. \A i \in 1..doc.len : Unread'[i] = Unread[i]
    <3>1. ASSUME NEW i \in 1..doc.len PROVE base + i - base = i BY DEF MemoryIInv
    <3> QED BY <2>1, <2>2, <2>6, <3>1
  <2>8. Unread' = Unread BY <2>6, <2>7, UnreadIs, SeqEqual
  <2>9. l' = [l EXCEPT !.cur = base + (l.cur - doc.data), !.dry = (0 = 0)]
    BY <2>1 DEF Repoint
  <2> QED BY <1>1, <2>3, <2>5, <2>7, <2>8, <2>9 DEF Refilled, MemoryIInv
<1>3. CASE ~allocated
  <2>1. l' = [l EXCEPT !.dry = TRUE] /\ UNCHANGED <<mem, doc>> BY <1>3 DEF RefillFails
  <2>2. MemoryIInv' BY <1>1, <2>1 DEF MemoryIInv
  <2>3. Unread' = Unread BY <1>1, <2>1 DEF Unread, Bytes
  <2>4. doc' = [data |-> doc.data, len |-> doc.len + 0] /\ doc.data \in Nat
    BY <2>1 DEF MemoryIInv
  <2>5. l' = [l EXCEPT !.cur = doc.data + (l.cur - doc.data), !.dry = TRUE]
    <3>1. doc.data + (l.cur - doc.data) = l.cur BY DEF MemoryIInv, LocalVariables
    <3> QED BY <2>1, <3>1 DEF LocalVariables
  <2> QED BY <1>1, <2>2, <2>3, <2>4, <2>5 DEF Refilled
<1> QED BY <1>2, <1>3

\* The buffer with k bytes of f behind the first j of room.
Filled(room, f, j, k) ==
    SubSeq(room, 1, j) \o SubSeq(f, 1, k) \o SubSeq(room, j + k + 1, Len(room))

LEMMA FilledIs ==
    ASSUME NEW room \in Seq(Byte), NEW f \in Seq(Byte), NEW j \in Nat, NEW k \in Nat,
           j + k <= Len(room), k <= Len(f)
    PROVE  /\ Filled(room, f, j, k) \in Seq(Byte) /\ Len(Filled(room, f, j, k)) = Len(room)
           /\ \A i \in 1..j : Filled(room, f, j, k)[i] = room[i]
           /\ \A i \in 1..k : Filled(room, f, j, k)[j + i] = f[i]
<1> DEFINE filled == Filled(room, f, j, k)
           top == SubSeq(room, 1, j)
           new == SubSeq(f, 1, k)
           rest == SubSeq(room, j + k + 1, Len(room))
           both == top \o new
<1>1. Len(room) \in Nat /\ Len(f) \in Nat BY LenProperties
<1>2. /\ \A i \in 1..j : room[i] \in Byte
      /\ \A i \in j + k + 1..Len(room) : room[i] \in Byte
      /\ \A i \in 1..k : f[i] \in Byte
  BY <1>1, ElementOfSeq
<1>3. top \in Seq(Byte) /\ Len(top) = j /\ \A i \in 1..j : top[i] = room[i]
  <2>1. /\ top \in Seq(Byte) /\ Len(top) = IF 1 <= j THEN j - 1 + 1 ELSE 0
        /\ \A i \in 1..j - 1 + 1 : top[i] = room[1 + i - 1]
    BY <1>2, SubSeqProperties
  <2> HIDE DEF top
  <2> QED BY <2>1
<1>4. new \in Seq(Byte) /\ Len(new) = k /\ \A i \in 1..k : new[i] = f[i]
  <2>1. /\ new \in Seq(Byte) /\ Len(new) = IF 1 <= k THEN k - 1 + 1 ELSE 0
        /\ \A i \in 1..k - 1 + 1 : new[i] = f[1 + i - 1]
    BY <1>2, SubSeqProperties
  <2> HIDE DEF new
  <2> QED BY <2>1
<1>5. rest \in Seq(Byte) /\ Len(rest) = Len(room) - j - k
  <2>1. /\ rest \in Seq(Byte)
        /\ Len(rest) = IF j + k + 1 <= Len(room) THEN Len(room) - (j + k + 1) + 1 ELSE 0
    BY <1>1, <1>2, SubSeqProperties
  <2> HIDE DEF rest
  <2> QED BY <1>1, <2>1
<1> HIDE DEF top, new, rest
<1>6. /\ both \in Seq(Byte) /\ Len(both) = j + k
      /\ \A i \in 1..j + k : both[i] = IF i <= j THEN top[i] ELSE new[i - j]
  BY ZenonT(60), <1>3, <1>4, ConcatProperties
<1> HIDE DEF both
<1>7. /\ both \o rest \in Seq(Byte) /\ Len(both \o rest) = j + k + Len(rest)
      /\ \A i \in 1..j + k + Len(rest) :
             (both \o rest)[i] = IF i <= j + k THEN both[i] ELSE rest[i - (j + k)]
  <2>1. /\ both \o rest \in Seq(Byte) /\ Len(both \o rest) = Len(both) + Len(rest)
        /\ \A i \in 1..Len(both) + Len(rest) :
               (both \o rest)[i] = IF i <= Len(both) THEN both[i] ELSE rest[i - Len(both)]
    BY <1>5, <1>6, ConcatProperties
  <2> QED BY <1>6, <2>1
<1>8. filled = both \o rest BY DEF Filled, both, top, new, rest
<1> HIDE DEF filled
<1>9. \A i \in 1..j + k : filled[i] = IF i <= j THEN room[i] ELSE f[i - j]
  <2> TAKE i \in 1..j + k
  <2>1. i \in 1..j + k + Len(rest) BY <1>1, <1>5
  <2>2. (both \o rest)[i] = both[i] BY <1>7, <2>1
  <2>3. both[i] = IF i <= j THEN top[i] ELSE new[i - j] BY <1>6
  <2>4. i <= j => top[i] = room[i] BY <1>3
  <2>5. ~(i <= j) => new[i - j] = f[i - j]
    <3>1. ~(i <= j) => i - j \in 1..k OBVIOUS
    <3> QED BY <1>4, <3>1
  <2> QED BY <1>8, <2>2, <2>3, <2>4, <2>5
<1>10. \A i \in 1..k : filled[j + i] = f[i]
  <2> SUFFICES ASSUME NEW i \in 1..k PROVE filled[j + i] = f[i] OBVIOUS
  <2>1. j + i \in 1..j + k /\ ~(j + i <= j) /\ j + i - j = i OBVIOUS
  <2>2. filled[j + i] = f[j + i - j] BY <1>9, <2>1
  <2> QED BY <2>1, <2>2
<1>11. \A i \in 1..j : filled[i] = room[i]
  <2> SUFFICES ASSUME NEW i \in 1..j PROVE filled[i] = room[i] OBVIOUS
  <2>1. i \in 1..j + k /\ i <= j OBVIOUS
  <2>2. filled[i] = IF i <= j THEN room[i] ELSE f[i - j] BY <1>9, <2>1
  <2> QED BY <2>1, <2>2
<1>12. filled \in Seq(Byte) /\ Len(filled) = Len(room)
  <2>1. j + k + Len(rest) = Len(room) BY <1>1, <1>5
  <2> QED BY <1>7, <1>8, <2>1
<1> QED BY <1>10, <1>11, <1>12 DEF filled

LEMMA FromFile ==
    ASSUME MemoryIInv, l \in LocalVariables, RefillFromFile
    PROVE  \E a \in Nat, n \in Nat : Refilled(a, n)
<1> DEFINE room == IF NeedsRoom THEN MovedUp \o Blank(Increment) ELSE MovedUp
           top == IF NeedsRoom THEN Elsewhere(base) ELSE base
           most == IF Len(file) < Len(room) - doc.len THEN Len(file) ELSE Len(room) - doc.len
<1>1. UNCHANGED <<stream, charset, at, token, failures>> /\ stream BY SMTT(60) DEF RefillFromFile
<1>2. PICK n \in (IF file = <<>> THEN {0} ELSE 1..most) :
          /\ mem' = Filled(room, file, doc.len, n)
          /\ file' = SubSeq(file, n + 1, Len(file))
          /\ base' = top /\ allocated' = TRUE
          /\ Repoint(top, n)
  BY DEF RefillFromFile, Filled
<1>3. /\ MovedUp \in Seq(Byte) /\ Len(MovedUp) \in Nat /\ doc.len <= Len(MovedUp)
      /\ \A i \in 1..doc.len : MovedUp[i] = Unread[i]
  BY <1>1, MovedUpIs
<1>4. /\ room \in Seq(Byte) /\ Len(room) \in Nat /\ doc.len <= Len(room)
      /\ \A i \in 1..doc.len : room[i] = Unread[i]
  <2>1. Increment \in Nat BY IncrementAssumption
  <2>2. Blank(Increment) \in Seq(Byte) /\ Len(Blank(Increment)) = Increment BY <2>1, BlankIs
  <2>3. /\ MovedUp \o Blank(Increment) \in Seq(Byte)
        /\ Len(MovedUp \o Blank(Increment)) = Len(MovedUp) + Increment
        /\ \A i \in 1..Len(MovedUp) + Increment : (MovedUp \o Blank(Increment))[i] =
               IF i <= Len(MovedUp) THEN MovedUp[i] ELSE Blank(Increment)[i - Len(MovedUp)]
    <3> DEFINE blank == Blank(Increment)
    <3> HIDE DEF blank
    <3>1. /\ MovedUp \o blank \in Seq(Byte)
          /\ Len(MovedUp \o blank) = Len(MovedUp) + Len(blank)
          /\ \A i \in 1..Len(MovedUp) + Len(blank) : (MovedUp \o blank)[i] =
                 IF i <= Len(MovedUp) THEN MovedUp[i] ELSE blank[i - Len(MovedUp)]
      BY <1>3, <2>2, ConcatProperties DEF blank
    <3> QED BY <2>2, <3>1 DEF blank
  <2>4. \A i \in 1..doc.len : (MovedUp \o Blank(Increment))[i] = Unread[i]
    <3> TAKE i \in 1..doc.len
    <3>1. i \in 1..Len(MovedUp) + Increment /\ i <= Len(MovedUp)
      BY <1>3, <2>1 DEF MemoryIInv
    <3> QED BY <1>3, <2>3, <3>1
  <2> QED BY SMTT(60), <1>3, <2>1, <2>3, <2>4 DEF MemoryIInv
<1>5. top \in Nat BY DEF Elsewhere, MemoryIInv
<1>6. file \in Seq(Byte) /\ Len(file) \in Nat /\ doc.len \in Nat /\ doc.data \in Nat
  BY LenProperties DEF MemoryIInv
<1> HIDE DEF room, top
<1>7. n \in Nat /\ n <= Len(file) /\ doc.len + n <= Len(room) BY <1>2, <1>4, <1>6, EmptySeq
<1>8. /\ mem' \in Seq(Byte) /\ Len(mem') = Len(room)
      /\ \A i \in 1..doc.len : mem'[i] = room[i]
      /\ \A i \in 1..n : mem'[doc.len + i] = file[i]
  <2> DEFINE filled == Filled(room, file, doc.len, n)
  <2>1. /\ filled \in Seq(Byte) /\ Len(filled) = Len(room)
        /\ \A i \in 1..doc.len : filled[i] = room[i]
        /\ \A i \in 1..n : filled[doc.len + i] = file[i]
    BY <1>4, <1>6, <1>7, FilledIs
  <2>2. mem' = filled BY <1>2
  <2> HIDE DEF filled
  <2> QED BY <2>1, <2>2
<1>9. doc' = [data |-> top, len |-> doc.len + n] BY <1>2 DEF Repoint
<1>10. file' \in Seq(Byte)
  <2>1. \A i \in n + 1..Len(file) : file[i] \in Byte BY <1>6, <1>7, ElementOfSeq
  <2> QED BY <1>2, <1>6, <1>7, <2>1, SubSeqProperties
<1>11. MemoryIInv'
  BY SMTT(60), <1>1, <1>2, <1>5, <1>6, <1>7, <1>8, <1>9, <1>10 DEF MemoryIInv
<1>12. /\ Unread' \in Seq(Byte) /\ Len(Unread') = doc.len + n
       /\ \A i \in 1..doc.len + n : Unread'[i] = mem'[top + i - top]
  BY <1>2, <1>9, <1>11, UnreadIsNext
<1>13. \A i \in 1..doc.len + n : Unread'[i] = mem'[i]
  <2>1. \A i \in 1..doc.len + n : top + i - top = i BY <1>5, <1>6, <1>7
  <2> QED BY <1>12, <2>1
<1>14. Unread \in Seq(Byte) /\ Len(Unread) = doc.len BY UnreadIs
<1>15. \A i \in 1..doc.len : Unread'[i] = Unread[i]
  <2> TAKE i \in 1..doc.len
  <2>1. i \in 1..doc.len + n BY <1>6, <1>7
  <2> QED BY <1>4, <1>8, <1>13, <2>1
<1>16. \A i \in 1..n : Unread'[doc.len + i] = file[i]
  <2> TAKE i \in 1..n
  <2>1. doc.len + i \in 1..doc.len + n BY <1>6, <1>7
  <2>2. Unread'[doc.len + i] = mem'[doc.len + i] BY <1>13, <2>1
  <2> QED BY <1>8, <2>2
<1>17. Unread' \o file' = Unread \o file
  <2> DEFINE v == Unread'
  <2>1. v \in Seq(Byte) /\ Len(v) = Len(Unread) + n BY <1>12, <1>14
  <2>2. \A i \in 1..Len(Unread) : v[i] = Unread[i] BY <1>14, <1>15
  <2>3. \A i \in 1..n : v[Len(Unread) + i] = file[i] BY <1>14, <1>16
  <2> HIDE DEF v
  <2>4. v \o SubSeq(file, n + 1, Len(file)) = Unread \o file
    <3>1. Unread \in Seq(Byte) /\ file \in Seq(Byte) /\ n \in Nat /\ n <= Len(file)
      BY <1>6, <1>7, <1>14
    <3> QED BY ZenonT(60), <2>1, <2>2, <2>3, <3>1, Added
  <2> QED BY <1>2, <2>4 DEF v
<1>18. l' = [l EXCEPT !.cur = top + (l.cur - doc.data), !.dry = (n = 0)]
  BY <1>2 DEF Repoint
<1> QED BY <1>1, <1>5, <1>7, <1>9, <1>11, <1>15, <1>17, <1>18 DEF Refilled

LEMMA RefillStep ==
    ASSUME MemoryIInv, l \in LocalVariables, Refill
    PROVE  \E a \in Nat, n \in Nat : Refilled(a, n)
<1>1. doc.data \in Nat /\ 0 \in Nat BY DEF MemoryIInv
<1> QED BY <1>1, FromString, FromFile, Failed DEF Refill

\* Everything a loop relies on has moved with the document.
LEMMA RefillKeeps ==
    ASSUME TokenizerIInv, at # "idle", NEW a \in Nat, NEW n \in Nat, Refilled(a, n)
    PROVE  TokenizerIInv'
<1> USE DEF Refilled
<1>1. RunsWith(at, l) /\ token.status = "NONE" BY DEF TokenizerIInv, CallIInv
<1>2. PICK dry \in BOOLEAN : l' = [l EXCEPT !.cur = a + (l.cur - doc.data), !.dry = dry]
  OBVIOUS
<1>3. doc.data \in Nat /\ doc.len \in Nat /\ l \in LocalVariables /\ doc.data <= l.cur
  BY <1>1 DEF TokenizerIInv, MemoryIInv, RunsWith
<1>4. /\ l' \in LocalVariables /\ l'.cur = a + (l.cur - doc.data) /\ l'.raw = l.raw
      /\ l'.quotes = l.quotes /\ l'.start = l.start /\ l'.end = l.end
      /\ l'.quotes_found = l.quotes_found
  <2>1. a + (l.cur - doc.data) \in Nat BY SMTT(60), <1>3 DEF LocalVariables
  <2> QED BY <1>2, <1>3, <2>1 DEF LocalVariables
<1>5. doc'.data = a /\ doc'.len = doc.len + n BY <1>3
<1>6. StartsWord => StartsWord'
  <2> SUFFICES ASSUME StartsWord PROVE StartsWord' OBVIOUS
  <2>1. Unread \in Seq(Byte) /\ Len(Unread) = doc.len BY UnreadIs DEF TokenizerIInv
  <2>2. Unread' \in Seq(Byte) /\ Len(Unread') = doc.len + n BY <1>5, UnreadIsNext
  <2>3. PopCodepoint(Unread') = PopCodepoint(Unread)
    BY <1>3, <2>1, <2>2, CodepointStays DEF StartsWord
  <2> QED BY <2>3 DEF StartsWord
<1>7. RunsWith(at, l)'
  <2>1. /\ l.cur \in Nat /\ l.quotes \in Nat /\ l.start \in Nat /\ l.end \in Nat
        /\ l.quotes_found \in Nat
    BY <1>3 DEF LocalVariables
  <2> DEFINE new == l'
             d == doc'
  <2>2. /\ new \in LocalVariables /\ new.cur = a + (l.cur - doc.data)
        /\ new.raw = l.raw /\ new.quotes = l.quotes /\ new.start = l.start
        /\ new.end = l.end /\ new.quotes_found = l.quotes_found
        /\ d.data = a /\ d.len = doc.len + n
    BY <1>4, <1>5
  <2> HIDE DEF new, d
  <2>3. d.data <= new.cur /\ new.cur <= d.data + d.len
    BY SMTT(60), <1>1, <1>3, <2>1, <2>2 DEF RunsWith
  <2>4. /\ at = "token" => new.cur = d.data
        /\ at \in {"whitespace", "cr", "slash", "line", "block"} => new.cur > d.data
        /\ at \in {"hashes", "quotes"} =>
               new.cur >= d.data + new.quotes /\ new.end = 0 /\ new.quotes_found = 0
    BY SMTT(60), <1>1, <1>3, <2>1, <2>2 DEF RunsWith
  <2>5. at = "string" =>
           /\ d.data + new.start <= new.cur /\ d.data + new.end <= new.cur
           /\ new.end # 0 \/ new.quotes_found # 0 => new.start <= new.end
    <3>1. at = "string" =>
             /\ doc.data + l.start <= l.cur /\ doc.data + l.end <= l.cur
             /\ l.end # 0 \/ l.quotes_found # 0 => l.start <= l.end
      BY <1>1 DEF RunsWith
    <3> QED BY SMTT(60), <1>3, <2>1, <2>2, <3>1
  <2>6. at = "word" \/ new.raw => StartsWord' BY <1>1, <1>6, <2>2 DEF RunsWith
  <2> QED BY <1>1, <2>2, <2>3, <2>4, <2>5, <2>6 DEF RunsWith, new, d
<1> QED BY <1>1, <1>7 DEF TokenizerIInv, CallIInv

-----------------------------------------------------------------------------
(* A turn of a loop. *)

\* It goes on, returns a token, returns without one, or has skipped a byte-order mark.
Goes == \E loop, locals : RunsWith(loop, locals) /\ Continue(loop, locals)

Gives ==
    /\ at # "bom"
    /\ \E type : \E from \in Nat, len \in Nat, to \in Nat :
           /\ base <= from /\ from + len <= to
           /\ doc.data < to /\ to <= doc.data + doc.len
           /\ ReturnToken(type, from, len, to)

Stops ==
    \E status \in {"READY", "EOF", "ERROR"} : Return([status |-> status]) /\ UNCHANGED doc

Skips ==
    /\ at = "bom" /\ Return([status |-> "READY"])
    /\ \E to \in Nat : doc.data < to /\ to <= doc.data + doc.len /\ Advance(to)

Ends == Goes \/ Gives \/ Stops \/ Skips

LEMMA GivesToken ==
    ASSUME NEW type, NEW from \in Nat, NEW len \in Nat, NEW to \in Nat,
           base <= from, from + len <= to, doc.data < to, to <= doc.data + doc.len,
           at # "bom", ReturnToken(type, from, len, to)
    PROVE  Gives
BY DEF Gives

LEMMA FailStops == ASSUME Fail PROVE Stops
BY DEF Fail, Stops

LEMMA LocalsAre ==
    ASSUME NEW cur \in Nat
    PROVE  /\ Locals(cur) \in LocalVariables /\ Locals(cur).cur = cur
           /\ Locals(cur).raw = FALSE /\ Locals(cur).quotes = 0
           /\ Locals(cur).end = 0 /\ Locals(cur).quotes_found = 0
BY DEF Locals, LocalVariables, Letter

\* What is known of the state while a loop runs.
LEMMA Running ==
    ASSUME TokenizerIInv, at # "idle"
    PROVE  /\ RunsWith(at, l) /\ token.status = "NONE"
           /\ l \in LocalVariables /\ base \in Nat /\ doc.data \in Nat /\ doc.len \in Nat
           /\ l.cur \in Nat /\ base <= doc.data /\ doc.data <= l.cur
           /\ l.cur <= doc.data + doc.len
           /\ Here.c \in Letter
           /\ Here.status \in {"OK", "EOF", "INCOMPLETE", "DECODE_ERROR"}
           /\ Here.status = "OK" =>
                  /\ next \in Nat /\ l.cur < next /\ next <= doc.data + doc.len
                  /\ Here.width \in Nat /\ next = l.cur + Here.width
           /\ l.cur = doc.data => Here = PopCodepoint(Unread)
<1>1. MemoryIInv /\ RunsWith(at, l) /\ token.status = "NONE"
  BY DEF TokenizerIInv, CallIInv
<1> QED BY <1>1, HereIs DEF MemoryIInv, RunsWith, LocalVariables

LEMMA AcceptingIs ==
    ASSUME TokenizerIInv, at # "idle", Here.status = "OK",
           NEW locals \in LocalVariables
    PROVE  /\ Accepting(locals) \in LocalVariables /\ Accepting(locals).cur = next
           /\ Accepting(locals).raw = locals.raw
           /\ Accepting(locals).quotes = locals.quotes
           /\ Accepting(locals).start = locals.start /\ Accepting(locals).end = locals.end
           /\ Accepting(locals).quotes_found = locals.quotes_found
BY Running DEF Accepting, LocalVariables

\* What is unread up to a point can be returned as a token.
LEMMA UpToCurGives ==
    ASSUME TokenizerIInv, at \notin {"idle", "bom"}, doc.data < l.cur, NEW type,
           ReturnUpToCur(type)
    PROVE  Gives
<1>1. l.cur - doc.data \in Nat /\ doc.data + (l.cur - doc.data) = l.cur BY Running
<1> QED BY <1>1, Running, GivesToken DEF ReturnUpToCur

LEMMA BomTurn == ASSUME TokenizerIInv, RemoveInitialBom PROVE Ends
<1>1. at = "bom" /\ Return([status |-> "READY"]) BY DEF RemoveInitialBom
<1>2. CASE Here.status = "OK" /\ Here.c = "BOM"
  <2>1. Advance(next) BY <1>2 DEF RemoveInitialBom
  <2> QED BY <1>1, <1>2, <2>1, Running DEF Skips, Ends
<1>3. CASE ~(Here.status = "OK" /\ Here.c = "BOM")
  BY <1>1, <1>3 DEF RemoveInitialBom, Stops, Ends
<1> QED BY <1>2, <1>3

LEMMA WhitespaceTurn == ASSUME TokenizerIInv, PopWhitespace PROVE Ends
<1>1. at = "whitespace" /\ l.cur > doc.data BY Running DEF PopWhitespace, RunsWith
<1>2. CASE Here.status = "OK" /\ IsWhitespace(charset, Here.c)
  <2>1. Continue("whitespace", Accepting(l)) BY <1>2 DEF PopWhitespace
  <2>2. RunsWith("whitespace", Accepting(l))
    BY <1>1, <1>2, Running, AcceptingIs DEF RunsWith
  <2> QED BY <2>1, <2>2 DEF Goes, Ends
<1>3. CASE ~(Here.status = "OK" /\ IsWhitespace(charset, Here.c))
  <2>1. ReturnUpToCur("WHITESPACE") BY <1>3 DEF PopWhitespace
  <2> QED BY <1>1, <2>1, Running, UpToCurGives DEF Ends
<1> QED BY <1>2, <1>3

LEMMA NewlineTurn == ASSUME TokenizerIInv, PopNewline PROVE Ends
<1> DEFINE end == IF Here.status = "OK" /\ Here.c = "LF" THEN next ELSE l.cur
<1>1. at = "cr" /\ l.cur > doc.data BY Running DEF PopNewline, RunsWith
<1>2. ReturnToken("NEWLINE", l.cur - 1, end - (l.cur - 1), end) BY DEF PopNewline
<1>3. end \in Nat /\ l.cur <= end /\ end <= doc.data + doc.len BY <1>1, Running
<1> HIDE DEF end
<1>4. /\ l.cur - 1 \in Nat /\ base <= l.cur - 1 /\ doc.data < end
      /\ end - (l.cur - 1) \in Nat /\ (l.cur - 1) + (end - (l.cur - 1)) <= end
  BY <1>1, <1>3, Running
<1>5. Gives BY <1>1, <1>2, <1>3, <1>4, Running, GivesToken
<1> QED BY <1>5 DEF Ends

LEMMA WordTurn == ASSUME TokenizerIInv, PopWord PROVE Ends
<1>1. at = "word" /\ StartsWord BY Running DEF PopWord, RunsWith
<1>2. l.cur = doc.data => Here.status = "OK" /\ IsWordChar(charset, Here.c)
  BY <1>1, Running DEF StartsWord
<1>3. CASE \/ Here.status = "EOF"
           \/ Here.status = "OK" /\ IsEndOfWord(charset, Here.c)
  <2>1. ReturnUpToCur("WORD")
    <3>1. CASE Here.status = "EOF" BY <3>1 DEF PopWord
    <3>2. CASE Here.status = "OK" /\ IsEndOfWord(charset, Here.c)
      <4>1. Here.status # "EOF" /\ Here.status \notin {"INCOMPLETE", "DECODE_ERROR"} BY <3>2
      <4>2. (CASE IsEndOfWord(charset, Here.c) -> ReturnUpToCur("WORD")
               [] ~IsEndOfWord(charset, Here.c) /\ IsWordChar(charset, Here.c) ->
                     Continue("word", Accepting(l))
               [] OTHER -> Fail)
        BY <3>2, <4>1 DEF PopWord
      <4> QED BY <3>2, <4>2
    <3> QED BY <1>3, <3>1, <3>2
  <2>2. l.cur # doc.data BY <1>2, <1>3, WordCharacters
  <2> QED BY <1>1, <2>1, <2>2, Running, UpToCurGives DEF Ends
<1>4. CASE Here.status \in {"INCOMPLETE", "DECODE_ERROR"}
  BY <1>4, FailStops DEF PopWord, Ends
<1>5. CASE Here.status = "OK" /\ ~IsEndOfWord(charset, Here.c)
  <2>1. CASE IsWordChar(charset, Here.c)
    <3>1. Continue("word", Accepting(l)) BY <1>5, <2>1 DEF PopWord
    <3>2. RunsWith("word", Accepting(l))
      BY <1>1, <1>5, Running, AcceptingIs DEF RunsWith
    <3> QED BY <3>1, <3>2 DEF Goes, Ends
  <2>2. CASE ~IsWordChar(charset, Here.c)
    BY <1>5, <2>2, FailStops DEF PopWord, Ends
  <2> QED BY <2>1, <2>2
<1> QED BY <1>1, <1>3, <1>4, <1>5, Running

LEMMA SlashTurn == ASSUME TokenizerIInv, PopComment PROVE Ends
<1>1. at = "slash" /\ l.cur > doc.data BY Running DEF PopComment, RunsWith
<1>2. CASE Here.status = "OK" /\ Here.c = "-"
  <2>1. ReturnToken("SLASHDASH", doc.data, 2, next) BY <1>2 DEF PopComment
  <2>2. doc.data + 2 <= next /\ doc.data < next BY <1>1, <1>2, Running
  <2>3. Gives BY <1>1, <1>2, <2>1, <2>2, Running, GivesToken
  <2> QED BY <2>3 DEF Ends
<1>3. CASE Here.status = "OK" /\ Here.c = "/"
  <2>1. Continue("line", Accepting(l)) BY <1>3 DEF PopComment
  <2>2. RunsWith("line", Accepting(l)) BY <1>1, <1>3, Running, AcceptingIs DEF RunsWith
  <2> QED BY <2>1, <2>2 DEF Goes, Ends
<1>4. CASE Here.status = "OK" /\ Here.c = "*"
  <2> DEFINE begun == [Accepting(l) EXCEPT !.depth = 1]
  <2>1. Continue("block", begun) BY <1>4 DEF PopComment
  <2>2. begun \in LocalVariables /\ begun.cur = next /\ begun.raw = l.raw
    BY <1>1, <1>4, Running, AcceptingIs DEF LocalVariables
  <2> HIDE DEF begun
  <2>3. RunsWith("block", begun) BY <1>1, <1>4, <2>2, Running DEF RunsWith
  <2> QED BY <2>1, <2>3 DEF Goes, Ends
<1>5. CASE ~(Here.status = "OK" /\ Here.c \in {"-", "/", "*"})
  BY <1>5, FailStops DEF PopComment, Ends
<1> QED BY <1>2, <1>3, <1>4, <1>5

LEMMA LineCommentTurn == ASSUME TokenizerIInv, PopLineComment PROVE Ends
<1>1. at = "line" /\ l.cur > doc.data BY Running DEF PopLineComment, RunsWith
<1>2. \/ ReturnUpToCur("SINGLE_LINE_COMMENT") \/ Fail
      \/ Here.status = "OK" /\ Continue("line", Accepting(l))
  BY <1>1, Running DEF PopLineComment
<1>3. CASE ReturnUpToCur("SINGLE_LINE_COMMENT")
  BY <1>1, <1>3, Running, UpToCurGives DEF Ends
<1>4. CASE Fail BY <1>4, FailStops DEF Ends
<1>5. CASE Here.status = "OK" /\ Continue("line", Accepting(l))
  <2>1. RunsWith("line", Accepting(l)) BY <1>1, <1>5, Running, AcceptingIs DEF RunsWith
  <2> QED BY <1>5, <2>1 DEF Goes, Ends
<1> QED BY <1>2, <1>3, <1>4, <1>5

LEMMA BlockCommentTurn == ASSUME TokenizerIInv, PopBlockComment PROVE Ends
<1> DEFINE opens == Here.c = "*" /\ l.prev = "/"
           closes == Here.c = "/" /\ l.prev = "*"
           depth == CASE opens -> l.depth + 1 [] closes -> l.depth - 1 [] OTHER -> l.depth
           inside == [Accepting(l) EXCEPT
                         !.depth = depth, !.prev = IF opens \/ closes THEN "none" ELSE Here.c]
<1>1. at = "block" /\ l.cur > doc.data BY Running DEF PopBlockComment, RunsWith
<1>2. \/ Fail
      \/ /\ Here.status = "OK"
         /\ \/ ReturnToken("MULTI_LINE_COMMENT", doc.data, next - doc.data, next)
            \/ Continue("block", inside)
  <2>1. CASE Here.status # "OK" \/ IsIllegal(charset, Here.c)
    <3> HIDE DEF depth, inside
    <3> QED BY <2>1 DEF PopBlockComment, depth, inside
  <2>2. CASE ~(Here.status # "OK" \/ IsIllegal(charset, Here.c)) /\ depth = 0
    <3> HIDE DEF depth, inside
    <3>1. ReturnToken("MULTI_LINE_COMMENT", doc.data, next - doc.data, next)
      BY <2>2 DEF PopBlockComment, depth, inside
    <3> QED BY <2>2, <3>1
  <2>3. CASE ~(Here.status # "OK" \/ IsIllegal(charset, Here.c)) /\ depth # 0
    <3> HIDE DEF depth, inside
    <3>1. Continue("block", inside)
      BY <2>3 DEF PopBlockComment, depth, inside
    <3> QED BY <2>3, <3>1
  <2> QED BY <2>1, <2>2, <2>3
<1>3. CASE Fail BY <1>3, FailStops DEF Ends
<1>4. CASE /\ Here.status = "OK"
           /\ ReturnToken("MULTI_LINE_COMMENT", doc.data, next - doc.data, next)
  <2>1. next - doc.data \in Nat /\ doc.data < next /\ doc.data + (next - doc.data) <= next
    BY <1>1, <1>4, Running
  <2>2. Gives BY <1>1, <1>4, <2>1, Running, GivesToken
  <2> QED BY <2>2 DEF Ends
<1>5. CASE Here.status = "OK" /\ Continue("block", inside)
  <2>1. depth \in Int
    <3>1. l.depth \in Int BY <1>1, Running DEF LocalVariables
    <3> QED BY <3>1
  <2> HIDE DEF depth
  <2>2. (IF opens \/ closes THEN "none" ELSE Here.c) \in Letter
    BY <1>1, Running DEF Letter
  <2>3. inside \in LocalVariables /\ inside.cur = next /\ inside.raw = l.raw
    BY <1>1, <1>5, <2>1, <2>2, Running, AcceptingIs DEF LocalVariables
  <2> HIDE DEF inside
  <2>4. RunsWith("block", inside) BY <1>1, <1>5, <2>3, Running DEF RunsWith
  <2> QED BY <1>5, <2>4 DEF Goes, Ends
<1> QED BY <1>2, <1>3, <1>4, <1>5

-----------------------------------------------------------------------------
(* A turn of _pop_string, and of kdl_pop_token itself. *)

LEMMA NoStringEnds ==
    ASSUME TokenizerIInv, at # "idle", NoString PROVE Ends
<1>1. CASE l.raw
  <2>1. Continue("word", Locals(doc.data)) BY <1>1 DEF NoString
  <2> DEFINE new == Locals(doc.data)
  <2>2. new \in LocalVariables /\ new.cur = doc.data /\ new.raw = FALSE
    BY Running, LocalsAre
  <2>3. StartsWord BY <1>1, Running DEF RunsWith
  <2> HIDE DEF new
  <2>4. RunsWith("word", new) BY <2>2, <2>3, Running DEF RunsWith
  <2> QED BY <2>1, <2>4 DEF Goes, Ends, new
<1>2. CASE ~l.raw BY <1>2, FailStops DEF NoString, Ends
<1> QED BY <1>1, <1>2

LEMMA OpensString ==
    ASSUME NEW loop \in {"hashes", "quotes"}, NEW locals \in LocalVariables,
           doc.data <= locals.cur, locals.cur <= doc.data + doc.len,
           locals.cur >= doc.data + locals.quotes,
           locals.end = 0, locals.quotes_found = 0, locals.raw => StartsWord
    PROVE  RunsWith(loop, locals)
BY DEF RunsWith

LEMMA HashesTurn == ASSUME TokenizerIInv, CountHashes PROVE Ends
<1>1. at = "hashes" /\ RunsWith("hashes", l) BY Running DEF CountHashes
<1>2. CASE Here.status = "OK" /\ Here.c = "#"
  <2> DEFINE counted == [Accepting(l) EXCEPT !.hashes = @ + 1]
  <2>1. Continue("hashes", counted) BY <1>2 DEF CountHashes
  <2>2. /\ counted \in LocalVariables /\ counted.cur = next /\ counted.raw = l.raw
        /\ counted.quotes = l.quotes /\ counted.end = l.end
        /\ counted.quotes_found = l.quotes_found
    BY <1>1, <1>2, Running, AcceptingIs DEF LocalVariables
  <2>3. l.quotes \in Nat BY <1>1, Running DEF LocalVariables
  <2> HIDE DEF counted
  <2>4. RunsWith("hashes", counted) BY <1>1, <1>2, <2>2, <2>3, Running DEF RunsWith
  <2> QED BY <2>1, <2>4 DEF Goes, Ends
<1>3. CASE Here.status = "OK" /\ Here.c = "\""
  <2>1. Continue("quotes", l) BY <1>3 DEF CountHashes
  <2>2. RunsWith("quotes", l) BY <1>1 DEF RunsWith
  <2> QED BY <2>1, <2>2 DEF Goes, Ends
<1>4. CASE ~(Here.status = "OK" /\ Here.c \in {"#", "\""})
  <2>1. NoString BY <1>4 DEF CountHashes
  <2> QED BY <1>1, <2>1, NoStringEnds
<1> QED BY <1>2, <1>3, <1>4

LEMMA BeginBodyGoes ==
    ASSUME TokenizerIInv, NEW locals, RunsWith("quotes", locals), BeginBody(locals)
    PROVE  Ends
<1> DEFINE over == IF locals.quotes = 2 THEN 1 ELSE 0
           body == [locals EXCEPT !.cur = @ - over, !.quotes = @ - over,
                                  !.start = locals.cur - over - doc.data]
<1>1. /\ locals \in LocalVariables /\ locals.cur \in Nat /\ locals.quotes \in Nat
      /\ doc.data \in Nat /\ doc.len \in Nat
      /\ locals.cur <= doc.data + doc.len /\ locals.cur >= doc.data + locals.quotes
      /\ locals.end = 0 /\ locals.quotes_found = 0
      /\ locals.raw => StartsWord
  BY DEF RunsWith, LocalVariables, TokenizerIInv, MemoryIInv
<1>2. Continue("string", body) BY DEF BeginBody
<1>3. over \in {0, 1} /\ over <= locals.quotes BY <1>1
<1> HIDE DEF over
<1>4. /\ locals.cur - over \in Nat /\ locals.quotes - over \in Nat
      /\ locals.cur - over - doc.data \in Nat
  BY <1>1, <1>3
<1>5. /\ body \in LocalVariables /\ body.cur = locals.cur - over /\ body.raw = locals.raw
      /\ body.start = locals.cur - over - doc.data
      /\ body.end = 0 /\ body.quotes_found = 0
  BY <1>1, <1>4 DEF LocalVariables
<1> HIDE DEF body
<1>6. RunsWith("string", body) BY <1>1, <1>3, <1>4, <1>5 DEF RunsWith
<1> QED BY <1>2, <1>6 DEF Goes, Ends

LEMMA QuotesTurn == ASSUME TokenizerIInv, CountQuotes PROVE Ends
<1> DEFINE counted == [Accepting(l) EXCEPT !.quotes = @ + 1]
           empty == Here.status = "EOF" /\ ~l.raw /\ l.quotes = 2
<1>1. at = "quotes" /\ RunsWith("quotes", l) BY Running DEF CountQuotes
<1>2. CASE empty
  <2>1. ReturnToken("STRING", doc.data, 0, l.cur) BY <1>2 DEF CountQuotes
  <2>2. doc.data < l.cur BY <1>1, <1>2, Running DEF RunsWith
  <2>3. 0 \in Nat /\ doc.data + 0 <= l.cur BY <1>1, Running
  <2>4. Gives BY <1>1, <2>1, <2>2, <2>3, Running, GivesToken
  <2> QED BY <2>4 DEF Ends
<1>3. CASE Here.status # "OK" /\ ~empty
  <2>1. NoString BY <1>3 DEF CountQuotes
  <2> QED BY <1>1, <2>1, NoStringEnds
<1>4. CASE Here.status = "OK" /\ Here.c = "\""
  <2>1. \/ BeginBody(counted) \/ Continue("quotes", counted)
    <3>1. (IF counted.quotes = (IF l.v1 THEN 1 ELSE 3) THEN BeginBody(counted)
           ELSE Continue("quotes", counted))
      BY <1>4 DEF CountQuotes
    <3> QED BY <3>1
  <2>2. l.quotes \in Nat BY <1>1, Running DEF LocalVariables
  <2> DEFINE accepted == Accepting(l)
  <2>3. /\ accepted \in LocalVariables /\ accepted.cur = next /\ accepted.raw = l.raw
        /\ accepted.quotes = l.quotes /\ accepted.end = l.end
        /\ accepted.quotes_found = l.quotes_found
    BY <1>1, <1>4, Running, AcceptingIs
  <2>4. counted = [accepted EXCEPT !.quotes = l.quotes + 1] BY <2>3
  <2> HIDE DEF accepted, counted
  <2>5. counted \in LocalVariables BY <2>3, <2>4, <2>2 DEF LocalVariables
  <2>6. /\ counted \in LocalVariables /\ counted.cur = next /\ counted.raw = l.raw
        /\ counted.quotes = l.quotes + 1 /\ counted.end = l.end
        /\ counted.quotes_found = l.quotes_found
    BY <2>3, <2>4, <2>5 DEF LocalVariables
  <2> HIDE DEF counted
  <2>7. RunsWith("quotes", counted)
    <3>1. /\ doc.data \in Nat /\ doc.len \in Nat /\ next \in Nat /\ l.cur \in Nat
          /\ l.cur < next /\ next <= doc.data + doc.len /\ doc.data <= l.cur
      BY <1>1, <1>4, Running
    <3>2. /\ l.cur >= doc.data + l.quotes /\ l.end = 0 /\ l.quotes_found = 0
          /\ l.raw => StartsWord
      BY <1>1 DEF RunsWith
    <3>3. next >= doc.data + (l.quotes + 1) /\ doc.data <= next BY <2>2, <3>1, <3>2
    <3> QED BY <2>6, <3>1, <3>2, <3>3, OpensString
  <2> QED BY <2>1, <2>7, BeginBodyGoes DEF Goes, Ends
<1>5. CASE Here.status = "OK" /\ Here.c # "\""
  <2>1. BeginBody(l) BY <1>5 DEF CountQuotes
  <2> QED BY <1>1, <2>1, BeginBodyGoes
<1> QED BY <1>2, <1>3, <1>4, <1>5

\* Where a string may have ended lies between its beginning and the character at cur.
LEMMA CountedIs ==
    ASSUME TokenizerIInv, at = "string", Here.status = "OK"
    PROVE  /\ Counted(Here.c) \in LocalVariables
           /\ Counted(Here.c).cur = l.cur /\ Counted(Here.c).raw = l.raw
           /\ Counted(Here.c).start = l.start
           /\ doc.data + Counted(Here.c).end <= next
           /\ Counted(Here.c).end # 0 \/ Counted(Here.c).quotes_found # 0 =>
                  l.start <= Counted(Here.c).end
<1> DEFINE c == Here.c
           n == Counted(c)
<1>1. /\ l \in LocalVariables /\ c \in Letter /\ doc.data \in Nat /\ l.cur \in Nat
      /\ l.start \in Nat /\ l.end \in Nat /\ l.quotes_found \in Nat /\ l.quotes \in Nat
      /\ l.hashes_found \in Nat /\ "none" \in Letter
      /\ next \in Nat /\ l.cur < next
      /\ doc.data + l.start <= l.cur /\ doc.data + l.end <= l.cur
      /\ l.end # 0 \/ l.quotes_found # 0 => l.start <= l.end
  BY Running DEF RunsWith, LocalVariables, Letter
<1> DEFINE escaped == ~l.raw /\ c = "\\" /\ l.prev = "\\"
           quoted == c = "\"" /\ (l.raw \/ l.prev # "\\")
           hashed == c = "#" /\ (l.hashes_found # 0 \/ l.quotes_found = l.quotes)
           end == (IF l.quotes_found = 0 THEN l.cur - doc.data ELSE l.end)
                  + (IF l.quotes_found < l.quotes THEN 0 ELSE 1)
           found == IF l.quotes_found < l.quotes THEN l.quotes_found + 1 ELSE l.quotes_found
<1>2. CASE escaped
  <2>1. n = [l EXCEPT !.prev = "none", !.quotes_found = 0, !.hashes_found = 0, !.end = 0]
    BY <1>2 DEF Counted
  <2> HIDE DEF n, c
  <2>2. n \in LocalVariables
    BY <1>1, <2>1 DEF LocalVariables
  <2>3. /\ n.cur = l.cur /\ n.raw = l.raw /\ n.start = l.start
        /\ n.end = 0 /\ n.quotes_found = 0
    BY <1>1, <2>1 DEF LocalVariables
  <2> QED BY <1>1, <2>2, <2>3 DEF n, c
<1>3. CASE quoted
  <2>1. ~escaped /\ ~hashed BY <1>3
  <2>2. n = [l EXCEPT !.prev = c, !.hashes_found = 0, !.end = end, !.quotes_found = found]
    BY <1>1, <1>3, <2>1 DEF Counted, LocalVariables
  <2>3. end \in Nat /\ found \in Nat BY <1>1
  <2>4. doc.data + end <= next /\ l.start <= end BY <1>1
  <2> HIDE DEF end, found, n, c
  <2>5. n \in LocalVariables
    BY <1>1, <2>2, <2>3 DEF LocalVariables
  <2>6. n.cur = l.cur /\ n.raw = l.raw /\ n.start = l.start /\ n.end = end
    BY <1>1, <2>2, <2>3 DEF LocalVariables
  <2> QED BY <2>4, <2>5, <2>6 DEF n, c
<1>4. CASE hashed
  <2>1. ~escaped /\ ~quoted BY <1>4
  <2>2. n = [l EXCEPT !.prev = c, !.hashes_found = @ + 1, !.quotes_found = 0]
    BY <1>4, <2>1 DEF Counted
  <2> DEFINE more == l.hashes_found + 1
  <2>3. n = [l EXCEPT !.prev = c, !.hashes_found = more, !.quotes_found = 0] BY <2>2
  <2>4. more \in Nat BY <1>1
  <2> HIDE DEF n, c, more
  <2>5. n \in LocalVariables
    BY <1>1, <2>3, <2>4 DEF LocalVariables
  <2>6. /\ n.cur = l.cur /\ n.raw = l.raw /\ n.start = l.start
        /\ n.end = l.end /\ n.quotes_found = 0
    BY <1>1, <2>2 DEF LocalVariables
  <2> QED BY <1>1, <2>5, <2>6 DEF n, c
<1>5. CASE ~escaped /\ ~quoted /\ ~hashed
  <2>1. n = [l EXCEPT !.prev = c, !.quotes_found = 0, !.hashes_found = 0, !.end = 0]
    BY <1>5 DEF Counted
  <2> HIDE DEF n, c
  <2>2. n \in LocalVariables
    BY <1>1, <2>1 DEF LocalVariables
  <2>3. /\ n.cur = l.cur /\ n.raw = l.raw /\ n.start = l.start
        /\ n.end = 0 /\ n.quotes_found = 0
    BY <1>1, <2>1 DEF LocalVariables
  <2> QED BY <1>1, <2>2, <2>3 DEF n, c
<1> QED BY <1>2, <1>3, <1>4, <1>5

LEMMA StringTurn == ASSUME TokenizerIInv, PopString PROVE Ends
<1> DEFINE n == Counted(Here.c)
           closed == /\ n.end # 0
                     /\ IF l.hashes = 0 THEN n.quotes_found = l.quotes
                                        ELSE n.hashes_found = l.hashes
<1>1. at = "string" BY DEF PopString
<1>2. CASE Here.status # "OK" \/ IsIllegal(charset, Here.c)
  <2> HIDE DEF n, closed
  <2>1. NoString BY <1>2 DEF PopString, n, closed
  <2> QED BY <1>1, <2>1, NoStringEnds
<1>3. CASE ~(Here.status # "OK" \/ IsIllegal(charset, Here.c))
  <2> HIDE DEF closed
  <2>1. IF closed THEN ReturnToken(StringType, doc.data + l.start, n.end - l.start, next)
                  ELSE Continue("string", Accepting(n))
    BY <1>3 DEF PopString, closed
  <2>2. /\ n \in LocalVariables /\ n.cur = l.cur /\ n.raw = l.raw /\ n.start = l.start
        /\ n.start \in Nat /\ n.end \in Nat
        /\ doc.data + n.end <= next
        /\ n.end # 0 \/ n.quotes_found # 0 => n.start <= n.end
        /\ doc.data + n.start <= n.cur
    BY <1>1, <1>3, CountedIs, Running DEF LocalVariables, RunsWith
  <2>3. closed => n.end # 0 BY DEF closed
  <2> HIDE DEF n
  <2>4. CASE closed
    <3>1. /\ doc.data + l.start \in Nat /\ n.end - l.start \in Nat
          /\ base <= doc.data + l.start /\ (doc.data + l.start) + (n.end - l.start) <= next
          /\ doc.data < next
      BY <1>1, <1>3, <2>2, <2>3, <2>4, Running
    <3>2. Gives BY <1>1, <1>3, <2>1, <2>4, <3>1, Running, GivesToken
    <3> QED BY <3>2 DEF Ends
  <2>5. CASE ~closed
    <3>1. RunsWith("string", Accepting(n))
      BY <1>1, <1>3, <2>2, Running, AcceptingIs DEF RunsWith
    <3> QED BY <2>1, <2>5, <3>1 DEF Goes, Ends
  <2> QED BY <2>4, <2>5
<1> QED BY <1>2, <1>3

StringStarts == {"\"", "r", "#"}

LEMMA BeginStringGoes ==
    ASSUME TokenizerIInv, at = "token", Here.status = "OK",
           Here.c \in StringStarts, BeginString(Here.c)
    PROVE  Ends
<1>1. l.cur = doc.data /\ Here = PopCodepoint(Unread) BY Running DEF RunsWith
<1>2. CASE Here.c = "\""
  <2>1. Continue("quotes", Locals(l.cur)) BY <1>2 DEF BeginString
  <2> DEFINE new == Locals(l.cur)
  <2>2. /\ new \in LocalVariables /\ new.cur = l.cur /\ new.raw = FALSE /\ new.quotes = 0
        /\ new.end = 0 /\ new.quotes_found = 0
    BY Running, LocalsAre
  <2> HIDE DEF new
  <2>3. RunsWith("quotes", new)
    <3>1. /\ doc.data \in Nat /\ doc.data <= l.cur /\ l.cur <= doc.data + doc.len
          /\ l.cur >= doc.data + 0
      BY <1>1, Running
    <3> QED BY <2>2, <3>1, OpensString
  <2> QED BY <2>1, <2>3 DEF Goes, Ends, new
<1>3. CASE Here.c \in {"r", "#"}
  <2> DEFINE cur == IF Here.c = "r" THEN next ELSE l.cur
             begun == [Locals(cur) EXCEPT !.raw = TRUE, !.v1 = (Here.c = "r")]
  <2>1. Continue("hashes", begun) BY <1>3 DEF BeginString
  <2>2. cur \in Nat /\ doc.data <= cur /\ cur <= doc.data + doc.len
    <3>1. /\ next \in Nat /\ l.cur < next /\ next <= doc.data + doc.len
          /\ doc.data \in Nat /\ doc.len \in Nat
          /\ l.cur \in Nat /\ doc.data <= l.cur /\ l.cur <= doc.data + doc.len
      BY Running
    <3>2. doc.data <= next BY <3>1
    <3> QED BY <3>1, <3>2
  <2> HIDE DEF cur
  <2> DEFINE empty == Locals(cur)
             v1 == Here.c = "r"
  <2>3. /\ empty \in LocalVariables /\ empty.cur = cur /\ empty.quotes = 0
        /\ empty.end = 0 /\ empty.quotes_found = 0
    BY <2>2, LocalsAre
  <2>4. begun = [empty EXCEPT !.raw = TRUE, !.v1 = v1] OBVIOUS
  <2>5. v1 \in BOOLEAN OBVIOUS
  <2> HIDE DEF empty, begun, v1
  <2>6. begun \in LocalVariables BY <2>3, <2>4, <2>5 DEF LocalVariables
  <2>7. /\ begun \in LocalVariables /\ begun.cur = cur /\ begun.quotes = 0
        /\ begun.end = 0 /\ begun.quotes_found = 0
    BY <2>3, <2>4, <2>6 DEF LocalVariables
  <2>8. StartsWord BY <1>1, <1>3, WordCharacters DEF StartsWord
  <2>9. doc.data \in Nat BY Running
  <2>10. RunsWith("hashes", begun)
    <3>1. cur >= doc.data + 0 BY <2>2, <2>9
    <3> QED BY <2>2, <2>7, <2>8, <3>1, OpensString
  <2> QED BY <2>1, <2>10 DEF Goes, Ends
<1> QED BY <1>2, <1>3 DEF StringStarts

LEMMA TokenTurn == ASSUME TokenizerIInv, PopToken PROVE Ends
<1> DEFINE c == Here.c
<1>1. /\ at = "token" /\ at # "idle" /\ RunsWith("token", l) /\ l.cur = doc.data
      /\ Here = PopCodepoint(Unread)
  BY Running DEF PopToken, RunsWith
<1>2. CASE Here.status = "EOF"
  <2>1. Return([status |-> "EOF"]) /\ UNCHANGED doc BY <1>2 DEF PopToken
  <2> QED BY <2>1 DEF Stops, Ends
<1>3. CASE Here.status \in {"INCOMPLETE", "DECODE_ERROR"}
  <2>1. Fail BY <1>3 DEF PopToken
  <2> QED BY <2>1, FailStops DEF Ends
<1>4. CASE Here.status = "OK"
  <2>1. (CASE IsIllegal(charset, c) -> Fail
           [] ~IsIllegal(charset, c) /\ IsWhitespace(charset, c) ->
                 Continue("whitespace", Accepting(l))
           [] c = "CR" -> Continue("cr", Accepting(l))
           [] c # "CR" /\ IsNewline(c) -> ReturnToken("NEWLINE", l.cur, Here.width, next)
           [] c = ";" -> ReturnToken("SEMICOLON", doc.data, l.cur - doc.data, next)
           [] c \in DOMAIN Punctuation ->
                 ReturnToken(Punctuation[c], l.cur, Here.width, next)
           [] c = "/" -> Continue("slash", Accepting(l))
           [] c \in {"\"", "r", "#"} -> BeginString(c)
           [] c \notin {"\"", "r", "#"} /\ IsWordChar(charset, c) -> Continue("word", l)
           [] OTHER -> Fail)
    <3>1. Here.status # "EOF" /\ Here.status \notin {"INCOMPLETE", "DECODE_ERROR"} BY <1>4
    <3> QED BY <1>4, <3>1 DEF PopToken
  <2>2. \/ Fail
        \/ \E loop \in {"whitespace", "cr", "slash"} : Continue(loop, Accepting(l))
        \/ \E type : ReturnToken(type, l.cur, Here.width, next)
        \/ ReturnToken("SEMICOLON", doc.data, l.cur - doc.data, next)
        \/ c \in {"\"", "r", "#"} /\ BeginString(c)
        \/ IsWordChar(charset, c) /\ Continue("word", l)
    BY <2>1
  <2>3. CASE Fail BY <2>3, FailStops DEF Ends
  <2>4. ASSUME NEW loop \in {"whitespace", "cr", "slash"}, Continue(loop, Accepting(l))
        PROVE  Ends
    <3> DEFINE new == Accepting(l)
    <3>1. new \in LocalVariables /\ new.cur = next /\ new.raw = l.raw
      BY <1>1, <1>4, Running, AcceptingIs
    <3> HIDE DEF new
    <3>2. RunsWith(loop, new) BY <1>1, <1>4, <3>1, Running DEF RunsWith
    <3> QED BY <2>4, <3>2 DEF Goes, Ends, new
  <2>5. ASSUME NEW type, ReturnToken(type, l.cur, Here.width, next) PROVE Ends
    <3>1. /\ l.cur \in Nat /\ Here.width \in Nat /\ next \in Nat
          /\ base <= l.cur /\ l.cur + Here.width <= next
          /\ doc.data < next /\ next <= doc.data + doc.len
      BY <1>1, <1>4, Running
    <3>2. Gives BY <1>1, <2>5, <3>1, GivesToken
    <3> QED BY <3>2 DEF Ends
  <2>6. CASE ReturnToken("SEMICOLON", doc.data, l.cur - doc.data, next)
    <3>1. /\ doc.data \in Nat /\ l.cur - doc.data \in Nat /\ next \in Nat
          /\ base <= doc.data /\ doc.data + (l.cur - doc.data) <= next
          /\ doc.data < next /\ next <= doc.data + doc.len
      BY <1>1, <1>4, Running
    <3>2. Gives BY <1>1, <2>6, <3>1, GivesToken
    <3> QED BY <3>2 DEF Ends
  <2>7. CASE c \in {"\"", "r", "#"} /\ BeginString(c)
    BY <1>1, <1>4, <2>7, BeginStringGoes DEF StringStarts
  <2>8. CASE IsWordChar(charset, c) /\ Continue("word", l)
    <3>1. StartsWord BY <1>1, <1>4, <2>8 DEF StartsWord
    <3>2. RunsWith("word", l) BY <1>1, <3>1 DEF RunsWith
    <3> QED BY <2>8, <3>2 DEF Goes, Ends
  <2> QED BY <2>2, <2>3, <2>4, <2>5, <2>6, <2>7, <2>8
<1> QED BY <1>1, <1>2, <1>3, <1>4, Running

LEMMA TurnEnds == ASSUME TokenizerIInv, Turn PROVE Ends
BY BomTurn, TokenTurn, WhitespaceTurn, NewlineTurn, WordTurn, SlashTurn, LineCommentTurn,
   BlockCommentTurn, HashesTurn, QuotesTurn, StringTurn DEF Turn

-----------------------------------------------------------------------------
(* Every step keeps the invariant. *)

LEMMA MovedOn ==
    ASSUME MemoryIInv, NEW to \in Nat, doc.data <= to, to <= doc.data + doc.len,
           Advance(to), UNCHANGED <<file, stream, allocated, base, mem>>
    PROVE  /\ MemoryIInv' /\ doc'.data = to
           /\ Len(Remaining') = Len(Remaining) - (to - doc.data)
           /\ Remaining' = SubSeq(Remaining, to - doc.data + 1, Len(Remaining))
<1> DEFINE k == to - doc.data
           v == Unread'
<1>1. doc.data \in Nat /\ doc.len \in Nat /\ base \in Nat /\ base <= doc.data
  BY DEF MemoryIInv
<1>2. doc' = [data |-> to, len |-> doc.len - k] BY DEF Advance
<1>3. k \in Nat /\ doc.len - k \in Nat /\ to = doc.data + k BY <1>1
<1>4. MemoryIInv' BY <1>1, <1>2, <1>3 DEF MemoryIInv
<1>5. /\ Unread \in Seq(Byte) /\ Len(Unread) = doc.len
      /\ \A i \in 1..doc.len : Unread[i] = mem[doc.data + i - base]
  BY UnreadIs
<1>6. /\ v \in Seq(Byte) /\ Len(v) = doc.len - k
      /\ \A i \in 1..doc.len - k : v[i] = mem[to + i - base]
  <2>1. /\ Unread' \in Seq(Byte) /\ Len(Unread') = doc'.len
        /\ \A i \in 1..doc'.len : Unread'[i] = mem'[doc'.data + i - base']
    BY <1>4, UnreadIsNext
  <2> HIDE DEF k
  <2> QED BY <1>2, <2>1
<1> HIDE DEF v, k
<1>7. \A i \in 1..Len(v) : v[i] = Unread[k + i]
  <2> SUFFICES ASSUME NEW i \in 1..doc.len - k PROVE v[i] = Unread[k + i] BY <1>6
  <2>1. k + i \in 1..doc.len /\ to + i - base = doc.data + (k + i) - base BY <1>1, <1>3
  <2>2. Unread[k + i] = mem[doc.data + (k + i) - base] BY <1>5, <2>1
  <2> QED BY <1>6, <2>1, <2>2
<1>8. /\ Len(v \o file) = Len(Unread \o file) - k
      /\ v \o file = SubSeq(Unread \o file, k + 1, Len(Unread \o file))
  <2>1. Len(v) = Len(Unread) - k BY <1>5, <1>6
  <2>2. file \in Seq(Byte) BY DEF MemoryIInv
  <2> QED BY ZenonT(60), <1>3, <1>5, <1>6, <1>7, <2>1, <2>2, Suffix
<1>9. Remaining' = v \o file BY DEF Remaining, v
<1> QED BY <1>2, <1>4, <1>8, <1>9 DEF Remaining, k

\* How what remains changes in a step.
Takes ==
    LET n == Len(Remaining) - Len(Remaining')
    IN /\ n >= 0 /\ Remaining' = SubSeq(Remaining, n + 1, Len(Remaining))
       /\ (at # "idle" /\ token'.status = "OK") <=> (n > 0 /\ at # "bom")

LEMMA RemainingIs ==
    ASSUME MemoryIInv
    PROVE  /\ Len(Remaining) \in Nat
           /\ SubSeq(Remaining, 0 + 1, Len(Remaining)) = Remaining
<1>1. Unread \in Seq(Byte) /\ file \in Seq(Byte) BY UnreadIs DEF MemoryIInv
<1>2. Len(Unread) = Len(Unread) - 0 /\ \A i \in 1..Len(Unread) : Unread[i] = Unread[0 + i]
  BY <1>1, LenProperties
<1>3. Unread \o file = SubSeq(Unread \o file, 0 + 1, Len(Unread \o file))
  BY <1>1, <1>2, Suffix
<1>4. Unread \o file \in Seq(Byte) BY <1>1, ConcatProperties
<1> QED BY <1>3, <1>4, LenProperties DEF Remaining

\* A step that leaves what remains, and returns no token.
LEMMA TakesNothing ==
    ASSUME MemoryIInv, Remaining' = Remaining, at = "idle" \/ token'.status # "OK"
    PROVE  Takes
<1>1. Len(Remaining) - Len(Remaining') = 0 BY RemainingIs
<1> QED BY <1>1, RemainingIs DEF Takes

LEMMA TakesSome ==
    ASSUME NEW k \in Nat, k > 0, Len(Remaining) - Len(Remaining') = k,
           Remaining' = SubSeq(Remaining, k + 1, Len(Remaining)), at # "idle",
           token'.status = "OK" <=> at # "bom"
    PROVE  Takes
<1> DEFINE n == Len(Remaining) - Len(Remaining')
<1>1. n = k OBVIOUS
<1> HIDE DEF n
<1>2. n >= 0 /\ n > 0 /\ Remaining' = SubSeq(Remaining, n + 1, Len(Remaining)) BY <1>1
<1> QED BY <1>2 DEF Takes, n

LEMMA GoesKeeps ==
    ASSUME TokenizerIInv, at # "idle", Goes PROVE TokenizerIInv' /\ Takes
<1>1. PICK loop, locals : RunsWith(loop, locals) /\ Continue(loop, locals) BY DEF Goes
<1>2. /\ at' = loop /\ l' = [locals EXCEPT !.dry = FALSE] /\ UNCHANGED <<bufferVars, charset, token>>
  BY <1>1 DEF Continue
<1>3. Unread' = Unread /\ file' = file /\ charset' = charset /\ doc' = doc
  BY <1>2 DEF bufferVars, Unread, Bytes
<1>4. token.status = "NONE" BY Running
<1>5. MemoryIInv' BY <1>2 DEF TokenizerIInv, MemoryIInv, bufferVars
<1>6. StartsWord' = StartsWord BY <1>3 DEF StartsWord
<1> DEFINE new == l'
<1>7. /\ locals \in LocalVariables /\ new = [locals EXCEPT !.dry = FALSE]
  BY <1>1, <1>2 DEF RunsWith
<1> HIDE DEF new
<1>8. /\ new \in LocalVariables /\ new.cur = locals.cur /\ new.raw = locals.raw
      /\ new.quotes = locals.quotes /\ new.start = locals.start /\ new.end = locals.end
      /\ new.quotes_found = locals.quotes_found
  BY <1>7 DEF LocalVariables
<1>9. /\ loop # "idle" /\ doc.data <= new.cur /\ new.cur <= doc.data + doc.len
      /\ loop = "token" => new.cur = doc.data
      /\ loop \in {"whitespace", "cr", "slash", "line", "block"} => new.cur > doc.data
      /\ loop \in {"hashes", "quotes"} =>
             new.cur >= doc.data + new.quotes /\ new.end = 0 /\ new.quotes_found = 0
      /\ loop = "string" =>
             /\ doc.data + new.start <= new.cur /\ doc.data + new.end <= new.cur
             /\ new.end # 0 \/ new.quotes_found # 0 => new.start <= new.end
      /\ loop = "word" \/ new.raw => StartsWord
  BY <1>1, <1>8 DEF RunsWith
<1>10. RunsWith(at, l)' BY <1>2, <1>3, <1>6, <1>8, <1>9 DEF RunsWith, new
<1>11. CallIInv' BY <1>1, <1>2, <1>4, <1>10 DEF CallIInv, RunsWith
<1>12. Takes BY <1>2, <1>3, <1>4, TakesNothing DEF Remaining, TokenizerIInv
<1> QED BY <1>5, <1>11, <1>12 DEF TokenizerIInv

LEMMA GivesKeeps ==
    ASSUME TokenizerIInv, at # "idle", Gives PROVE TokenizerIInv' /\ Takes
<1>1. PICK type : \E from \in Nat, len \in Nat, to \in Nat :
          /\ base <= from /\ from + len <= to
          /\ doc.data < to /\ to <= doc.data + doc.len
          /\ ReturnToken(type, from, len, to)
  BY Zenon DEF Gives
<1>2. PICK from \in Nat, len \in Nat, to \in Nat :
          /\ base <= from /\ from + len <= to
          /\ doc.data < to /\ to <= doc.data + doc.len
          /\ ReturnToken(type, from, len, to)
  BY <1>1
<1>3. /\ at' = "idle" /\ token' = [status |-> "OK", type |-> type, from |-> from, len |-> len]
      /\ Advance(to) /\ UNCHANGED <<file, stream, allocated, base, mem>>
  BY <1>2 DEF ReturnToken, Return
<1>4. doc.data \in Nat /\ to - doc.data \in Nat /\ to - doc.data > 0
  BY <1>2, Running
<1>5. /\ MemoryIInv' /\ doc'.data = to
      /\ Len(Remaining') = Len(Remaining) - (to - doc.data)
      /\ Remaining' = SubSeq(Remaining, to - doc.data + 1, Len(Remaining))
  BY <1>2, <1>3, <1>4, MovedOn DEF TokenizerIInv
<1>6. CallIInv' BY <1>2, <1>3, <1>5 DEF CallIInv
<1>7. Takes
  <2>1. Len(Remaining) - Len(Remaining') = to - doc.data
    BY <1>4, <1>5, RemainingIs DEF TokenizerIInv
  <2>2. at # "bom" BY DEF Gives
  <2> QED BY <1>3, <1>4, <1>5, <2>1, <2>2, TakesSome
<1> QED BY <1>5, <1>6, <1>7 DEF TokenizerIInv

LEMMA StopsKeeps ==
    ASSUME TokenizerIInv, at # "idle", Stops PROVE TokenizerIInv' /\ Takes
<1>1. PICK status \in {"READY", "EOF", "ERROR"} :
          Return([status |-> status]) /\ UNCHANGED doc
  BY DEF Stops
<1>2. /\ at' = "idle" /\ token'.status # "OK"
      /\ UNCHANGED <<file, stream, allocated, base, mem, doc>>
  BY <1>1 DEF Return
<1>3. Unread' = Unread /\ MemoryIInv'
  BY <1>2 DEF TokenizerIInv, MemoryIInv, Unread, Bytes
<1>4. CallIInv' BY <1>2 DEF CallIInv
<1>5. Takes BY <1>2, <1>3, TakesNothing DEF Remaining, TokenizerIInv
<1> QED BY <1>3, <1>4, <1>5 DEF TokenizerIInv

LEMMA SkipsKeeps ==
    ASSUME TokenizerIInv, at # "idle", Skips PROVE TokenizerIInv' /\ Takes
<1>1. PICK to \in Nat : doc.data < to /\ to <= doc.data + doc.len /\ Advance(to)
  BY DEF Skips
<1>2. /\ at' = "idle" /\ token'.status = "READY" /\ at = "bom"
      /\ UNCHANGED <<file, stream, allocated, base, mem>>
  BY DEF Skips, Return
<1>3. doc.data \in Nat /\ to - doc.data \in Nat BY <1>1, Running
<1>4. /\ MemoryIInv' /\ doc'.data = to
      /\ Len(Remaining') = Len(Remaining) - (to - doc.data)
      /\ Remaining' = SubSeq(Remaining, to - doc.data + 1, Len(Remaining))
  BY <1>1, <1>2, <1>3, MovedOn DEF TokenizerIInv
<1>5. CallIInv' BY <1>2 DEF CallIInv
<1>6. Takes
  <2>1. Len(Remaining) - Len(Remaining') = to - doc.data
    BY <1>3, <1>4, RemainingIs DEF TokenizerIInv
  <2>2. to - doc.data > 0 BY <1>1, <1>3, Running
  <2> QED BY <1>2, <1>3, <1>4, <2>1, <2>2, TakesSome
<1> QED BY <1>4, <1>5, <1>6 DEF TokenizerIInv

LEMMA RefillsKeep ==
    ASSUME TokenizerIInv, Refill PROVE TokenizerIInv' /\ Takes
<1>1. at # "idle"
  BY DEF Refill, RefillFromString, RefillFromFile, RefillFails, Starved
<1>2. MemoryIInv /\ l \in LocalVariables /\ token.status = "NONE"
  BY <1>1, Running DEF TokenizerIInv
<1>3. PICK a \in Nat, n \in Nat : Refilled(a, n) BY <1>2, RefillStep
<1>4. TokenizerIInv' BY <1>1, <1>3, RefillKeeps
<1>5. Remaining' = Remaining /\ token' = token BY <1>3 DEF Refilled, Remaining
<1> QED BY <1>2, <1>4, <1>5, TakesNothing

LEMMA TurnsKeep ==
    ASSUME TokenizerIInv, Turn PROVE TokenizerIInv' /\ Takes
<1>1. at # "idle"
  BY DEF Turn, RemoveInitialBom, PopToken, PopWhitespace, PopNewline, PopWord, PopComment,
     PopLineComment, PopBlockComment, CountHashes, CountQuotes, PopString
<1> QED BY <1>1, TurnEnds, GoesKeeps, GivesKeeps, StopsKeeps, SkipsKeeps DEF Ends

LEMMA CallKeeps ==
    ASSUME TokenizerIInv, Call PROVE TokenizerIInv' /\ Takes
<1>1. /\ at = "idle" /\ at' = "token" /\ l' = Locals(doc.data) /\ token'.status = "NONE"
      /\ UNCHANGED <<file, stream, allocated, base, doc, charset>>
  BY DEF Call
<1>2. /\ mem \in Seq(Byte) /\ Len(mem) \in Nat /\ DOMAIN mem = 1..Len(mem)
      /\ base \in Nat /\ doc.data \in Nat /\ doc.len \in Nat
      /\ base <= doc.data /\ doc.data + doc.len <= base + Len(mem)
  BY LenProperties DEF TokenizerIInv, MemoryIInv
<1> DEFINE kept == mem'
<1>3. kept = [i \in 1..Len(mem) |-> IF i - 1 + base < doc.data THEN Garbage ELSE mem[i]]
  BY <1>2 DEF Call
<1> HIDE DEF kept
<1>4. kept \in Seq(Byte) /\ Len(kept) = Len(mem)
  <2>1. \A i \in 1..Len(mem) : mem[i] \in Byte BY <1>2, ElementOfSeq
  <2>2. kept \in [1..Len(mem) -> Byte] BY <1>3, <2>1 DEF Byte
  <2>3. kept \in Seq(Byte) BY <1>2, <2>2, SeqDef
  <2> QED BY <1>2, <1>3, <2>3, LenProperties
<1>5. stream /\ ~allocated => kept = <<>>
  <2>1. stream /\ ~allocated => Len(kept) = 0
    BY <1>2, <1>4, EmptySeq DEF TokenizerIInv, MemoryIInv
  <2> QED BY <1>4, <2>1, EmptySeq
<1>6. MemoryIInv' BY <1>1, <1>2, <1>4, <1>5 DEF TokenizerIInv, MemoryIInv, kept
<1>7. Unread' = Unread
  <2>1. MemoryIInv BY DEF TokenizerIInv
  <2>2. /\ Unread' \in Seq(Byte) /\ Len(Unread') = doc.len
        /\ \A i \in 1..doc.len : Unread'[i] = kept[doc.data + i - base]
    BY <1>1, <1>6, UnreadIsNext DEF kept
  <2>3. /\ Unread \in Seq(Byte) /\ Len(Unread) = doc.len
        /\ \A i \in 1..doc.len : Unread[i] = mem[doc.data + i - base]
    BY <2>1, UnreadIs
  <2>4. ASSUME NEW i \in 1..doc.len
        PROVE  kept[doc.data + i - base] = mem[doc.data + i - base]
    <3> DEFINE j == doc.data + i - base
    <3>1. j \in 1..Len(mem) /\ ~(j - 1 + base < doc.data) BY <1>2
    <3> HIDE DEF j
    <3>2. kept[j] = mem[j] BY <1>3, <3>1
    <3> QED BY <3>2 DEF j
  <2> QED BY <2>2, <2>3, <2>4, SeqEqual
<1>8. RunsWith("token", l)'
  <2> DEFINE new == Locals(doc.data)
  <2>1. /\ new \in LocalVariables /\ new.cur = doc.data /\ new.raw = FALSE
    BY <1>2, LocalsAre
  <2> HIDE DEF new
  <2>2. l' = new /\ doc' = doc BY <1>1 DEF new
  <2> QED BY <1>2, <2>1, <2>2 DEF RunsWith
<1>9. CallIInv' BY <1>1, <1>8 DEF CallIInv
<1>10. Takes BY <1>1, <1>7, TakesNothing DEF TokenizerIInv, Remaining
<1> QED BY <1>6, <1>9, <1>10 DEF TokenizerIInv

LEMMA OthersKeep ==
    ASSUME TokenizerIInv, SetCharacterSet \/ UNCHANGED tokenizerVars
    PROVE  TokenizerIInv' /\ Takes
<1>1. UNCHANGED <<bufferVars, at, l, token>> BY DEF SetCharacterSet, tokenizerVars
<1>2. at = "idle" \/ charset' = charset BY DEF SetCharacterSet, tokenizerVars
<1>3. Unread' = Unread /\ file' = file /\ doc' = doc /\ MemoryIInv'
  BY <1>1 DEF bufferVars, Unread, Bytes, TokenizerIInv, MemoryIInv
<1>4. at # "idle" => StartsWord' = StartsWord BY <1>2, <1>3 DEF StartsWord
<1>5. at # "idle" => RunsWith(at, l)' BY <1>1, <1>3, <1>4, Running DEF RunsWith
<1>6. CallIInv' BY <1>1, <1>3, <1>5 DEF TokenizerIInv, CallIInv, bufferVars
<1>7. at = "idle" \/ token'.status # "OK" BY <1>1, Running
<1>8. Takes BY <1>3, <1>7, TakesNothing DEF TokenizerIInv, Remaining
<1> QED BY <1>3, <1>6, <1>8 DEF TokenizerIInv

LEMMA StepKeeps ==
    ASSUME TokenizerIInv, [Next]_tokenizerVars PROVE TokenizerIInv' /\ Takes
BY CallKeeps, RefillsKeep, TurnsKeep, OthersKeep DEF Next

LEMMA DocumentIs == ASSUME NEW d \in Documents PROVE d \in Seq(Byte)
<1>1. d \in Seq(STRING) BY DocumentsAssumption
<1>2. Len(d) \in Nat /\ DOMAIN d = 1..Len(d) /\ d \in [1..Len(d) -> STRING]
  BY <1>1, LenProperties
<1>3. \A i \in 1..Len(d) : d[i] \in Byte BY DEF Byte
<1>4. d \in [1..Len(d) -> Byte] BY <1>2, <1>3
<1> QED BY <1>2, <1>4, SeqDef

LEMMA InitHolds == ASSUME Init PROVE TokenizerIInv
<1>1. PICK document \in Documents :
          /\ stream \in BOOLEAN /\ allocated = FALSE /\ base = 0
          /\ IF stream THEN file = document /\ mem = <<>> ELSE file = <<>> /\ mem = document
          /\ doc = [data |-> 0, len |-> Len(mem)]
          /\ at = "bom" /\ l = Locals(0) /\ token = [status |-> "NONE"]
  BY DEF Init
<1>2. document \in Seq(Byte) /\ <<>> \in Seq(Byte) BY DocumentIs, EmptySeq
<1>3. file \in Seq(Byte) /\ mem \in Seq(Byte) /\ (stream => mem = <<>>)
  <2>1. CASE stream BY <1>1, <1>2, <2>1
  <2>2. CASE ~stream BY <1>1, <1>2, <2>2
  <2> QED BY <2>1, <2>2
<1>4. Len(mem) \in Nat BY <1>3, LenProperties
<1>5. MemoryIInv
  <2>1. /\ doc.data = 0 /\ doc.len = Len(mem) /\ doc \in [data : Nat, len : Nat]
        /\ base = 0 /\ base \in Nat /\ stream \in BOOLEAN /\ allocated \in BOOLEAN
    BY <1>1, <1>4
  <2>2. base <= doc.data /\ doc.data + doc.len <= base + Len(mem) BY <1>4, <2>1
  <2> QED BY <1>3, <2>1, <2>2 DEF MemoryIInv
<1>6. RunsWith("bom", l)
  <2> DEFINE new == Locals(0)
  <2>1. new \in LocalVariables /\ new.cur = 0 /\ new.raw = FALSE BY LocalsAre
  <2> HIDE DEF new
  <2>2. l = new BY <1>1 DEF new
  <2> QED BY <1>1, <1>4, <2>1, <2>2 DEF RunsWith
<1> QED BY <1>1, <1>5, <1>6 DEF TokenizerIInv, CallIInv

-----------------------------------------------------------------------------
(* The theorems. *)

\* The invariant holds in every state of every behaviour.
THEOREM TokenizerKeepsIInv == TokenizerSafety => []TokenizerIInv
<1>1. Init => TokenizerIInv BY InitHolds
<1>2. TokenizerIInv /\ [Next]_tokenizerVars => TokenizerIInv' BY StepKeeps
<1> QED BY <1>1, <1>2, PTL DEF TokenizerSafety

\* Wherever refills move the document to, and whichever of them fail: it lies in the
\* block there is, cur lies in the document, and the value of a token that has been
\* returned lies before it in that block (tokenizer.c:213-216).
THEOREM PointersInside == TokenizerSafety => []PointersStayInside
<1>1. TokenizerIInv => PointersStayInside
  <2> SUFFICES ASSUME TokenizerIInv PROVE PointersStayInside OBVIOUS
  <2>1. at # "idle" => l.cur \in doc.data..(doc.data + doc.len) BY Running
  <2> QED BY <2>1 DEF PointersStayInside, TokenizerIInv, MemoryIInv, CallIInv
<1> QED BY <1>1, TokenizerKeepsIInv, PTL

\* However the data is cut into reads, every byte of it is in one token, in order, and
\* every token has one: no step loses, repeats or garbles what remains.
THEOREM BytesAreReadOnce == TokenizerSafety => EveryByteIsReadOnce
<1>1. TokenizerIInv /\ [Next]_tokenizerVars => [Takes]_tokenizerVars BY StepKeeps
<1>2. TokenizerSafety => [][Takes]_tokenizerVars
  BY <1>1, TokenizerKeepsIInv, PTL DEF TokenizerSafety
<1> QED BY <1>2 DEF EveryByteIsReadOnce, Takes
=============================================================================
