----------------------------- MODULE NotesProofs -----------------------------
(***************************************************************************)
(* Proofs about Notes: whatever the number of editors and of saves that    *)
(* are out, and whatever sanitizer and browser make of a note, as long as  *)
(* they agree on what is the same (SpellingAssumption), an editor does not *)
(* lose what was typed in it while its page is mounted; and a hit is a     *)
(* text, which holds the match unless lowering moves that too far.         *)
(***************************************************************************)
EXTENDS Notes, SequenceTheorems, WellFoundedInduction, TLAPS

-----------------------------------------------------------------------------
(* Searching *)

(* Sets of numbers that are not empty have a least element.                *)
LEMMA LeastIsLeast ==
  ASSUME NEW S \in SUBSET Nat, S # {}
  PROVE  Least(S) \in S /\ \A j \in S : Least(S) <= j
<1>1. PICK i \in S : \A j \in S : ~(<<j, i>> \in OpToRel(<, Nat))
  BY NatLessThanWellFounded, WFMin
<1>2. \A j \in S : i <= j
  <2> TAKE j \in S
  <2>1. i \in Nat /\ j \in Nat
    OBVIOUS
  <2>2. j < i => <<j, i>> \in OpToRel(<, Nat)
    BY <2>1 DEF OpToRel
  <2>3. ~(j < i)
    BY <1>1, <2>2
  <2> QED BY <2>1, <2>3
<1> QED BY <1>2 DEF Least

(* The greatest of S is the one that lacks the least from n.               *)
LEMMA GreatestIsGreatest ==
  ASSUME NEW n \in Nat, NEW S \in SUBSET (0..n), S # {}
  PROVE  Greatest(S) \in S /\ \A j \in S : j <= Greatest(S)
<1> DEFINE T == {n - i : i \in S}
<1>1. T \in SUBSET Nat /\ T # {}
  <2>1. \A i \in S : n - i \in Nat
    OBVIOUS
  <2> QED BY <2>1
<1>2. PICK i \in S : Least(T) = n - i
  BY <1>1, LeastIsLeast
<1>3. \A j \in S : n - i <= n - j
  BY <1>1, <1>2, LeastIsLeast
<1>4. \A j \in S : j <= i
  BY <1>3
<1> QED BY <1>4 DEF Greatest

(* Index is where the needle occurs, if it does.                           *)
LEMMA IndexIsThere ==
  ASSUME NEW text \in Seq(Byte), NEW needle \in Seq(Byte), Occurs(text, needle)
  PROVE  Index(text, needle) \in 0..Len(text) /\ At(text, Index(text, needle), needle)
<1> DEFINE S == {i \in 0..Len(text) : At(text, i, needle)}
<1>1. S \in SUBSET Nat /\ S # {}
  BY DEF Occurs
<1>2. /\ Least(S) \in 0..Len(text) /\ At(text, Least(S), needle)
      /\ \A j \in S : Least(S) <= j
  BY <1>1, LeastIsLeast
<1>3. \A j \in 0..(Least(S) - 1) : ~At(text, j, needle)
  BY <1>2
<1> HIDE DEF S
<1> QED BY <1>2, <1>3 DEF Index

(* A part of a text, byte by byte.                                         *)
LEMMA PartType ==
  ASSUME NEW s \in Seq(Byte), NEW a \in Nat, NEW b \in Nat, a <= b, b <= Len(s)
  PROVE  /\ SubSeq(s, a + 1, b) \in Seq(Byte) /\ Len(SubSeq(s, a + 1, b)) = b - a
         /\ \A i \in 1..(b - a) : SubSeq(s, a + 1, b)[i] = s[a + i]
<1>1. \A i \in (a + 1)..b : s[i] \in Byte
  BY ElementOfSeq
<1>2. /\ SubSeq(s, a + 1, b) \in Seq(Byte)
      /\ Len(SubSeq(s, a + 1, b)) = IF a + 1 <= b THEN b - (a + 1) + 1 ELSE 0
      /\ \A i \in 1..(b - (a + 1) + 1) : SubSeq(s, a + 1, b)[i] = s[a + 1 + i - 1]
  BY <1>1, SubSeqProperties
<1>3. \A i \in 1..(b - a) : a + 1 + i - 1 = a + i
  OBVIOUS
<1>4. b - (a + 1) + 1 = b - a
  OBVIOUS
<1> QED BY <1>2, <1>3, <1>4

(* An excerpt is a part of the text that begins and ends where runes do.   *)
(* It reaches back to the place it was asked for, and on as far as it may. *)
LEMMA ExcerptIsPart ==
  ASSUME NEW text \in Seq(Byte), text # <<>>, NEW at \in Nat, NEW length \in Nat \ {0},
         Radius \in Nat, ~OutOfRange(text, at)
  PROVE  \E start, end \in 0..Len(text) :
           /\ Excerpt(text, at, length) = Part(text, start, end)
           /\ start < end /\ (start = 0 \/ start + Radius <= at)
           /\ Boundary(text, start) /\ Boundary(text, end)
           /\ end = Len(text) \/ at + length + Radius <= end
<1> DEFINE n == Len(text)
           from == Greatest({0, at - Radius})
           to == Least({n, at + length + Radius})
           S == {i \in 0..from : i = 0 \/ RuneStart(text, i)}
           E == {i \in to..n : i = n \/ RuneStart(text, i)}
<1>1. n \in Nat /\ n > 0
  BY EmptySeq, LenProperties
<1>2. from \in Nat /\ from < n /\ (from = 0 \/ from + Radius <= at)
  <2>1. CASE at - Radius >= 0
    <3>1. {0, at - Radius} \in SUBSET (0..at)
      BY <2>1
    <3>2. from \in {0, at - Radius}
      BY <3>1, GreatestIsGreatest
    <3> QED BY <1>1, <2>1, <3>2 DEF OutOfRange
  <2>2. CASE at - Radius < 0
    <3>1. \E i \in {0, at - Radius} : \A j \in {0, at - Radius} : j <= i
      BY <2>2
    <3>2. from \in {0, at - Radius} /\ \A j \in {0, at - Radius} : j <= from
      BY <3>1 DEF Greatest
    <3> QED BY <1>1, <2>2, <3>2
  <2> QED BY <2>1, <2>2
<1>3. /\ to \in Nat /\ from < to /\ to <= n
      /\ to = n \/ to = at + length + Radius
  <2>1. {n, at + length + Radius} \in SUBSET Nat
    BY <1>1
  <2>2. to \in {n, at + length + Radius} /\ to <= n
    BY <2>1, LeastIsLeast
  <2>3. to <= at + length + Radius /\ (to = n \/ to = at + length + Radius)
    BY <1>1, <2>1, <2>2, LeastIsLeast
  <2> HIDE DEF n, from, to
  <2> QED BY <1>1, <1>2, <2>2, <2>3
<1>4. Greatest(S) \in S
  <2>1. S \in SUBSET (0..from) /\ 0 \in S
    BY <1>2
  <2> QED BY <1>2, <2>1, GreatestIsGreatest
<1>5. Least(E) \in E
  <2>1. E \in SUBSET Nat /\ n \in E
    BY <1>1, <1>3
  <2> QED BY <2>1, LeastIsLeast
<1>6. Excerpt(text, at, length) = Part(text, Greatest(S), Least(E))
  BY DEF Excerpt, Part
<1>7. Greatest(S) \in 0..n /\ Greatest(S) <= from /\ Boundary(text, Greatest(S))
  BY <1>1, <1>2, <1>4 DEF Boundary
<1>8. Least(E) \in 0..n /\ to <= Least(E) /\ Boundary(text, Least(E))
  BY <1>1, <1>3, <1>5 DEF Boundary
<1> HIDE DEF S, E, from, to
<1>9. /\ Greatest(S) < Least(E) /\ (Greatest(S) = 0 \/ Greatest(S) + Radius <= at)
      /\ Least(E) = n \/ at + length + Radius <= Least(E)
  BY <1>1, <1>2, <1>3, <1>7, <1>8
<1> QED BY <1>6, <1>7, <1>8, <1>9

(* A part of a text between two boundaries is a text.                      *)
LEMMA PartIsText ==
  ASSUME NEW text, IsText(text), NEW start \in Nat, NEW end \in Nat, start < end,
         end <= Len(text), Boundary(text, start), Boundary(text, end)
  PROVE  IsText(Part(text, start, end)) /\ Part(text, start, end) # <<>>
<1> DEFINE n == Len(text)
           x == Part(text, start, end)
<1>1. text \in Seq(Byte) /\ n \in Nat
  BY LenProperties DEF IsText
<1>2. /\ x \in Seq(Byte) /\ Len(x) = end - start
      /\ \A i \in 1..(end - start) : x[i] = text[start + i]
  BY <1>1, PartType DEF Part
<1>3. \A byte : Width(byte) \in 1..3
  BY DEF Width
<1>4. /\ text # <<>> => text[1] # "c"
      /\ \A i \in 1..n : text[i] # "c" => IsRune(text, i, i + Width(text[i]))
  BY DEF IsText
<1>5. text # <<>> /\ x # <<>>
  <2>1. n # 0 /\ end - start # 0
    BY <1>1
  <2> QED BY <1>1, <1>2, <2>1, EmptySeq
<1>6. x[1] # "c"
  <2>1. x[1] = text[start + 1]
    BY <1>2
  <2>2. CASE start = 0
    BY <1>4, <1>5, <2>1, <2>2
  <2>3. CASE RuneStart(text, start)
    BY <2>1, <2>3 DEF RuneStart
  <2> QED BY <1>1, <2>2, <2>3 DEF Boundary
<1>7. ASSUME NEW i \in 1..Len(x), x[i] # "c" PROVE IsRune(x, i, i + Width(x[i]))
  <2> DEFINE w == Width(x[i])
             k == start + i
  <2>1. i \in 1..(end - start) /\ k \in 1..n /\ k <= end /\ x[i] = text[k]
    BY <1>1, <1>2
  <2>2. w \in 1..3 /\ w = Width(text[k])
    BY <1>3, <2>1
  <2>3. /\ k + w <= n + 1
        /\ \A j \in (k + 1)..(k + w - 1) : text[j] = "c"
        /\ k + w <= n => text[k + w] # "c"
    BY <1>4, <1>7, <2>1, <2>2 DEF IsRune
  <2> HIDE DEF w, n
  <2>4. k + w <= end + 1
    <3> SUFFICES ASSUME k + w > end + 1 PROVE FALSE
      BY <2>1, <2>2
    <3>1. end < n /\ end # 0 /\ end + 1 \in (k + 1)..(k + w - 1)
      BY <1>1, <2>1, <2>2, <2>3
    <3>2. text[end + 1] # "c"
      BY <3>1 DEF Boundary, RuneStart, n
    <3> QED BY <2>3, <3>1, <3>2
  <2>5. i + w <= Len(x) + 1
    BY <1>2, <2>2, <2>4
  <2>6. ASSUME NEW j \in (i + 1)..(i + w - 1) PROVE x[j] = "c"
    <3>1. j \in 1..(end - start) /\ start + j \in (k + 1)..(k + w - 1)
      BY <1>2, <2>1, <2>2, <2>5
    <3> QED BY <1>2, <2>3, <3>1
  <2>7. ASSUME i + w <= Len(x) PROVE x[i + w] # "c"
    <3>1. i + w \in 1..(end - start) /\ start + (i + w) = k + w
      BY <1>2, <2>1, <2>2, <2>7
    <3>2. k + w <= n
      BY <1>1, <1>2, <2>1, <2>2, <2>7 DEF n
    <3> QED BY <1>2, <2>3, <3>1, <3>2
  <2> HIDE DEF x
  <2>8. IsRune(x, i, i + w)
    BY <1>2, <2>1, <2>2, <2>5, <2>6, <2>7 DEF IsRune
  <2> QED BY <2>8 DEF w
<1>8. x \in Seq(Byte)
  BY <1>2
<1> HIDE DEF x
<1>9. IsText(x)
  BY <1>6, <1>7, <1>8 DEF IsText
<1> QED BY <1>5, <1>9 DEF x

(* What occurs in the middle of three, and nowhere else, occurs there.     *)
LEMMA InTheMiddle ==
  ASSUME NEW a \in Seq(Byte), NEW x \in Seq(Byte), NEW b \in Seq(Byte), NEW needle \in Seq(Byte),
         NEW at \in Nat, At((a \o x) \o b, at, needle),
         Len(a) <= at, at + Len(needle) <= Len(a \o x)
  PROVE  Occurs(x, needle)
<1> DEFINE low == (a \o x) \o b
           m == Len(needle)
           start == Len(a)
           length == Len(x)
           i == at - start
<1>1. start \in Nat /\ length \in Nat /\ m \in Nat
  BY LenProperties
<1>2. a \o x \in Seq(Byte) /\ Len(a \o x) = start + length
      /\ \A j \in 1..(start + length) : (a \o x)[j] = IF j <= start THEN a[j] ELSE x[j - start]
  BY ConcatProperties
<1>3. low \in Seq(Byte) /\ Len(low) = start + length + Len(b) /\ Len(b) \in Nat
      /\ \A j \in 1..(start + length + Len(b)) :
           low[j] = IF j <= start + length THEN (a \o x)[j] ELSE b[j - (start + length)]
  BY <1>2, ConcatProperties, LenProperties
<1>4. i \in Nat /\ i + m \in Nat /\ i <= i + m /\ i + m <= length
  BY <1>1, <1>2
<1>5. \A j \in 1..m : low[at + j] = x[i + j]
  <2> TAKE j \in 1..m
  <2>1. at + j \in 1..(start + length) /\ at + j \in 1..(start + length + Len(b)) /\ ~(at + j <= start)
        /\ at + j - start = i + j
    BY <1>1, <1>2, <1>3, <1>4
  <2>2. low[at + j] = (a \o x)[at + j]
    BY <1>1, <1>3, <2>1
  <2>3. (a \o x)[at + j] = x[at + j - start]
    BY <1>2, <2>1
  <2> QED BY <2>1, <2>2, <2>3
<1>6. at + m \in Nat /\ at <= at + m /\ at + m <= Len(low) /\ at + m - at = m /\ i + m - i = m
  BY <1>1, <1>2, <1>3, <1>4
<1>7. SubSeq(low, at + 1, at + m) = needle
  BY DEF At
<1> HIDE DEF low, i, m, length
<1>8. /\ SubSeq(x, i + 1, i + m) \in Seq(Byte) /\ Len(SubSeq(x, i + 1, i + m)) = m
      /\ \A j \in 1..m : SubSeq(x, i + 1, i + m)[j] = x[i + j]
  <2> DEFINE c == i + m
  <2>1. c \in Nat /\ i <= c /\ c <= Len(x) /\ c - i = m
    BY <1>1, <1>4, <1>6 DEF length
  <2> HIDE DEF c
  <2>2. /\ SubSeq(x, i + 1, c) \in Seq(Byte) /\ Len(SubSeq(x, i + 1, c)) = c - i
        /\ \A j \in 1..(c - i) : SubSeq(x, i + 1, c)[j] = x[i + j]
    BY <1>4, <2>1, PartType
  <2> QED BY <2>1, <2>2 DEF c
<1>9. \A j \in 1..m : SubSeq(low, at + 1, at + m)[j] = low[at + j]
  <2> DEFINE c == at + m
  <2>1. c \in Nat /\ at <= c /\ c <= Len(low) /\ c - at = m
    BY <1>1, <1>6 DEF m
  <2> HIDE DEF c
  <2>2. \A j \in 1..(c - at) : SubSeq(low, at + 1, c)[j] = low[at + j]
    BY <1>3, <2>1, PartType
  <2> QED BY <2>1, <2>2 DEF c
<1>10. \A j \in 1..m : SubSeq(x, i + 1, i + m)[j] = needle[j]
  BY <1>5, <1>7, <1>8, <1>9
<1>11. SubSeq(x, i + 1, i + m) = needle
  BY <1>8, <1>10, SeqEqual DEF m
<1>12. At(x, i, needle) /\ i \in 0..Len(x)
  BY <1>1, <1>4, <1>11 DEF At, m, length
<1> QED BY <1>12 DEF Occurs

-----------------------------------------------------------------------------
(* Types *)

USE NotesAssumption

(* A request that is not out is Idle, all of it.                           *)
Blank(y) == \A r \in Save : y[r].stage = "idle" => y[r] = Idle

(* What TypeOK says of all but the screen.                                 *)
DataOK ==
  /\ store \in Html
  /\ editor \in [Editor -> EditorState]
  /\ request \in [Editor -> [Save -> Request]]
  /\ orderly \subseteq Editor /\ deaf \subseteq Editor

TypeInv == DataOK /\ \A e \in Editor : Blank(request[e])

LEMMA IdleType == Idle \in Request /\ Idle.stage = "idle"
BY DEF Idle, Request

LEMMA InitType == Init => TypeInv
<1>1. Unmounted \in EditorState
  BY DEF Unmounted, EditorState
<1> QED BY <1>1, IdleType DEF Init, TypeInv, DataOK, Blank

(* A step of one editor keeps the types if what it makes of the editor and *)
(* of its requests has them.                                               *)
LEMMA OneType ==
  ASSUME TypeInv, NEW e \in Editor, NEW x \in EditorState, NEW y \in [Save -> Request], Blank(y),
         editor' = [editor EXCEPT ![e] = x], request' = [request EXCEPT ![e] = y],
         store' \in Html, orderly' \subseteq orderly, deaf' \subseteq deaf \cup {e}
  PROVE  TypeInv'
BY DEF TypeInv, DataOK, Blank

-----------------------------------------------------------------------------
(* What is true of an editor in good order: of its state, its requests, the *)
(* stored note, and whether it was told of a failure that was none.         *)

Quiet(y) == \A r \in Save : y[r] = Idle

(* Of a request that is out, and the only one.                             *)
OutGood(x, q, s, told) ==
  /\ q.stage \in {"sent", "stored"} => x.said # "" /\ x.lastSent = q.html
  /\ q.stage = "sent" /\ ~told => Same(s, q.previous)
  /\ q.stage = "stored" => s = Clean(q.html)
  /\ q.stage = "orphan" => told /\ x.said # "saved"

Good(x, y, s, told) ==
  /\ \A r, q \in Save : y[r] # Idle /\ y[q] # Idle => r = q
  /\ \A r \in Save : OutGood(x, y[r], s, told)
  /\ x.load # "loaded" => Quiet(y) /\ x.text = x.lastSent /\ ~x.timer /\ x.said = ""
  /\ x.load = "read" => x.read = s
  /\ x.load = "loaded" /\ ~x.timer /\ x.said # "" => Same(x.text, x.lastSent)
  /\ x.load = "loaded" /\ Quiet(y) /\ (~told \/ x.said = "saved") => Same(s, x.lastSent)

OrderInv == \A e \in orderly : Good(editor[e], request[e], store, e \in deaf)

LEMMA InitOrder == Init => OrderInv
<1> SUFFICES ASSUME Init, NEW e \in Editor
             PROVE  Good(editor[e], request[e], store, e \in deaf)
  BY DEF Init, OrderInv
<1>1. editor[e] = Unmounted /\ \A r \in Save : request[e][r] = Idle
  BY DEF Init
<1>2. Quiet(request[e])
  BY <1>1 DEF Quiet
<1>3. \A r \in Save : OutGood(editor[e], request[e][r], store, e \in deaf)
  BY <1>1, IdleType DEF OutGood
<1>4. /\ editor[e].load = "no" /\ editor[e].text = editor[e].lastSent
      /\ ~editor[e].timer /\ editor[e].said = ""
  <2>1. /\ Unmounted.load = "no" /\ Unmounted.text = Unmounted.lastSent
        /\ Unmounted.timer = FALSE /\ Unmounted.said = ""
    BY DEF Unmounted
  <2> QED BY <1>1, <2>1
<1> QED BY <1>2, <1>3, <1>4 DEF Good, Quiet

(* The note of an editor that has not read it yet may change.              *)
LEMMA OtherGood ==
  ASSUME NEW x, NEW y, NEW s, NEW t, NEW told, Good(x, y, s, told), x.load \in {"no", "out"}
  PROVE  Good(x, y, t, told)
BY IdleType DEF Good, OutGood, Quiet

LEMMA OneOrder ==
  ASSUME TypeInv, OrderInv, NEW e \in Editor, NEW x, NEW y,
         editor' = [editor EXCEPT ![e] = x], request' = [request EXCEPT ![e] = y],
         orderly' \subseteq orderly, deaf' \in {deaf, deaf \cup {e}},
         store' = store \/ \A d \in orderly' \ {e} : editor[d].load \in {"no", "out"},
         e \in orderly' => Good(x, y, store', e \in deaf')
  PROVE  OrderInv'
<1> SUFFICES ASSUME NEW d \in orderly'
             PROVE  Good(editor'[d], request'[d], store', d \in deaf')
  BY DEF OrderInv
<1>1. d \in Editor /\ d \in orderly
  BY DEF TypeInv, DataOK
<1>2. CASE d = e
  BY <1>1, <1>2 DEF TypeInv, DataOK
<1>3. CASE d # e
  <2>1. editor'[d] = editor[d] /\ request'[d] = request[d] /\ (d \in deaf') = (d \in deaf)
    BY <1>1, <1>3 DEF TypeInv, DataOK
  <2>2. Good(editor[d], request[d], store, d \in deaf)
    BY <1>1 DEF OrderInv
  <2>3. CASE store' = store
    BY <2>1, <2>2, <2>3
  <2>4. CASE editor[d].load \in {"no", "out"}
    BY <2>1, <2>2, <2>4, OtherGood
  <2> QED BY <1>3, <2>3, <2>4
<1> QED BY <1>2, <1>3

Inv == TypeInv /\ OrderInv

(* The two together.                                                       *)
LEMMA OneStep ==
  ASSUME Inv, NEW e \in Editor, NEW x \in EditorState, NEW y \in [Save -> Request], Blank(y),
         editor' = [editor EXCEPT ![e] = x], request' = [request EXCEPT ![e] = y],
         store' \in Html, orderly' \subseteq orderly, deaf' \in {deaf, deaf \cup {e}},
         store' = store \/ \A d \in orderly' \ {e} : editor[d].load \in {"no", "out"},
         e \in orderly' => Good(x, y, store', e \in deaf')
  PROVE  Inv'
BY OneType, OneOrder DEF Inv

(* Where only the editor's own state changes.                              *)
LEMMA EditorStep ==
  ASSUME Inv, NEW e \in Editor, NEW x \in EditorState,
         editor' = [editor EXCEPT ![e] = x], UNCHANGED <<store, request, deaf>>,
         orderly' \subseteq orderly,
         e \in orderly' => Good(x, request[e], store, e \in deaf)
  PROVE  Inv'
<1>1. request[e] \in [Save -> Request] /\ Blank(request[e]) /\ store \in Html
  BY DEF Inv, TypeInv, DataOK
<1>2. request' = [request EXCEPT ![e] = request[e]]
  BY DEF Inv, TypeInv, DataOK
<1> QED BY <1>1, <1>2, OneStep

-----------------------------------------------------------------------------
LEMMA LoadStep ==
  ASSUME Inv, NEW e \in Editor, Mount(e) \/ Leave(e) \/ GetNote(e) \/ Loaded(e) \/ LoadFails(e) \/ Focus(e)
  PROVE  Inv'
<1> DEFINE ed == editor[e]
<1>1. ed \in EditorState /\ store \in Html /\ Empty \in Html
  BY DEF Inv, TypeInv, DataOK
<1>2. e \in orderly => Good(ed, request[e], store, e \in deaf)
  BY DEF Inv, OrderInv
<1>3. ASSUME NEW x \in EditorState, editor' = [editor EXCEPT ![e] = x],
             UNCHANGED <<store, request, orderly, deaf>>,
             Good(ed, request[e], store, e \in deaf) => Good(x, request[e], store, e \in deaf)
      PROVE  Inv'
  BY <1>2, <1>3, EditorStep
<1>4. CASE Mount(e)
  <2> DEFINE x == [ed EXCEPT !.load = "out"]
  <2>1. x \in EditorState /\ editor' = [editor EXCEPT ![e] = x] /\ ed.load = "no"
    BY <1>1, <1>4 DEF Mount, EditorState
  <2>2. Good(ed, request[e], store, e \in deaf) => Good(x, request[e], store, e \in deaf)
    BY <1>1, <2>1 DEF Good, OutGood, EditorState
  <2> QED BY <1>3, <1>4, <2>1, <2>2 DEF Mount
<1>5. CASE GetNote(e)
  <2> DEFINE x == [ed EXCEPT !.load = "read", !.read = store]
  <2>1. x \in EditorState /\ editor' = [editor EXCEPT ![e] = x] /\ ed.load = "out"
    BY <1>1, <1>5 DEF GetNote, EditorState
  <2>2. Good(ed, request[e], store, e \in deaf) => Good(x, request[e], store, e \in deaf)
    BY <1>1, <2>1 DEF Good, OutGood, EditorState
  <2> QED BY <1>3, <1>5, <2>1, <2>2 DEF GetNote
<1>6. CASE Loaded(e)
  <2> DEFINE x == [ed EXCEPT !.load = "loaded", !.read = Empty, !.text = Reread(ed.read),
                             !.lastSent = ed.read, !.said = "saved"]
  <2>1. ed.read \in Html /\ Reread(ed.read) \in Html
    BY <1>1 DEF EditorState
  <2>2. x \in EditorState /\ editor' = [editor EXCEPT ![e] = x] /\ ed.load = "read"
    BY <1>1, <1>6, <2>1 DEF Loaded, EditorState
  <2>3. Same(Reread(ed.read), ed.read)
    BY <2>1, SpellingAssumption
  <2>4. ASSUME Good(ed, request[e], store, e \in deaf)
        PROVE  Good(x, request[e], store, e \in deaf)
    <3>1. Quiet(request[e]) /\ ed.read = store /\ ~ed.timer
      BY <2>2, <2>4 DEF Good
    <3>2. /\ x.load = "loaded" /\ x.text = Reread(ed.read) /\ x.lastSent = store /\ ~x.timer
      BY <1>1, <3>1 DEF EditorState
    <3>3. Same(x.text, x.lastSent) /\ Same(store, x.lastSent)
      BY <2>3, <3>1, <3>2 DEF Same
    <3>4. \A r \in Save : OutGood(x, request[e][r], store, e \in deaf)
      BY <3>1, IdleType DEF OutGood, Quiet
    <3> HIDE DEF x
    <3> QED BY <3>1, <3>2, <3>3, <3>4 DEF Good, Quiet
  <2> HIDE DEF x
  <2> QED BY <1>3, <1>6, <2>2, <2>4 DEF Loaded
<1>7. CASE LoadFails(e)
  <2> DEFINE x == [ed EXCEPT !.load = "failed", !.read = Empty]
  <2>1. x \in EditorState /\ editor' = [editor EXCEPT ![e] = x] /\ ed.load \in {"out", "read"}
    BY <1>1, <1>7 DEF LoadFails, EditorState
  <2>2. Good(ed, request[e], store, e \in deaf) => Good(x, request[e], store, e \in deaf)
    BY <1>1, <2>1 DEF Good, OutGood, EditorState
  <2> QED BY <1>3, <1>7, <2>1, <2>2 DEF LoadFails
<1>8. CASE Focus(e)
  <2> DEFINE x == [ed EXCEPT !.focus = TRUE]
  <2>1. x \in EditorState /\ editor' = [editor EXCEPT ![e] = x]
    BY <1>1, <1>8 DEF Focus, EditorState
  <2>2. Good(ed, request[e], store, e \in deaf) => Good(x, request[e], store, e \in deaf)
    BY <1>1, <2>1 DEF Good, OutGood, EditorState
  <2> QED BY <1>3, <1>8, <2>1, <2>2 DEF Focus
<1>9. CASE Leave(e)
  <2> DEFINE x == [ed EXCEPT !.focus = FALSE]
  <2>1. x \in EditorState /\ editor' = [editor EXCEPT ![e] = x]
    BY <1>1, <1>9 DEF Leave, EditorState
  <2>2. Good(ed, request[e], store, e \in deaf) => Good(x, request[e], store, e \in deaf)
    BY <1>1, <2>1 DEF Good, OutGood, EditorState
  <2> QED BY <1>3, <1>9, <2>1, <2>2 DEF Leave
<1> QED BY <1>4, <1>5, <1>6, <1>7, <1>8, <1>9

LEMMA TypeStep ==
  ASSUME Inv, NEW e \in Editor, NEW h \in Typed, Type(e, h)
  PROVE  Inv'
<1> DEFINE ed == editor[e]
           x == [ed EXCEPT !.text = h, !.timer = TRUE, !.said = "unsaved"]
<1>1. ed \in EditorState /\ h \in Html /\ ed.focus
  BY DEF Inv, TypeInv, DataOK, Type
<1>2. x \in EditorState /\ editor' = [editor EXCEPT ![e] = x]
  BY <1>1 DEF Type, EditorState
<1>3. UNCHANGED <<store, request, deaf>> /\ orderly' \subseteq orderly
  BY DEF Type
<1>4. ASSUME e \in orderly' PROVE Good(x, request[e], store, e \in deaf)
  <2>1. e \in orderly /\ ed.load = "loaded"
    BY <1>4 DEF Type
  <2>2. Good(ed, request[e], store, e \in deaf)
    BY <2>1 DEF Inv, OrderInv
  <2>3. /\ x.load = "loaded" /\ x.timer /\ x.focus /\ x.said = "unsaved" /\ x.lastSent = ed.lastSent
    BY <1>1, <2>1 DEF EditorState
  <2> HIDE DEF x
  <2> QED BY <2>1, <2>2, <2>3 DEF Good, OutGood
<1> HIDE DEF x
<1> QED BY <1>2, <1>3, <1>4, EditorStep

(* A save, by the timer, by leaving the editor or by the button.           *)
LEMMA SaveStep ==
  ASSUME Inv, NEW e \in Editor, NEW f \in BOOLEAN, SaveNow(e, f)
  PROVE  Inv'
<1> DEFINE ed == [editor[e] EXCEPT !.timer = FALSE, !.focus = f]
<1>1. /\ editor[e] \in EditorState /\ ed \in EditorState /\ ed.text = editor[e].text
      /\ ed.lastSent = editor[e].lastSent /\ ed.load = editor[e].load
      /\ ed.said = editor[e].said /\ ed.read = editor[e].read /\ ~ed.timer
      /\ request[e] \in [Save -> Request] /\ Blank(request[e]) /\ store \in Html
  BY DEF Inv, TypeInv, DataOK, EditorState
<1>2. e \in orderly => Good(editor[e], request[e], store, e \in deaf)
  BY DEF Inv, OrderInv
<1>3. CASE ed.text = ed.lastSent
  <2>1. editor' = [editor EXCEPT ![e] = ed] /\ UNCHANGED <<store, request, orderly, deaf>>
    BY <1>3 DEF SaveNow
  <2> HIDE DEF ed
  <2>2. e \in orderly => Good(ed, request[e], store, e \in deaf)
    BY <1>1, <1>2, <1>3 DEF Good, OutGood, Same
  <2> QED BY <1>1, <2>1, <2>2, EditorStep
<1>4. CASE ed.text # ed.lastSent
  <2> DEFINE x == [ed EXCEPT !.lastSent = ed.text, !.said = "saving"]
             new == [stage |-> "sent", html |-> ed.text, previous |-> ed.lastSent]
  <2>1. PICK r \in Save : /\ request[e][r] = Idle
                          /\ request' = [request EXCEPT ![e][r] = new]
    BY <1>4 DEF SaveNow
  <2> DEFINE y == [request[e] EXCEPT ![r] = new]
  <2>2. editor' = [editor EXCEPT ![e] = x] /\ UNCHANGED <<store, deaf>>
    BY <1>4 DEF SaveNow
  <2>3. request' = [request EXCEPT ![e] = y]
    BY <2>1
  <2>4. orderly' \subseteq orderly /\ (e \in orderly' => e \in orderly /\ Resting(e) /\ ed.load = "loaded")
    BY <1>4 DEF SaveNow
  <2>5. /\ x \in EditorState /\ x.text = ed.text /\ x.lastSent = ed.text /\ x.said = "saving"
        /\ x.load = ed.load /\ ~x.timer
    BY <1>1 DEF EditorState
  <2>6. /\ new \in Request /\ new.stage = "sent" /\ new.html = ed.text /\ new.previous = ed.lastSent
    BY <1>1 DEF Request, EditorState
  <2>7. /\ y \in [Save -> Request] /\ y[r] = new /\ \A q \in Save \ {r} : y[q] = request[e][q]
    BY <1>1, <2>6
  <2> HIDE DEF ed, x, y, new
  <2>8. Blank(y)
    BY <1>1, <2>6, <2>7 DEF Blank
  <2>9. ASSUME e \in orderly' PROVE Good(x, y, store, e \in deaf)
    <3>1. Quiet(request[e]) /\ ed.load = "loaded" /\ Good(editor[e], request[e], store, e \in deaf)
      BY <1>2, <2>4, <2>9 DEF Resting, Quiet
    <3>2. e \notin deaf => Same(store, ed.lastSent)
      BY <1>1, <3>1 DEF Good
    <3>3. \A q \in Save \ {r} : y[q] = Idle
      BY <2>7, <3>1 DEF Quiet
    <3>4. \A q \in Save : OutGood(x, y[q], store, e \in deaf)
      BY <2>5, <2>6, <2>7, <3>2, <3>3, IdleType DEF OutGood
    <3>5. ~Quiet(y)
      BY <2>6, <2>7, IdleType DEF Quiet
    <3> QED BY <2>5, <3>1, <3>3, <3>4, <3>5 DEF Good, Same
  <2> QED BY <1>1, <2>2, <2>3, <2>4, <2>5, <2>7, <2>8, <2>9, OneStep
<1> QED BY <1>3, <1>4

-----------------------------------------------------------------------------
(* What a request turns into when its answer has come, or will not.        *)
LEMMA RequestStep ==
  ASSUME Inv, NEW e \in Editor, NEW r \in Save, NEW q \in Request,
         q.stage = "idle" => q = Idle
  PROVE  LET y == [request[e] EXCEPT ![r] = q]
         IN  /\ y \in [Save -> Request] /\ Blank(y) /\ y[r] = q
             /\ \A p \in Save \ {r} : y[p] = request[e][p]
             /\ [request EXCEPT ![e][r] = q] = [request EXCEPT ![e] = y]
BY DEF Inv, TypeInv, DataOK, Blank

(* The only request of an editor in good order.                            *)
LEMMA OnlyOne ==
  ASSUME Inv, NEW e \in Editor, NEW r \in Save, e \in orderly, request[e][r].stage # "idle"
  PROVE  /\ Good(editor[e], request[e], store, e \in deaf)
         /\ OutGood(editor[e], request[e][r], store, e \in deaf)
         /\ editor[e].load = "loaded"
         /\ \A p \in Save \ {r} : request[e][p] = Idle
<1>1. Good(editor[e], request[e], store, e \in deaf)
  BY DEF Inv, OrderInv
<1>2. request[e][r] # Idle
  BY IdleType
<1> QED BY <1>1, <1>2 DEF Good, Quiet

LEMMA StoreStep ==
  ASSUME Inv, NEW e \in Editor, NEW r \in Save, SetNote(e, r) \/ Orphan(e, r)
  PROVE  Inv'
<1> DEFINE q == request[e][r]
           q1 == IF q.stage = "sent" THEN [q EXCEPT !.stage = "stored"] ELSE Idle
           y == [request[e] EXCEPT ![r] = q1]
<1>1. q \in Request /\ q.stage \in {"sent", "orphan"} /\ editor[e] \in EditorState
  BY DEF SetNote, Orphan, Inv, TypeInv, DataOK
<1>2. /\ q1 \in Request /\ (q1.stage = "idle" => q1 = Idle)
      /\ q.stage = "sent" => q1.stage = "stored" /\ q1.html = q.html
  BY <1>1, IdleType DEF Request
<1>3. /\ store' = Clean(q.html) /\ deaf' = deaf
      /\ orderly' = {d \in orderly : d \in {e} \/ editor[d].load \in {"no", "out"}}
      /\ editor' = editor
  BY DEF SetNote, Orphan, Stored
<1>4. request' = [request EXCEPT ![e][r] = q1]
  BY <1>1 DEF SetNote, Orphan
<1>5. store' \in Html /\ q.html \in Html
  BY <1>1, <1>3 DEF Request
<1>6. editor' = [editor EXCEPT ![e] = editor[e]]
  BY <1>3 DEF Inv, TypeInv, DataOK
<1>7. /\ y \in [Save -> Request] /\ Blank(y) /\ y[r] = q1
      /\ \A p \in Save \ {r} : y[p] = request[e][p]
      /\ request' = [request EXCEPT ![e] = y]
  <2> HIDE DEF q1
  <2> QED BY <1>2, <1>4, RequestStep
<1>8. ASSUME e \in orderly' PROVE Good(editor[e], y, store', e \in deaf')
  <2>1. /\ Good(editor[e], request[e], store, e \in deaf) /\ OutGood(editor[e], q, store, e \in deaf)
        /\ editor[e].load = "loaded" /\ \A p \in Save \ {r} : request[e][p] = Idle
    BY <1>1, <1>3, <1>8, OnlyOne
  <2>2. \A p \in Save \ {r} : y[p] = Idle
    BY <1>7, <2>1
  <2>3. CASE q.stage = "sent"
    <3>1. OutGood(editor[e], q1, store', e \in deaf')
      BY <1>2, <1>3, <2>1, <2>3 DEF OutGood
    <3>2. ~Quiet(y)
      BY <1>2, <1>7, <2>3, IdleType DEF Quiet
    <3> HIDE DEF y, q1
    <3>3. \A p \in Save : OutGood(editor[e], y[p], store', e \in deaf')
      BY <1>7, <2>2, <3>1, IdleType DEF OutGood
    <3> QED BY <2>1, <2>2, <3>2, <3>3 DEF Good
  <2>4. CASE q.stage = "orphan"
    <3>1. q1 = Idle /\ e \in deaf' /\ editor[e].said # "saved"
      BY <1>3, <2>1, <2>4 DEF OutGood
    <3> HIDE DEF y, q1
    <3>2. \A p \in Save : y[p] = Idle
      BY <1>7, <2>2, <3>1
    <3>3. \A p \in Save : OutGood(editor[e], y[p], store', e \in deaf')
      BY <3>2, IdleType DEF OutGood
    <3> QED BY <2>1, <3>1, <3>2, <3>3 DEF Good
  <2> QED BY <1>1, <2>3, <2>4
<1> HIDE DEF y, q1
<1>9. orderly' \subseteq orderly /\ \A d \in orderly' \ {e} : editor[d].load \in {"no", "out"}
  BY <1>3
<1> QED BY <1>1, <1>3, <1>5, <1>6, <1>7, <1>8, <1>9, OneStep

LEMMA AnsweredStep ==
  ASSUME Inv, NEW e \in Editor, NEW r \in Save, Answered(e, r)
  PROVE  Inv'
<1> DEFINE q == request[e][r]
           ed == editor[e]
           adopts == ~ed.focus /\ Clean(q.html) # q.html
           x == [ed EXCEPT !.said = "saved",
                           !.text = IF adopts THEN Reread(Clean(q.html)) ELSE @,
                           !.lastSent = IF adopts THEN Clean(q.html) ELSE @]
           y == [request[e] EXCEPT ![r] = Idle]
<1>1. q \in Request /\ q.stage = "stored" /\ ed \in EditorState /\ store \in Html
  BY DEF Answered, Inv, TypeInv, DataOK
<1>2. q.html \in Html /\ Clean(q.html) \in Html /\ Reread(Clean(q.html)) \in Html
  BY <1>1 DEF Request
<1>3. /\ x \in EditorState /\ x.load = ed.load /\ x.timer = ed.timer /\ x.focus = ed.focus
      /\ x.said = "saved" /\ x.read = ed.read
      /\ x.text = IF adopts THEN Reread(Clean(q.html)) ELSE ed.text
      /\ x.lastSent = IF adopts THEN Clean(q.html) ELSE ed.lastSent
  BY <1>1, <1>2 DEF EditorState
<1>4. editor' = [editor EXCEPT ![e] = x] /\ UNCHANGED <<store, orderly, deaf>>
  BY DEF Answered
<1>5. /\ y \in [Save -> Request] /\ Blank(y) /\ y[r] = Idle
      /\ \A p \in Save \ {r} : y[p] = request[e][p]
      /\ request' = [request EXCEPT ![e] = y]
  BY IdleType, RequestStep DEF Answered
<1>6. ASSUME e \in orderly PROVE Good(x, y, store, e \in deaf)
  <2>1. /\ Good(ed, request[e], store, e \in deaf) /\ OutGood(ed, q, store, e \in deaf)
        /\ ed.load = "loaded" /\ \A p \in Save \ {r} : request[e][p] = Idle
    BY <1>1, <1>6, OnlyOne
  <2>2. ed.said # "" /\ ed.lastSent = q.html /\ store = Clean(q.html)
    BY <1>1, <2>1 DEF OutGood
  <2>3. Same(Clean(q.html), q.html) /\ Same(Reread(Clean(q.html)), Clean(q.html))
    BY <1>2, SpellingAssumption
  <2> HIDE DEF x, y
  <2>4. \A p \in Save : y[p] = Idle
    BY <1>5, <2>1
  <2>5. \A p \in Save : OutGood(x, y[p], store, e \in deaf)
    BY <2>4, IdleType DEF OutGood
  <2>6. Same(store, x.lastSent)
    BY <1>3, <2>2, <2>3 DEF Same
  <2>7. ~x.timer => Same(x.text, x.lastSent)
    BY <1>3, <2>1, <2>2, <2>3 DEF Good
  <2> QED BY <1>3, <2>1, <2>4, <2>5, <2>6, <2>7 DEF Good
<1> HIDE DEF x, y
<1> QED BY <1>1, <1>3, <1>4, <1>5, <1>6, OneStep

(* A failure the editor is told of.                                        *)
LEMMA FailedStep ==
  ASSUME Inv, NEW e \in Editor, NEW r \in Save, Refused(e, r) \/ AnswerLost(e, r)
  PROVE  Inv'
<1> DEFINE q == request[e][r]
           ed == editor[e]
           x == [ed EXCEPT !.lastSent = q.previous, !.said = ""]
           q1 == IF AnswerLost(e, r) /\ q.stage = "sent" THEN [q EXCEPT !.stage = "orphan"] ELSE Idle
           y == [request[e] EXCEPT ![r] = q1]
<1>1. q \in Request /\ q.stage \in {"sent", "stored"} /\ ed \in EditorState /\ store \in Html
  BY DEF Refused, AnswerLost, Inv, TypeInv, DataOK
<1>2. /\ x \in EditorState /\ x.load = ed.load /\ x.timer = ed.timer /\ x.focus = ed.focus
      /\ x.said = "" /\ x.read = ed.read /\ x.text = ed.text /\ x.lastSent = q.previous
  BY <1>1 DEF EditorState, Request
<1>3. /\ q1 \in Request /\ (q1.stage = "idle" => q1 = Idle) /\ q1.stage \in {"idle", "orphan"}
      /\ q1 # Idle => AnswerLost(e, r)
  BY <1>1, IdleType DEF Request
<1>4. /\ editor' = [editor EXCEPT ![e] = x] /\ UNCHANGED <<store, orderly>>
      /\ deaf' \in {deaf, deaf \cup {e}}
      /\ AnswerLost(e, r) => e \in deaf'
      /\ Refused(e, r) => q.stage = "sent"
  BY DEF Refused, AnswerLost, Told
<1>5. request' = [request EXCEPT ![e][r] = q1]
  <2>1. CASE AnswerLost(e, r)
    BY <1>1, <2>1 DEF AnswerLost
  <2>2. CASE ~AnswerLost(e, r)
    BY <2>2 DEF Refused
  <2> QED BY <2>1, <2>2
<1> HIDE DEF x, q1
<1>6. /\ y \in [Save -> Request] /\ Blank(y) /\ y[r] = q1
      /\ \A p \in Save \ {r} : y[p] = request[e][p]
      /\ request' = [request EXCEPT ![e] = y]
  BY <1>3, <1>5, RequestStep
<1>7. ASSUME e \in orderly PROVE Good(x, y, store, e \in deaf')
  <2>1. /\ Good(ed, request[e], store, e \in deaf) /\ OutGood(ed, q, store, e \in deaf)
        /\ ed.load = "loaded" /\ \A p \in Save \ {r} : request[e][p] = Idle
    BY <1>1, <1>7, OnlyOne
  <2> HIDE DEF y
  <2>2. \A p \in Save \ {r} : y[p] = Idle
    BY <1>6, <2>1
  <2>3. \A p \in Save : OutGood(x, y[p], store, e \in deaf')
    BY <1>2, <1>3, <1>4, <1>6, <2>2, IdleType DEF OutGood
  <2>4. e \notin deaf' => Same(store, q.previous)
    BY <1>4, <2>1 DEF OutGood
  <2> QED BY <1>2, <2>1, <2>2, <2>3, <2>4 DEF Good
<1> HIDE DEF y
<1> QED BY <1>1, <1>2, <1>4, <1>6, <1>7, OneStep

LEMMA ElsewhereStep ==
  ASSUME Inv, NEW h \in Typed, SavedElsewhere(h)
  PROVE  Inv'
<1>1. /\ store' = Clean(h) /\ UNCHANGED <<editor, request, deaf>>
      /\ orderly' = {e \in orderly : editor[e].load \in {"no", "out"}}
  BY DEF SavedElsewhere, Stored
<1>2. TypeInv'
  BY <1>1 DEF Inv, TypeInv, DataOK
<1>3. OrderInv'
  <2> SUFFICES ASSUME NEW d \in orderly'
               PROVE  Good(editor[d], request[d], store', d \in deaf)
    BY <1>1 DEF OrderInv
  <2>1. Good(editor[d], request[d], store, d \in deaf) /\ editor[d].load \in {"no", "out"}
    BY <1>1 DEF Inv, OrderInv
  <2> QED BY <2>1, OtherGood
<1> QED BY <1>2, <1>3 DEF Inv

LEMMA Step == Inv /\ [Next]_vars => Inv'
<1> SUFFICES ASSUME Inv, [Next]_vars PROVE Inv'
  OBVIOUS
<1>1. CASE UNCHANGED vars \/ Stray
  BY <1>1 DEF vars, Stray, Inv, TypeInv, DataOK, OrderInv
<1>2. ASSUME NEW e \in Editor, TimerFires(e) \/ Blur(e) \/ Click(e) PROVE Inv'
  <2>1. editor[e].focus \in BOOLEAN
    BY DEF Inv, TypeInv, DataOK, EditorState
  <2> QED BY <1>2, <2>1, SaveStep DEF TimerFires, Blur, Click
<1> QED BY <1>1, <1>2, LoadStep, TypeStep, StoreStep, AnsweredStep, FailedStep, ElsewhereStep DEF Next

LEMMA Invariant == Spec => []Inv
<1>1. Init => Inv
  BY InitType, InitOrder DEF Inv
<1> QED BY <1>1, Step, PTL DEF Spec

-----------------------------------------------------------------------------
(* The screen: who has the focus is mounted, and where there is something  *)
(* left to do on a mounted page, its editor has the focus.                 *)

OnScreen(e) ==
  /\ editor[e].focus => page = e
  /\ editor[e].timer /\ page = e => editor[e].focus
  /\ editor[e].load = "no" => ~editor[e].timer /\ page # e

PageInv ==
  /\ page \in Editor \cup {NoEditor} /\ label \in Editor \cup {NoEditor}
  /\ \A e \in Editor : OnScreen(e)

LEMMA InitPage == Init => PageInv
<1>1. Unmounted.focus = FALSE /\ Unmounted.timer = FALSE
  BY DEF Unmounted
<1> QED BY <1>1 DEF Init, PageInv, OnScreen

(* While the page stays.                                                   *)
LEMMA OnePage ==
  ASSUME TypeInv, PageInv, NEW e \in Editor, NEW x \in EditorState,
         editor' = [editor EXCEPT ![e] = x], page' = page, label' \in {label, e},
         x.focus => page = e, x.timer /\ page = e => x.focus,
         x.load = "no" => ~x.timer /\ page # e
  PROVE  PageInv'
<1>1. ASSUME NEW d \in Editor PROVE OnScreen(d)'
  <2>1. CASE d = e
    <3>1. editor'[d] = x
      BY <2>1 DEF TypeInv, DataOK
    <3> QED BY <2>1, <3>1 DEF OnScreen
  <2>2. CASE d # e
    <3>1. editor'[d] = editor[d]
      BY <2>2 DEF TypeInv, DataOK
    <3> QED BY <3>1 DEF PageInv, OnScreen
  <2> QED BY <2>1, <2>2
<1> QED BY <1>1 DEF PageInv

LEMMA SavePage ==
  ASSUME TypeInv, PageInv, NEW e \in Editor, NEW f \in BOOLEAN, SaveNow(e, f),
         f => editor[e].focus, ~f => editor[e].load # "no"
  PROVE  PageInv'
<1> DEFINE ed == [editor[e] EXCEPT !.timer = FALSE, !.focus = f]
           x == [ed EXCEPT !.lastSent = ed.text, !.said = "saving"]
<1>1. editor[e] \in EditorState /\ OnScreen(e)
  BY DEF TypeInv, DataOK, PageInv
<1>2. /\ ed \in EditorState /\ ed.load = editor[e].load /\ ~ed.timer /\ ed.focus = f
      /\ x \in EditorState /\ x.load = editor[e].load /\ ~x.timer /\ x.focus = f
  BY <1>1 DEF EditorState
<1>3. page' = page /\ label' \in {label, e} /\ \E y \in {ed, x} : editor' = [editor EXCEPT ![e] = y]
  BY DEF SaveNow, Says
<1> HIDE DEF ed, x
<1>4. PICK y \in {ed, x} : editor' = [editor EXCEPT ![e] = y]
  BY <1>3
<1>5. /\ y \in EditorState /\ y.load = editor[e].load /\ ~y.timer /\ y.focus = f
  BY <1>2, <1>4
<1>6. /\ y.focus => page = e
      /\ y.load = "no" => page # e
  BY <1>1, <1>5 DEF OnScreen
<1> QED BY <1>3, <1>4, <1>5, <1>6, OnePage

LEMMA LoadPage ==
  ASSUME TypeInv, PageInv, NEW e \in Editor,
         GetNote(e) \/ Loaded(e) \/ LoadFails(e) \/ Focus(e) \/ \E h \in Typed : Type(e, h)
  PROVE  PageInv'
<1> DEFINE ed == editor[e]
<1>1. ed \in EditorState /\ OnScreen(e) /\ store \in Html /\ Empty \in Html /\ Reread(ed.read) \in Html
  BY DEF TypeInv, DataOK, PageInv, EditorState
<1>2. ASSUME NEW x \in EditorState, editor' = [editor EXCEPT ![e] = x], page' = page,
             label' \in {label, e}, x.load # "no", x.timer = ed.timer, x.focus = ed.focus
      PROVE  PageInv'
  BY <1>1, <1>2, OnePage DEF OnScreen
<1>3. CASE GetNote(e)
  <2> DEFINE x == [ed EXCEPT !.load = "read", !.read = store]
  <2>1. x \in EditorState /\ x.load # "no" /\ x.timer = ed.timer /\ x.focus = ed.focus
    BY <1>1 DEF EditorState
  <2>2. editor' = [editor EXCEPT ![e] = x] /\ page' = page /\ label' \in {label, e}
    BY <1>3 DEF GetNote
  <2> QED BY <1>2, <2>1, <2>2
<1>4. CASE Loaded(e)
  <2> DEFINE x == [ed EXCEPT !.load = "loaded", !.read = Empty, !.text = Reread(ed.read),
                             !.lastSent = ed.read, !.said = "saved"]
  <2>1. x \in EditorState /\ x.load # "no" /\ x.timer = ed.timer /\ x.focus = ed.focus
    BY <1>1 DEF EditorState
  <2>2. editor' = [editor EXCEPT ![e] = x] /\ page' = page /\ label' \in {label, e}
    BY <1>4 DEF Loaded, Says
  <2> QED BY <1>2, <2>1, <2>2
<1>5. CASE LoadFails(e)
  <2> DEFINE x == [ed EXCEPT !.load = "failed", !.read = Empty]
  <2>1. x \in EditorState /\ x.load # "no" /\ x.timer = ed.timer /\ x.focus = ed.focus
    BY <1>1 DEF EditorState
  <2>2. editor' = [editor EXCEPT ![e] = x] /\ page' = page /\ label' \in {label, e}
    BY <1>5 DEF LoadFails
  <2> QED BY <1>2, <2>1, <2>2
<1>6. CASE Focus(e)
  <2> DEFINE x == [ed EXCEPT !.focus = TRUE]
  <2>1. x \in EditorState /\ x.load = ed.load /\ x.focus
    BY <1>1 DEF EditorState
  <2>2. editor' = [editor EXCEPT ![e] = x] /\ page' = page /\ label' \in {label, e} /\ page = e
    BY <1>6 DEF Focus
  <2> HIDE DEF x
  <2> QED BY <1>1, <2>1, <2>2, OnePage DEF OnScreen
<1>7. ASSUME NEW h \in Typed, Type(e, h) PROVE PageInv'
  <2> DEFINE x == [ed EXCEPT !.text = h, !.timer = TRUE, !.said = "unsaved"]
  <2>1. x \in EditorState /\ x.load = ed.load /\ x.focus = ed.focus /\ ed.focus
    BY <1>1, <1>7 DEF EditorState, Type
  <2>2. editor' = [editor EXCEPT ![e] = x] /\ page' = page /\ label' \in {label, e}
    BY <1>7 DEF Type, Says
  <2> HIDE DEF x
  <2> QED BY <1>1, <2>1, <2>2, OnePage DEF OnScreen
<1> QED BY <1>3, <1>4, <1>5, <1>6, <1>7

LEMMA AnswerPage ==
  ASSUME TypeInv, PageInv, NEW e \in Editor, NEW r \in Save,
         Answered(e, r) \/ Refused(e, r) \/ AnswerLost(e, r)
  PROVE  PageInv'
<1> DEFINE ed == editor[e]
           q == request[e][r]
           adopts == ~ed.focus /\ Clean(q.html) # q.html
           x == [ed EXCEPT !.said = "saved",
                           !.text = IF adopts THEN Reread(Clean(q.html)) ELSE @,
                           !.lastSent = IF adopts THEN Clean(q.html) ELSE @]
           z == [ed EXCEPT !.lastSent = q.previous, !.said = ""]
<1>1. ed \in EditorState /\ OnScreen(e) /\ q \in Request
  BY DEF TypeInv, DataOK, PageInv
<1>2. q.html \in Html /\ q.previous \in Html /\ Clean(q.html) \in Html /\ Reread(Clean(q.html)) \in Html
  BY <1>1 DEF Request
<1>3. /\ x \in EditorState /\ x.load = ed.load /\ x.timer = ed.timer /\ x.focus = ed.focus
      /\ z \in EditorState /\ z.load = ed.load /\ z.timer = ed.timer /\ z.focus = ed.focus
  BY <1>1, <1>2 DEF EditorState
<1>4. page' = page /\ label' \in {label, e}
  BY DEF Answered, Refused, AnswerLost, Told, Says
<1>5. editor' = [editor EXCEPT ![e] = x] \/ editor' = [editor EXCEPT ![e] = z]
  BY DEF Answered, Refused, AnswerLost, Told
<1> HIDE DEF x, z
<1>6. PICK y \in {x, z} : editor' = [editor EXCEPT ![e] = y]
  BY <1>5
<1>7. y \in EditorState /\ y.load = ed.load /\ y.timer = ed.timer /\ y.focus = ed.focus
  BY <1>3, <1>6
<1> QED BY <1>1, <1>4, <1>6, <1>7, OnePage DEF OnScreen

LEMMA MountPage ==
  ASSUME TypeInv, PageInv, NEW e \in Editor, Mount(e) \/ Leave(e)
  PROVE  PageInv'
<1>1. e # NoEditor /\ editor[e] \in EditorState
  BY DEF TypeInv, DataOK
<1>2. page' \in Editor \cup {NoEditor} /\ label' \in Editor \cup {NoEditor}
  BY DEF Mount, Leave, PageInv
<1>3. ASSUME NEW d \in Editor PROVE OnScreen(d)'
  <2>1. d # NoEditor /\ OnScreen(d) /\ editor[d] \in EditorState
    BY DEF PageInv, TypeInv, DataOK
  <2>2. CASE d # e
    <3>1. editor'[d] = editor[d]
      BY <2>2 DEF Mount, Leave, TypeInv, DataOK
    <3>2. page # d /\ page' # d
      BY <1>1, <2>1, <2>2 DEF Mount, Leave
    <3> QED BY <2>1, <3>1, <3>2 DEF OnScreen
  <2>3. CASE d = e /\ Mount(e)
    <3>1. editor'[e].load = "out" /\ editor'[e].timer = editor[e].timer /\ editor'[e].focus = editor[e].focus
      BY <1>1, <2>3 DEF Mount, TypeInv, DataOK, EditorState
    <3>2. page = NoEditor /\ page' = e /\ editor[e].load = "no"
      BY <2>3 DEF Mount
    <3> QED BY <1>1, <2>1, <2>3, <3>1, <3>2 DEF OnScreen
  <2>4. CASE d = e /\ Leave(e)
    <3>1. editor'[e].load = editor[e].load /\ editor'[e].timer = editor[e].timer /\ editor'[e].focus = FALSE
      BY <1>1, <2>4 DEF Leave, TypeInv, DataOK, EditorState
    <3>2. page = e /\ page' = NoEditor
      BY <2>4 DEF Leave
    <3> QED BY <1>1, <2>1, <2>4, <3>1, <3>2 DEF OnScreen
  <2> QED BY <2>2, <2>3, <2>4
<1> QED BY <1>2, <1>3 DEF PageInv

LEMMA PageStep == TypeInv /\ PageInv /\ [Next]_vars => PageInv'
<1> SUFFICES ASSUME TypeInv, PageInv, [Next]_vars PROVE PageInv'
  OBVIOUS
<1>1. ASSUME editor' = editor, page' = page, label' \in {label, NoEditor} PROVE PageInv'
  BY <1>1 DEF PageInv, OnScreen
<1>2. CASE UNCHANGED vars \/ Stray \/ \E h \in Typed : SavedElsewhere(h)
  BY <1>1, <1>2 DEF vars, Stray, SavedElsewhere
<1>3. ASSUME NEW e \in Editor, NEW r \in Save, SetNote(e, r) \/ Orphan(e, r) PROVE PageInv'
  BY <1>1, <1>3 DEF SetNote, Orphan
<1>4. ASSUME NEW e \in Editor, TimerFires(e) \/ Blur(e) \/ Click(e) PROVE PageInv'
  <2>1. editor[e] \in EditorState /\ editor[e].focus \in BOOLEAN /\ OnScreen(e)
    BY DEF TypeInv, DataOK, PageInv, EditorState
  <2>2. editor[e].load # "no"
    BY <1>4, <2>1 DEF TimerFires, Blur, Click, OnScreen
  <2>3. \E f \in BOOLEAN : SaveNow(e, f) /\ (f => editor[e].focus)
    BY <1>4, <2>1 DEF TimerFires, Blur, Click
  <2> QED BY <2>2, <2>3, SavePage
<1> QED BY <1>2, <1>3, <1>4, LoadPage, AnswerPage, MountPage DEF Next

LEMMA PageInvariant == Spec => []PageInv
BY InitPage, PageStep, Invariant, PTL DEF Spec, Inv

-----------------------------------------------------------------------------
(* Texts, timers, labels and requests keep their types: what an editor     *)
(* shows and what the hub stores are always strings that were typed, or    *)
(* what sanitizer and browser make of one.                                 *)
THEOREM TypeCorrect == Spec => []TypeOK
<1>1. Inv /\ PageInv => TypeOK
  BY DEF Inv, TypeInv, DataOK, PageInv, TypeOK
<1> QED BY <1>1, Invariant, PageInvariant, PTL

(* The page's own "saved" is true: an editor that is mounted, whose word   *)
(* stands in the label and that has nothing left to do shows what the hub  *)
(* has, unless two of its saves were out at once, it was typed in too      *)
(* early, or somebody else has saved. Where an editor that was left had    *)
(* the last word, nothing is said.                                         *)
THEOREM SavedNotes == Spec => []SavedIsStored
<1>1. Inv => SavedIsStored
  <2> SUFFICES ASSUME Inv, NEW e \in orderly, editor[e].said = "saved", ~editor[e].timer, Resting(e)
               PROVE  Same(store, editor[e].text)
    BY DEF SavedIsStored
  <2>1. Good(editor[e], request[e], store, e \in deaf) /\ Quiet(request[e])
    BY DEF Inv, OrderInv, Resting, Quiet
  <2>2. editor[e].load = "loaded"
    BY <2>1 DEF Good
  <2> QED BY <2>1, <2>2 DEF Good, Same
<1> QED BY <1>1, Invariant, PTL

(* The text of an editor whose note has come is changed by its operator,   *)
(* and by the answer to one of its saves.                                  *)
LEMMA WhoChangesTexts ==
  ASSUME TypeInv, [Next]_vars, NEW e \in Editor, editor[e].load = "loaded",
         editor'[e].text # editor[e].text
  PROVE  (\E h \in Typed : Type(e, h)) \/ \E r \in Save : Answered(e, r)
<1>1. \A d \in Editor : editor[d] \in EditorState
  BY DEF TypeInv, DataOK
<1>2. editor' # editor
  OBVIOUS
<1>3. PICK d \in Editor :
        \/ Mount(d) \/ Leave(d) \/ GetNote(d) \/ Loaded(d) \/ LoadFails(d) \/ Focus(d)
        \/ (\E h \in Typed : Type(d, h)) \/ TimerFires(d) \/ Blur(d) \/ Click(d)
        \/ \E r \in Save : Answered(d, r) \/ Refused(d, r) \/ AnswerLost(d, r)
  BY <1>2 DEF Next, vars, Stray, SavedElsewhere, SetNote, Orphan
<1>4. \E x : editor' = [editor EXCEPT ![d] = x]
  <2>1. CASE Mount(d) \/ Leave(d) \/ GetNote(d) \/ Loaded(d) \/ LoadFails(d) \/ Focus(d)
    BY <2>1 DEF Mount, Leave, GetNote, Loaded, LoadFails, Focus
  <2>2. CASE (\E h \in Typed : Type(d, h)) \/ TimerFires(d) \/ Blur(d) \/ Click(d)
    BY <2>2 DEF Type, TimerFires, Blur, Click, SaveNow
  <2>3. CASE \E r \in Save : Answered(d, r) \/ Refused(d, r) \/ AnswerLost(d, r)
    BY <2>3 DEF Answered, Refused, AnswerLost, Told
  <2> QED BY <1>3, <2>1, <2>2, <2>3
<1>5. d = e
  BY <1>4 DEF TypeInv, DataOK
<1>6. ~(Mount(e) \/ GetNote(e) \/ Loaded(e) \/ LoadFails(e))
  BY DEF Mount, GetNote, Loaded, LoadFails
<1>7. ASSUME NEW f \in BOOLEAN, editor' = [editor EXCEPT ![e].focus = f] PROVE FALSE
  BY <1>1, <1>7 DEF TypeInv, DataOK, EditorState
<1>8. ASSUME NEW f \in BOOLEAN, SaveNow(e, f) PROVE FALSE
  <2> DEFINE ed == [editor[e] EXCEPT !.timer = FALSE, !.focus = f]
  <2>1. ed.text = editor[e].text /\ ed \in EditorState
    BY <1>1 DEF EditorState
  <2>2. editor' = [editor EXCEPT ![e] = ed]
        \/ editor' = [editor EXCEPT ![e] = [ed EXCEPT !.lastSent = ed.text, !.said = "saving"]]
    BY <1>8 DEF SaveNow
  <2>3. [ed EXCEPT !.lastSent = ed.text, !.said = "saving"].text = ed.text
    BY <2>1 DEF EditorState
  <2> HIDE DEF ed
  <2> QED BY <2>1, <2>2, <2>3 DEF TypeInv, DataOK
<1>9. ~(TimerFires(e) \/ Blur(e) \/ Click(e))
  <2>1. editor[e].focus \in BOOLEAN
    BY <1>1 DEF EditorState
  <2> QED BY <1>8, <2>1 DEF TimerFires, Blur, Click
<1>10. ASSUME NEW r \in Save, Refused(e, r) \/ AnswerLost(e, r) PROVE FALSE
  <2>1. editor' = [editor EXCEPT ![e].lastSent = request[e][r].previous, ![e].said = ""]
    BY <1>10 DEF Refused, AnswerLost, Told
  <2> QED BY <1>1, <2>1 DEF TypeInv, DataOK, EditorState
<1>11. ~Focus(e) /\ ~Leave(e)
  BY <1>7 DEF Focus, Leave
<1> QED BY <1>3, <1>5, <1>6, <1>9, <1>10, <1>11

(* On a mounted page, nothing replaces a text under the caret, and what    *)
(* replaces one that nobody is typing in is the same note: a text with     *)
(* something left to send is under the caret.                              *)
THEOREM KeptTyping == Spec => TypingIsKept
<1> DEFINE Claim ==
      \A e \in Editor :
        /\ page = e /\ editor[e].load = "loaded"
        /\ editor'[e].text # editor[e].text /\ ~(\E h \in Typed : Type(e, h))
        => /\ ~editor[e].focus
           /\ e \in orderly => Same(editor'[e].text, editor[e].text)
<1>1. Inv /\ PageInv /\ [Next]_vars => [Claim]_vars
  <2> SUFFICES ASSUME Inv, PageInv, [Next]_vars, NEW e \in Editor, page = e, editor[e].load = "loaded",
                      editor'[e].text # editor[e].text, ~(\E h \in Typed : Type(e, h))
               PROVE  /\ ~editor[e].focus
                      /\ e \in orderly => Same(editor'[e].text, editor[e].text)
    OBVIOUS
  <2>1. editor[e] \in EditorState /\ OnScreen(e)
    BY DEF Inv, TypeInv, DataOK, PageInv
  <2>2. PICK r \in Save : Answered(e, r)
    BY WhoChangesTexts DEF Inv
  <2> DEFINE q == request[e][r]
  <2>3. /\ q \in Request /\ q.stage = "stored" /\ q.html \in Html
        /\ ~editor[e].focus /\ editor'[e].text = Reread(Clean(q.html))
    <3> DEFINE adopts == ~editor[e].focus /\ Clean(q.html) # q.html
               x == [editor[e] EXCEPT !.said = "saved",
                       !.text = IF adopts THEN Reread(Clean(q.html)) ELSE @,
                       !.lastSent = IF adopts THEN Clean(q.html) ELSE @]
    <3>1. q \in Request /\ q.stage = "stored"
      BY <2>2 DEF Answered, Inv, TypeInv, DataOK
    <3>2. editor' = [editor EXCEPT ![e] = x]
      BY <2>2 DEF Answered
    <3>3. x.text = IF adopts THEN Reread(Clean(q.html)) ELSE editor[e].text
      BY <2>1 DEF EditorState
    <3>4. editor'[e].text = x.text
      BY <3>2 DEF Inv, TypeInv, DataOK
    <3> HIDE DEF x
    <3> QED BY <3>1, <3>3, <3>4 DEF Request
  <2>4. ASSUME e \in orderly PROVE Same(editor'[e].text, editor[e].text)
    <3>1. Good(editor[e], request[e], store, e \in deaf) /\ OutGood(editor[e], q, store, e \in deaf)
      BY <2>3, <2>4, OnlyOne
    <3>2. ~editor[e].timer
      BY <2>1, <2>3 DEF OnScreen
    <3>3. editor[e].said # "" /\ editor[e].lastSent = q.html
      BY <2>3, <3>1 DEF OutGood
    <3>4. Same(editor[e].text, q.html)
      BY <3>1, <3>2, <3>3 DEF Good
    <3>5. Clean(q.html) \in Html /\ Reread(Clean(q.html)) \in Html
      BY <2>3
    <3>6. Same(Clean(q.html), q.html) /\ Same(Reread(Clean(q.html)), Clean(q.html))
      BY <2>3, <3>5, SpellingAssumption
    <3> QED BY <2>3, <3>4, <3>6 DEF Same
  <2> QED BY <2>3, <2>4
<1> QED BY <1>1, Invariant, PageInvariant, PTL DEF Spec, TypingIsKept

(* An attempt to save that sends nothing has nothing to send, unless the   *)
(* editor was told of a failure that was none.                             *)
THEOREM QuietSaves == Spec => QuietIsStored
<1> DEFINE Claim ==
      \A e \in orderly \ deaf :
        /\ editor[e].load = "loaded" /\ Resting(e)
        /\ TimerFires(e) \/ Blur(e) \/ Click(e)
        => ~Resting(e)' \/ Same(store, editor[e].text)
<1>1. Inv /\ [Next]_vars => [Claim]_vars
  <2> SUFFICES ASSUME Inv, NEW e \in orderly \ deaf, editor[e].load = "loaded", Resting(e),
                      TimerFires(e) \/ Blur(e) \/ Click(e)
               PROVE  ~Resting(e)' \/ Same(store, editor[e].text)
    OBVIOUS
  <2>1. e \in Editor /\ editor[e] \in EditorState
    BY DEF Inv, TypeInv, DataOK
  <2>2. PICK f \in BOOLEAN : SaveNow(e, f)
    BY <2>1 DEF TimerFires, Blur, Click, EditorState
  <2>3. Same(store, editor[e].lastSent)
    BY DEF Inv, OrderInv, Good, Resting, Quiet
  <2> DEFINE ed == [editor[e] EXCEPT !.timer = FALSE, !.focus = f]
             new == [stage |-> "sent", html |-> ed.text, previous |-> ed.lastSent]
  <2>4. ed.text = editor[e].text /\ ed.lastSent = editor[e].lastSent
    BY <2>1 DEF EditorState
  <2>5. CASE ed.text = ed.lastSent
    BY <2>3, <2>4, <2>5
  <2>6. CASE ed.text # ed.lastSent
    <3>1. PICK r \in Save : request' = [request EXCEPT ![e][r] = new]
      BY <2>2, <2>6 DEF SaveNow
    <3>2. request'[e][r].stage = "sent"
      BY <2>1, <3>1 DEF Inv, TypeInv, DataOK
    <3> QED BY <3>2, IdleType DEF Resting
  <2> QED BY <2>5, <2>6
<1> QED BY <1>1, Invariant, PTL DEF Spec, QuietIsStored

(* What is assumed of lowering, of one note.                               *)
LEMMA LowerParts ==
  ASSUME NEW h \in Html, NEW i \in 0..Len(Plain(h)), NEW j \in 0..Len(Plain(h)), i <= j,
         Boundary(Plain(h), i), Boundary(Plain(h), j)
  PROVE  /\ Lower(Part(Plain(h), i, j)) \in Seq(Byte)
         /\ Lower(Part(Plain(h), 0, j)) = Lower(Part(Plain(h), 0, i)) \o Lower(Part(Plain(h), i, j))
BY LowerAssumption

LEMMA LowerNothing ==
  ASSUME NEW h \in Html
  PROVE  Len(Lower(Part(Plain(h), 0, 0))) = 0
<1> DEFINE low == Lower(Part(Plain(h), 0, 0))
<1>1. Len(Plain(h)) \in Nat
  BY TextAssumption, LenProperties DEF IsText
<1>2. 0 \in 0..Len(Plain(h)) /\ 0 <= 0 /\ Boundary(Plain(h), 0)
  BY <1>1 DEF Boundary
<1>3. low \in Seq(Byte) /\ low = low \o low
  BY <1>2, LowerParts
<1>4. Len(low) \in Nat /\ Len(low \o low) = Len(low) + Len(low)
  BY <1>3, ConcatProperties, LenProperties
<1> HIDE DEF low
<1> QED BY <1>3, <1>4 DEF low

(* In an empty text nothing is found.                                      *)
LEMMA FoundInText ==
  ASSUME NEW h \in Html, NEW q \in Query, Occurs(Lower(Plain(h)), Lower(q))
  PROVE  Plain(h) # <<>>
<1> SUFFICES ASSUME Plain(h) = <<>> PROVE FALSE
  OBVIOUS
<1>1. Part(<<>>, 0, 0) = <<>>
  BY DEF Part
<1>2. Len(Lower(<<>>)) = 0
  BY <1>1, LowerNothing
<1>3. Lower(q) \in Seq(Byte) /\ Len(Lower(q)) \in Nat /\ Len(Lower(q)) # 0
  BY LowerAssumption, EmptySeq, LenProperties
<1>4. PICK i \in 0..Len(Lower(<<>>)) : At(Lower(<<>>), i, Lower(q))
  BY DEF Occurs
<1> QED BY <1>2, <1>3, <1>4 DEF At

(* An excerpt that, lowered, spans the match shows it.                     *)
LEMMA SpanShows ==
  ASSUME NEW h \in Html, NEW q \in Query,
         NEW start \in 0..Len(Plain(h)), NEW end \in 0..Len(Plain(h)), NEW at \in Nat,
         start < end, Boundary(Plain(h), start), Boundary(Plain(h), end),
         Len(Lower(Part(Plain(h), 0, start))) <= at,
         at + Len(Lower(q)) <= Len(Lower(Part(Plain(h), 0, end))),
         At(Lower(Plain(h)), at, Lower(q))
  PROVE  Occurs(Lower(Part(Plain(h), start, end)), Lower(q))
<1> DEFINE text == Plain(h)
           n == Len(text)
           a == Lower(Part(text, 0, start))
           x == Lower(Part(text, start, end))
           b == Lower(Part(text, end, n))
<1>1. text \in Seq(Byte) /\ n \in Nat
  BY TextAssumption, LenProperties DEF IsText
<1>2. 0 \in 0..n /\ n \in 0..n /\ Boundary(text, 0) /\ Boundary(text, n)
  BY <1>1 DEF Boundary
<1>3. ASSUME NEW i \in 0..n, NEW j \in 0..n, i <= j, Boundary(text, i), Boundary(text, j)
      PROVE  /\ Lower(Part(text, i, j)) \in Seq(Byte)
             /\ Lower(Part(text, 0, j)) = Lower(Part(text, 0, i)) \o Lower(Part(text, i, j))
  BY <1>3, LowerParts
<1>4. Part(text, 0, n) = text
  <2>1. Part(text, 0, n) \in Seq(Byte) /\ Len(Part(text, 0, n)) = n
        /\ \A i \in 1..n : Part(text, 0, n)[i] = text[i]
    <3>1. SubSeq(text, 0 + 1, n) \in Seq(Byte) /\ Len(SubSeq(text, 0 + 1, n)) = n - 0
          /\ \A i \in 1..(n - 0) : SubSeq(text, 0 + 1, n)[i] = text[0 + i]
      BY <1>1, PartType
    <3>2. n - 0 = n /\ \A i \in 1..n : 0 + i = i
      BY <1>1
    <3> QED BY <3>1, <3>2 DEF Part
  <2> QED BY <1>1, <2>1, SeqEqual
<1>5. a \in Seq(Byte) /\ x \in Seq(Byte) /\ b \in Seq(Byte)
  BY <1>1, <1>2, <1>3
<1>6. Lower(Part(text, 0, end)) = a \o x
  BY <1>3
<1>7. Lower(text) = (a \o x) \o b
  <2>1. end <= n
    BY <1>1
  <2>2. Lower(Part(text, 0, n)) = Lower(Part(text, 0, end)) \o b
    BY <1>2, <1>3, <2>1
  <2> HIDE DEF a, x, b
  <2> QED BY <1>4, <1>6, <2>2
<1>8. Len(a) <= at /\ at + Len(Lower(q)) <= Len(a \o x)
  BY <1>6
<1>9. Lower(q) \in Seq(Byte)
  BY LowerAssumption
<1> HIDE DEF a, x, b, text
<1>10. At((a \o x) \o b, at, Lower(q))
  BY <1>7 DEF text
<1>11. Occurs(x, Lower(q))
  BY <1>5, <1>8, <1>9, <1>10, InTheMiddle
<1> QED BY <1>11 DEF x, text

(* A hit is a text, cut between runes, whatever lowering does to the note; *)
(* and where it moves no place further than the radius has room for, the   *)
(* search does not fail, and the hit shows what was searched for.          *)
THEOREM HitsHold == Spec => []HitsShowTheMatch
<1>1. TypeInv => HitsShowTheMatch
  <2> SUFFICES ASSUME TypeInv, NEW q \in Query
               PROVE  /\ \A x \in Hits(q) : x # <<>> /\ IsText(x)
                      /\ store # Empty /\ Occurs(Lower(Plain(store)), Lower(q)) /\ Near(Plain(store), q)
                           => \E x \in Hits(q) : Occurs(Lower(x), Lower(q))
    BY DEF HitsShowTheMatch
  <2> DEFINE text == Plain(store)
             at == Index(Lower(text), Lower(q))
             n == Len(text)
             m == Len(Lower(q))
             room == Radius + Len(q) - m
             x == Excerpt(text, at, Len(q))
  <2>1. store \in Html /\ IsText(text) /\ IsText(q) /\ q # <<>>
    BY TextAssumption DEF TypeInv, DataOK
  <2>2. text \in Seq(Byte) /\ Len(q) \in Nat \ {0} /\ n \in Nat /\ Radius \in Nat
    BY <2>1, EmptySeq, LenProperties DEF IsText
  <2>3. Lower(q) \in Seq(Byte) /\ m \in Nat /\ m # 0
    BY LowerAssumption, EmptySeq, LenProperties
  <2>4. Part(text, 0, n) = text /\ Boundary(text, 0) /\ Boundary(text, n) /\ 0 \in 0..n /\ n \in 0..n
    <3>1. SubSeq(text, 0 + 1, n) \in Seq(Byte) /\ Len(SubSeq(text, 0 + 1, n)) = n - 0
          /\ \A i \in 1..(n - 0) : SubSeq(text, 0 + 1, n)[i] = text[0 + i]
      BY <2>2, PartType
    <3>2. n - 0 = n /\ \A i \in 1..n : 0 + i = i
      BY <2>2
    <3>3. SubSeq(text, 0 + 1, n) = text
      BY <2>2, <3>1, <3>2, SeqEqual
    <3> QED BY <2>2, <3>3 DEF Part, Boundary
  <2>5. ASSUME NEW i \in 0..n, Boundary(text, i)
        PROVE  Lower(Part(text, 0, i)) \in Seq(Byte) /\ Len(Lower(Part(text, 0, i))) \in Nat
    <3>1. 0 <= i
      OBVIOUS
    <3>2. Lower(Part(text, 0, i)) \in Seq(Byte)
      BY <2>1, <2>4, <2>5, <3>1, LowerParts
    <3> QED BY <3>2, LenProperties
  <2>6. Lower(text) \in Seq(Byte) /\ Len(Lower(text)) \in Nat
    BY <2>4, <2>5
  <2>7. ASSUME Occurs(Lower(text), Lower(q))
        PROVE  at \in Nat /\ At(Lower(text), at, Lower(q)) /\ at + m <= Len(Lower(text))
    <3>1. at \in 0..Len(Lower(text)) /\ At(Lower(text), at, Lower(q))
      BY <2>3, <2>6, <2>7, IndexIsThere
    <3> QED BY <2>6, <3>1 DEF At
  <2> HIDE DEF at
  <2>8. ASSUME Occurs(Lower(text), Lower(q)), ~OutOfRange(text, at)
        PROVE  \E start, end \in 0..n :
                 /\ x = Part(text, start, end)
                 /\ start < end /\ (start = 0 \/ start + Radius <= at)
                 /\ Boundary(text, start) /\ Boundary(text, end)
                 /\ end = n \/ at + Len(q) + Radius <= end
    <3>1. text # <<>>
      BY <2>1, <2>8, FoundInText
    <3> QED BY <2>2, <2>7, <2>8, <3>1, ExcerptIsPart
  <2>9. ASSUME NEW y \in Hits(q) PROVE y # <<>> /\ IsText(y)
    <3>1. Occurs(Lower(text), Lower(q)) /\ ~OutOfRange(text, at) /\ y = x
      BY DEF Hits, at
    <3>2. PICK start, end \in 0..n :
            x = Part(text, start, end) /\ start < end /\ Boundary(text, start) /\ Boundary(text, end)
      BY <2>8, <3>1
    <3>3. start \in Nat /\ end \in Nat /\ end <= n
      BY <2>2
    <3> QED BY <2>1, <3>1, <3>2, <3>3, PartIsText
  <2>10. ASSUME store # Empty, Occurs(Lower(text), Lower(q)), Near(text, q)
         PROVE  \E y \in Hits(q) : Occurs(Lower(y), Lower(q))
    <3>1. ASSUME NEW i \in 0..n, Boundary(text, i)
          PROVE  Len(Lower(Part(text, 0, i))) <= i + Radius /\ i <= Len(Lower(Part(text, 0, i))) + room
      <4>1. Len(Lower(Part(text, 0, i))) - i \in (m - Len(q) - Radius)..Radius
        BY <2>10, <3>1 DEF Near
      <4> QED BY <2>2, <2>3, <2>5, <3>1, <4>1
    <3>2. ~OutOfRange(text, at)
      <4>1. Len(Lower(text)) <= n + Radius
        BY <2>4, <3>1
      <4> QED BY <2>2, <2>3, <2>6, <2>7, <2>10, <4>1 DEF OutOfRange
    <3>3. PICK start, end \in 0..n :
            /\ x = Part(text, start, end)
            /\ start < end /\ (start = 0 \/ start + Radius <= at)
            /\ Boundary(text, start) /\ Boundary(text, end)
            /\ end = n \/ at + Len(q) + Radius <= end
      BY <2>8, <2>10, <3>2
    <3>4. Len(Lower(Part(text, 0, start))) <= at
      <4>1. CASE start = 0
        BY <2>1, <2>7, <2>10, <4>1, LowerNothing
      <4>2. CASE start + Radius <= at
        <5>1. Len(Lower(Part(text, 0, start))) \in Nat
          BY <2>5, <3>3
        <5>2. Len(Lower(Part(text, 0, start))) <= start + Radius
          BY <3>1, <3>3
        <5> QED BY <2>2, <2>7, <2>10, <4>2, <5>1, <5>2
      <4> QED BY <3>3, <4>1, <4>2
    <3>5. at + m <= Len(Lower(Part(text, 0, end)))
      <4>1. CASE end = n
        BY <2>4, <2>7, <2>10, <4>1
      <4>2. CASE at + Len(q) + Radius <= end
        <5>1. Len(Lower(Part(text, 0, end))) \in Nat
          BY <2>5, <3>3
        <5>2. end <= Len(Lower(Part(text, 0, end))) + room
          BY <3>1, <3>3
        <5> QED BY <2>2, <2>3, <2>7, <2>10, <4>2, <5>1, <5>2
      <4> QED BY <3>3, <4>1, <4>2
    <3>6. Occurs(Lower(Part(text, start, end)), Lower(q))
      BY <2>1, <2>7, <2>10, <3>3, <3>4, <3>5, SpanShows
    <3>7. x \in Hits(q)
      BY <2>10, <3>2 DEF Hits, at
    <3> QED BY <3>3, <3>6, <3>7
  <2> QED BY <2>9, <2>10
<1> QED BY <1>1, Invariant, PTL DEF Inv
=============================================================================
