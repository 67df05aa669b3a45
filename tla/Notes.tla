-------------------------------- MODULE Notes --------------------------------
(***************************************************************************)
(* A server's note (internal/hub/notes.go, store.go) and the editors open  *)
(* on it (mountServerNotes, app.js): loading, autosave after a pause, save *)
(* on leaving the editor, answers that come late, fail or get lost while   *)
(* the hub did what was asked. The editors are those of one browser tab,   *)
(* one after another: when its page is left, an editor's timer and its     *)
(* requests go on, and write in the label of whatever page there is then.  *)
(*                                                                         *)
(* A note is a string of HTML. What the sanitizer, the search and the      *)
(* browser make of one are constants here; Sanitizer says what the first   *)
(* two are.                                                                *)
(***************************************************************************)
EXTENDS Integers, Sequences, SequencesExt

CONSTANTS
  Html,        \* strings
  Empty,       \* the empty one
  Clean(_),    \* SanitizeNote
  Plain(_),    \* NoteText: a sequence of bytes
  Lower(_),    \* strings.ToLower
  Reread(_),   \* what innerHTML reads after it was assigned a string
  Typed,       \* what the operators may have on the screen after a keystroke
  Query,       \* what they search for: sequences of bytes
  Radius,      \* excerptRadius, 90
  Editor,      \* the tab's editors of this note
  NoEditor,    \* stands for none of them
  Save         \* saves an editor may have out at once

(* Notes that are the same to whoever reads them.                          *)
Same(h, i) == Clean(h) = Clean(i)

ASSUME NotesAssumption ==
  /\ Empty \in Html /\ Typed \subseteq Html
  /\ \A h \in Html : Clean(h) \in Html /\ Reread(h) \in Html
  /\ Editor # {} /\ NoEditor \notin Editor /\ Save # {} /\ Radius \in Nat

(* Cleaning twice, or what a browser has respelled, makes no difference.   *)
ASSUME SpellingAssumption ==
  \A h \in Html : Same(Clean(h), h) /\ Same(Reread(h), h)

(* Bytes, named for what they begin: a letter and its capital, a letter of *)
(* two bytes ("L"), two capitals of two bytes of which one is lowered to   *)
(* "x" alone ("I", as U+0130) and the other to a letter of three ("A", as  *)
(* U+023A, and "M"); "c" goes on with what was begun.                      *)
Byte == {"x", "X", " ", "'", "L", "I", "A", "M", "c"}
Width(byte) == IF byte = "M" THEN 3 ELSE IF byte \in {"L", "I", "A"} THEN 2 ELSE 1

(* Valid UTF-8: a rune begins at 1, and where the one before it ends.      *)
IsRune(bytes, i, next) ==
  /\ next <= Len(bytes) + 1
  /\ \A j \in (i + 1)..(next - 1) : bytes[j] = "c"
  /\ next <= Len(bytes) => bytes[next] # "c"

IsText(bytes) ==
  /\ bytes \in Seq(Byte)
  /\ bytes # <<>> => bytes[1] # "c"
  /\ \A i \in 1..Len(bytes) : bytes[i] # "c" => IsRune(bytes, i, i + Width(bytes[i]))

(* Notes come in as JSON, which holds nothing else, and queries are typed; *)
(* one for nothing is answered without a search.                           *)
ASSUME TextAssumption ==
  /\ \A h \in Html : IsText(Plain(h))
  /\ \A q \in Query : IsText(q) /\ q # <<>>

RuneStart(text, i) == text[i + 1] # "c"
Boundary(text, i) == i \in {0, Len(text)} \/ RuneStart(text, i)
Part(text, i, j) == SubSeq(text, i + 1, j)

(* A text is lowered rune by rune; how long that makes it is another       *)
(* matter.                                                                 *)
ASSUME LowerAssumption ==
  /\ \A h \in Html : \A i, j \in 0..Len(Plain(h)) :
       i <= j /\ Boundary(Plain(h), i) /\ Boundary(Plain(h), j) =>
         /\ Lower(Part(Plain(h), i, j)) \in Seq(Byte)
         /\ Lower(Part(Plain(h), 0, j)) = Lower(Part(Plain(h), 0, i)) \o Lower(Part(Plain(h), i, j))
  /\ \A q \in Query : Lower(q) \in Seq(Byte) \ {<<>>}

VARIABLES
  store,      \* the note in the server's row
  editor,     \* of each editor: what it shows, last_sent, timer, focus, load; and
              \* history: what it last said
  request,    \* the saves each editor has out
  page,       \* the editor whose page is mounted
  label,      \* the editor whose saying stands in the page's label
  orderly,    \* history: editors that did nothing before their note had come, never
              \* had two saves out at once, and whose note nobody else has changed
  deaf        \* history: editors that were told of a failure that was none

vars == <<store, editor, request, page, label, orderly, deaf>>

EditorState ==
  [load : {"no", "out", "read", "loaded", "failed"}, read : Html,
   text : Html, lastSent : Html, timer : BOOLEAN, focus : BOOLEAN,
   said : {"", "unsaved", "saving", "saved"}]

Unmounted == [load |-> "no", read |-> Empty, text |-> Empty, lastSent |-> Empty,
              timer |-> FALSE, focus |-> FALSE, said |-> ""]

Request == [stage : {"idle", "sent", "stored", "orphan"}, html : Html, previous : Html]
Idle == [stage |-> "idle", html |-> Empty, previous |-> Empty]

TypeOK ==
  /\ store \in Html
  /\ editor \in [Editor -> EditorState]
  /\ request \in [Editor -> [Save -> Request]]
  /\ page \in Editor \cup {NoEditor} /\ label \in Editor \cup {NoEditor}
  /\ orderly \subseteq Editor /\ deaf \subseteq Editor

Init ==
  /\ store \in Html
  /\ editor = [e \in Editor |-> Unmounted]
  /\ request = [e \in Editor |-> [r \in Save |-> Idle]]
  /\ page = NoEditor /\ label = NoEditor
  /\ orderly = Editor /\ deaf = {}

Resting(e) == \A r \in Save : request[e][r] = Idle

-----------------------------------------------------------------------------
(* Pages. setText looks for the label in whatever page is mounted, so the  *)
(* last word has who spoke last (app.js:56-59).                            *)

Says(e) == label' = (IF page = NoEditor THEN label ELSE e) /\ UNCHANGED page

(* An editor that was left on another server's note speaks up.             *)
Stray ==
  /\ page # NoEditor
  /\ label' = NoEditor
  /\ UNCHANGED <<store, editor, request, page, orderly, deaf>>

Mount(e) ==
  /\ page = NoEditor /\ editor[e].load = "no"
  /\ page' = e
  /\ editor' = [editor EXCEPT ![e].load = "out"]
  /\ UNCHANGED <<store, request, label, orderly, deaf>>

(* Whether a browser tells of the blur (then Blur comes first) or not.     *)
Leave(e) ==
  /\ page = e
  /\ page' = NoEditor /\ label' = NoEditor
  /\ editor' = [editor EXCEPT ![e].focus = FALSE]
  /\ UNCHANGED <<store, request, orderly, deaf>>

GetNote(e) ==
  /\ editor[e].load = "out"
  /\ editor' = [editor EXCEPT ![e].load = "read", ![e].read = store]
  /\ UNCHANGED <<store, request, page, label, orderly, deaf>>

Loaded(e) ==
  /\ editor[e].load = "read"
  /\ editor' = [editor EXCEPT ![e].load = "loaded", ![e].read = Empty,
                              ![e].text = Reread(editor[e].read),
                              ![e].lastSent = editor[e].read, ![e].said = "saved"]
  /\ Says(e)
  /\ UNCHANGED <<store, request, orderly, deaf>>

LoadFails(e) ==
  /\ editor[e].load \in {"out", "read"}
  /\ editor' = [editor EXCEPT ![e].load = "failed", ![e].read = Empty]
  /\ UNCHANGED <<store, request, page, label, orderly, deaf>>

-----------------------------------------------------------------------------
(* Editing *)

Focus(e) ==
  /\ page = e /\ ~editor[e].focus
  /\ editor' = [editor EXCEPT ![e].focus = TRUE]
  /\ UNCHANGED <<store, request, page, label, orderly, deaf>>

Type(e, h) ==
  /\ editor[e].focus
  /\ editor' = [editor EXCEPT ![e].text = h, ![e].timer = TRUE, ![e].said = "unsaved"]
  /\ Says(e)
  /\ orderly' = IF editor[e].load = "loaded" THEN orderly ELSE orderly \ {e}
  /\ UNCHANGED <<store, request, deaf>>

(* save(), on an editor that from now on has the focus or not.             *)
SaveNow(e, focused) ==
  LET ed == [editor[e] EXCEPT !.timer = FALSE, !.focus = focused]
  IN  IF ed.text = ed.lastSent
      THEN /\ editor' = [editor EXCEPT ![e] = ed]
           /\ UNCHANGED <<store, request, page, label, orderly, deaf>>
      ELSE /\ editor' = [editor EXCEPT ![e] = [ed EXCEPT !.lastSent = ed.text, !.said = "saving"]]
           /\ Says(e)
           /\ \E r \in Save :
                /\ request[e][r] = Idle
                /\ request' = [request EXCEPT ![e][r] =
                     [stage |-> "sent", html |-> ed.text, previous |-> ed.lastSent]]
           /\ orderly' = IF Resting(e) /\ ed.load = "loaded" THEN orderly ELSE orderly \ {e}
           /\ UNCHANGED <<store, deaf>>

TimerFires(e) == editor[e].timer /\ SaveNow(e, editor[e].focus)
Blur(e) == editor[e].focus /\ SaveNow(e, FALSE)
Click(e) == page = e /\ ~editor[e].focus /\ SaveNow(e, FALSE)

-----------------------------------------------------------------------------
(* The hub stores a save, refuses it, or both happen to the same one: the  *)
(* answer is lost, or fails to wait for what the hub does later.           *)

Stored(h, by) ==
  /\ store' = Clean(h)
  /\ orderly' = {e \in orderly : e \in by \/ editor[e].load \in {"no", "out"}}

SetNote(e, r) ==
  /\ request[e][r].stage = "sent"
  /\ Stored(request[e][r].html, {e})
  /\ request' = [request EXCEPT ![e][r].stage = "stored"]
  /\ UNCHANGED <<editor, page, label, deaf>>

(* fault: what is shown when the answer comes counts as sent *)
AnsweredForAll(e, r) ==
  /\ request[e][r].stage = "stored"
  /\ editor' = [editor EXCEPT ![e].said = "saved", ![e].lastSent = editor[e].text]
  /\ Says(e)
  /\ request' = [request EXCEPT ![e][r] = Idle]
  /\ UNCHANGED <<store, orderly, deaf>>

(* fault: the hub's copy is shown wherever the caret is *)
AnsweredAnywhere(e, r) ==
  LET html == Clean(request[e][r].html)
  IN  /\ request[e][r].stage = "stored"
      /\ editor' = [editor EXCEPT ![e].said = "saved", ![e].lastSent = html,
                                  ![e].text = Reread(html)]
      /\ Says(e)
      /\ request' = [request EXCEPT ![e][r] = Idle]
      /\ UNCHANGED <<store, orderly, deaf>>

Answered(e, r) ==
  LET html == request[e][r].html
      adopts == ~editor[e].focus /\ Clean(html) # html
  IN  /\ request[e][r].stage = "stored"
      /\ editor' = [editor EXCEPT ![e].said = "saved",
                      ![e].text = IF adopts THEN Reread(Clean(html)) ELSE @,
                      ![e].lastSent = IF adopts THEN Clean(html) ELSE @]
      /\ Says(e)
      /\ request' = [request EXCEPT ![e][r] = Idle]
      /\ UNCHANGED <<store, orderly, deaf>>

(* fault: a failure is shown and forgotten *)
ToldOnly(e, r) == editor' = [editor EXCEPT ![e].said = ""] /\ Says(e)

(* lastSent goes back to what it was, "so the next attempt retries instead *)
(* of going quiet" (app.js:857).                                           *)
Told(e, r) ==
  /\ editor' = [editor EXCEPT ![e].lastSent = request[e][r].previous, ![e].said = ""]
  /\ Says(e)

Refused(e, r) ==
  /\ request[e][r].stage = "sent"
  /\ Told(e, r)
  /\ request' = [request EXCEPT ![e][r] = Idle]
  /\ UNCHANGED <<store, orderly, deaf>>

AnswerLost(e, r) ==
  /\ request[e][r].stage \in {"sent", "stored"}
  /\ Told(e, r)
  /\ request' = [request EXCEPT ![e][r] =
                   IF request[e][r].stage = "stored" THEN Idle
                   ELSE [@ EXCEPT !.stage = "orphan"]]
  /\ deaf' = deaf \cup {e}
  /\ UNCHANGED <<store, orderly>>

Orphan(e, r) ==
  /\ request[e][r].stage = "orphan"
  /\ Stored(request[e][r].html, {e})
  /\ request' = [request EXCEPT ![e][r] = Idle]
  /\ UNCHANGED <<editor, page, label, deaf>>

(* A save from elsewhere: another tab, another operator.                   *)
SavedElsewhere(h) == Stored(h, {}) /\ UNCHANGED <<editor, request, page, label, deaf>>

-----------------------------------------------------------------------------
Next ==
  \/ Stray \/ \E h \in Typed : SavedElsewhere(h)
  \/ \E e \in Editor :
    \/ Mount(e) \/ Leave(e) \/ GetNote(e) \/ Loaded(e) \/ LoadFails(e)
    \/ Focus(e) \/ (\E h \in Typed : Type(e, h)) \/ TimerFires(e) \/ Blur(e) \/ Click(e)
    \/ \E r \in Save : SetNote(e, r) \/ Answered(e, r) \/ Refused(e, r) \/ AnswerLost(e, r)
                       \/ Orphan(e, r)

Spec == Init /\ [][Next]_vars

-----------------------------------------------------------------------------
(* Searching (handleSearchNotes).                                          *)

At(text, i, needle) ==
  i + Len(needle) <= Len(text) /\ SubSeq(text, i + 1, i + Len(needle)) = needle

Occurs(text, needle) == \E i \in 0..Len(text) : At(text, i, needle)

(* strings.Index, an offset.                                               *)
Index(text, needle) ==
  CHOOSE i \in 0..Len(text) : At(text, i, needle) /\ \A j \in 0..(i - 1) : ~At(text, j, needle)

Least(S) == CHOOSE i \in S : \A j \in S : i <= j
Greatest(S) == CHOOSE i \in S : \A j \in S : j <= i

(* fault: cut where the radius ends *)
ExcerptInBytes(text, at, length) ==
  SubSeq(text, Greatest({0, at - Radius}) + 1, Least({Len(text), at + length + Radius}))

Excerpt(text, at, length) ==
  LET from == Greatest({0, at - Radius})
      to == Least({Len(text), at + length + Radius})
      start == Greatest({i \in 0..from : i = 0 \/ RuneStart(text, i)})
      end == Least({i \in to..Len(text) : i = Len(text) \/ RuneStart(text, i)})
  IN  SubSeq(text, start + 1, end)

(* text[start] panics: then the search fails, for this note and all others. *)
OutOfRange(text, at) == at - Radius > 0 /\ at - Radius >= Len(text)

(* What a search for q shows of the note, if anything: the place is that   *)
(* of the match in the lowered text, the excerpt is cut from the other.    *)
Hits(q) ==
  LET text == Plain(store)
      at == Index(Lower(text), Lower(q))
  IN  IF store # Empty /\ Occurs(Lower(text), Lower(q)) /\ ~OutOfRange(text, at)
      THEN {Excerpt(text, at, Len(q))} ELSE {}

-----------------------------------------------------------------------------
(* Properties *)

(* When the label of the page says that the note is saved, and its editor  *)
(* has nothing left to do, the hub has what it shows. It may not where two *)
(* of the editor's saves were out at once, where it was typed in before    *)
(* its note had come, where somebody else, or an editor of this tab whose  *)
(* page was left, has saved since, and where the word in the label is that *)
(* of an editor that was left, on this note or on another (app.js:855,     *)
(* 858, 870): what it says need not be so of the page that shows it.       *)
SavedIsStored ==
  \A e \in orderly :
    page = e /\ label = e /\ editor[e].said = "saved" /\ ~editor[e].timer /\ Resting(e)
    => Same(store, editor[e].text)

(* Whatever is put in the place of a text on the screen, apart from what   *)
(* is typed and the note first loaded, is not put under the caret, and is  *)
(* the same note: "mid-sentence it would scramble the text being typed"    *)
(* (app.js:846-850). Not so of a text whose page was left: if no blur was  *)
(* told, what was typed last is lost to the answer of an earlier save.     *)
TypingIsKept ==
  [][\A e \in Editor :
       /\ page = e /\ editor[e].load = "loaded"
       /\ editor'[e].text # editor[e].text /\ ~(\E h \in Typed : Type(e, h))
       => /\ ~editor[e].focus
          /\ e \in orderly => Same(editor'[e].text, editor[e].text)]_vars

(* An attempt to save sends nothing only if the hub has what is shown, be  *)
(* the page mounted or left; but see FailedSaveIsRetried.                  *)
QuietIsStored ==
  [][\A e \in orderly \ deaf :
       /\ editor[e].load = "loaded" /\ Resting(e)
       /\ TimerFires(e) \/ Blur(e) \/ Click(e)
       => ~Resting(e)' \/ Same(store, editor[e].text)]_vars

(* "... so the next attempt retries instead of going quiet" (app.js:857),  *)
(* which the code does not do when the failure was none: a text taken back *)
(* to what was last heard of counts as sent, and the hub has another.      *)
FailedSaveIsRetried ==
  [][\A e \in orderly :
       /\ editor[e].load = "loaded" /\ Resting(e)
       /\ TimerFires(e) \/ Blur(e) \/ Click(e)
       => ~Resting(e)' \/ Same(store, editor[e].text)]_vars

(* Lowering moves no place in the text by more than the radius has room    *)
(* for, nor together with what it adds to the query.                       *)
Near(text, q) ==
  \A i \in 0..Len(text) :
    Boundary(text, i) => Len(Lower(Part(text, 0, i))) - i
                           \in (Len(Lower(q)) - Len(q) - Radius)..Radius

(* "an excerpt around the first hit, so the results say why they matched"  *)
(* (notes.go:72-73), "so a multi-byte character is never split in half"    *)
(* (101-102): a hit is a text, and a note that matches is shown with what  *)
(* was searched for, in either case of letters. One exception: where       *)
(* lowering moves the match further than Near allows the excerpt may miss  *)
(* it, and the search may fail.                                            *)
HitsShowTheMatch ==
  \A q \in Query :
    LET text == Plain(store)
        hits == Hits(q)
    IN  /\ \A x \in hits : x # <<>> /\ IsText(x)
        /\ store # Empty /\ Occurs(Lower(text), Lower(q)) /\ Near(text, q)
             => \E x \in hits : Occurs(Lower(x), Lower(q))
=============================================================================
