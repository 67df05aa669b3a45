------------------------------- MODULE MCNotes -------------------------------
(* Values for TLC: notes as forests, spelled by the hub or by a browser.      *)
EXTENDS Notes, Sanitizer, FiniteSets, TLC

(* A string is a forest and who spelled it, which makes a difference only     *)
(* if it holds a quote ("'"): the hub writes &#39;, a browser does not.       *)
RECURSIVE Quotes(_)
Quotes(nodes) ==
  \E i \in DOMAIN nodes : "'" \in Range(nodes[i].data) \/ Quotes(nodes[i].kids)

String(nodes, by) == [nodes |-> nodes, by |-> IF Quotes(nodes) THEN by ELSE "any"]

Cleaned(h) == String(SanitizeNote(h.nodes), "hub")
Respelled(h) == String(h.nodes, "browser")

-----------------------------------------------------------------------------
(* The strings of the run: two that are typed, the empty one, and what        *)
(* becomes of them. Notes sees their numbers.                                 *)

Pasted == <<Element("p", <<Attr("onclick"), Dir("rtl", TRUE)>>,
                    <<Text(<<"x">>), Element("script", <<>>, <<Text(<<"X">>)>>),
                      Element("font", <<>>, <<Text(<<"'", "I", "c">>)>>)>>),
            Element("a", <<Href("javascript", FALSE, FALSE)>>, <<Text(<<"X">>)>>)>>
Short == <<Element("p", <<>>, <<Text(<<"A", "c", "A", "c", "X">>)>>)>>

First == <<String(<<>>, "any"), String(Pasted, "browser"), String(Short, "browser")>>
Strings ==
  SetToSeq(UNION {{h, Cleaned(h), Respelled(Cleaned(h))} : h \in Range(First)})
Number(h) == CHOOSE i \in DOMAIN Strings : Strings[i] = h

MCHtml == DOMAIN Strings
MCEmpty == Number(First[1])
MCTyped == {Number(First[2]), Number(First[3])}
CleanOf == [i \in MCHtml |-> Number(Cleaned(Strings[i]))]
PlainOf == [i \in MCHtml |-> NoteText(Strings[i].nodes)]
RereadOf == [i \in MCHtml |-> Number(Respelled(Strings[i]))]
MCClean(i) == CleanOf[i]
MCPlain(i) == PlainOf[i]
MCReread(i) == RereadOf[i]

(* In the first note all three are found, the second with what was before it   *)
(* made shorter; in the other the third lies beyond the end of the note.       *)
MCQuery == {<<"'">>, <<" ", "X">>, <<"X">>}

(* strings.ToLower, of whatever part of a note is lowered.                     *)
LowRune == [X |-> <<"x">>, I |-> <<"x">>, A |-> <<"M", "c", "c">>]
ToLower(bytes) ==
  FlattenSeq([i \in DOMAIN bytes |->
    IF bytes[i] \in DOMAIN LowRune THEN LowRune[bytes[i]]
    ELSE IF bytes[i] = "c" /\ i > 1 /\ bytes[i - 1] \in DOMAIN LowRune THEN <<>>
    ELSE <<bytes[i]>>])
Parts == UNION {{SubSeq(t, i, j) : i \in 1..Len(t), j \in 0..Len(t)} : t \in Range(PlainOf)}
LowerOf == [bytes \in Parts \cup MCQuery \cup {<<>>} |-> ToLower(bytes)]
MCLower(bytes) == LowerOf[bytes]

Symmetric == Permutations(Editor) \cup Permutations(Save)

-----------------------------------------------------------------------------
(* The sanitizer against what is said of it, on every forest of two trees     *)
(* of depth two over these.                                                   *)

Leaves == {Text(<<" ">>), Text(<<"x", " ">>), Text(<<" ", "X">>), Comment,
           Element("br", <<>>, <<>>), Element("input", <<>>, <<>>)}
Attributes == {<<>>, <<Dir("ltr", TRUE)>>, <<Dir("sideways", FALSE), Attr("style")>>,
               <<Href("https", FALSE, FALSE), Attr("target=_self")>>,
               <<Href("javascript", FALSE, FALSE), Dir("auto", FALSE)>>,
               <<Href("", FALSE, TRUE)>>, <<Href("", TRUE, FALSE)>>, <<Href("path", FALSE, FALSE)>>}
Kids == {<<>>} \cup {<<l>> : l \in Leaves} \cup {<<l, m>> : l, m \in Leaves}
Trees == Leaves
  \cup {Element(tag, <<>>, kids) : tag \in {"p", "b", "font", "script"}, kids \in Kids}
  \cup {Element(tag, attrs, <<Text(<<"x">>)>>) : tag \in {"p", "a", "img"}, attrs \in Attributes}

RECURSIVE Harmless(_)
Harmless(nodes) ==
  \A i \in DOMAIN nodes :
    /\ nodes[i].tag \in {"#text", "p", "b", "br", "a"}
    /\ \A j \in DOMAIN nodes[i].attrs :
         nodes[i].attrs[j] \in {Dir("ltr", FALSE), Dir("rtl", FALSE), Dir("auto", FALSE),
                                Href("https", FALSE, FALSE), Href("path", FALSE, FALSE),
                                Attr("target=_blank"), Attr("rel=noopener noreferrer")}
    /\ Harmless(nodes[i].kids)

Holds(nodes) ==
  LET clean == SanitizeNote(nodes)
  IN  Harmless(clean) /\ SanitizeNote(clean) = clean /\ NoteText(clean) = NoteText(nodes)

ASSUME SanitizerHolds ==
  /\ \A t \in Trees : Holds(<<t>>)
  /\ \A t \in Trees, l \in Leaves : Holds(<<t, l>>) /\ Holds(<<l, t>>)
=============================================================================
