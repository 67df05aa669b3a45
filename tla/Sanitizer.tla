------------------------------ MODULE Sanitizer ------------------------------
(***************************************************************************)
(* What sanitize.go makes of a note. A note is the forest the HTML parser  *)
(* finds in it: a sequence of nodes, each with its tag, attributes, text   *)
(* and children. Writing a forest and parsing it again joins texts that    *)
(* have come to lie side by side, and is otherwise lossless for the tags   *)
(* kept here, as long as they are nested the way the parser nests them (it *)
(* takes a p out of a p). A text is a sequence of bytes: "x" and "X"       *)
(* letters, "L" "c" a letter of two bytes, " " white space.                *)
(*                                                                         *)
(* Recursive, so nothing with a theorem in it may use this module; Notes   *)
(* takes what it needs as constants.                                       *)
(***************************************************************************)
EXTENDS Naturals, Sequences, SequencesExt

Text(bytes) == [tag |-> "#text", attrs |-> <<>>, data |-> bytes, kids |-> <<>>]
Element(tag, attrs, kids) == [tag |-> tag, attrs |-> attrs, data |-> <<>>, kids |-> kids]
Comment == Element("#comment", <<>>, <<>>)

AllowedTags ==
  {"p", "br", "div", "span", "strong", "b", "em", "i", "u", "s", "strike", "h2", "h3",
   "h4", "ul", "ol", "li", "a", "code", "pre", "blockquote", "hr"}

StrippedSubtrees ==
  {"script", "style", "iframe", "object", "embed", "form", "input", "button", "textarea",
   "select", "link", "meta", "svg", "math", "template", "base"}

AllowedDirections == {"ltr", "rtl", "auto"}

-----------------------------------------------------------------------------
(* Attributes. A direction is a word and how it is written; a URL is what  *)
(* safeURL looks at: is it blank, does it hold control characters, and     *)
(* what stands before its first colon ("" if it has none, "path" if that   *)
(* holds a slash, a question mark or a hash).                              *)

Dir(word, upper) == [key |-> "dir", val |-> [word |-> word, upper |-> upper]]
Href(scheme, blank, control) ==
  [key |-> "href", val |-> [scheme |-> scheme, blank |-> blank, control |-> control]]
Attr(key) == [key |-> key, val |-> <<>>]

SafeURL(url) ==
  /\ ~url.blank /\ ~url.control
  /\ url.scheme \in {"", "path", "http", "https", "mailto"}

Keeps(tag, attr) ==
  \/ attr.key = "dir" /\ attr.val.word \in AllowedDirections
  \/ attr.key = "href" /\ tag = "a" /\ SafeURL(attr.val)

Lowered(attr) == IF attr.key = "dir" THEN [attr EXCEPT !.val.upper = FALSE] ELSE attr

CleanAttrs(node) ==
  LET kept == SelectSeq(node.attrs, LAMBDA attr : Keeps(node.tag, attr))
      opens == \E i \in DOMAIN kept : kept[i].key = "href"
  IN  [i \in DOMAIN kept |-> Lowered(kept[i])]
        \o IF opens THEN <<Attr("target=_blank"), Attr("rel=noopener noreferrer")>> ELSE <<>>

-----------------------------------------------------------------------------
(* Nodes *)

RECURSIVE WriteClean(_), WriteChildren(_)

WriteClean(node) ==
  IF node.tag = "#text" THEN <<node>>
  ELSE IF node.tag = "#comment" \/ node.tag \in StrippedSubtrees THEN <<>>
  ELSE IF node.tag \notin AllowedTags THEN WriteChildren(node)
  ELSE <<Element(node.tag, CleanAttrs(node),
                 IF node.tag \in {"br", "hr"} THEN <<>> ELSE WriteChildren(node))>>

WriteChildren(node) ==
  FlattenSeq([i \in DOMAIN node.kids |-> WriteClean(node.kids[i])])

(* The forest parsed again: neighbouring texts are one.                    *)
RECURSIVE Reparsed(_)
Reparsed(nodes) ==
  LET Join(done, node) ==
        IF node.tag = "#text"
        THEN IF node.data = <<>> THEN done
             ELSE IF done # <<>> /\ Last(done).tag = "#text"
             THEN Append(Front(done), Text(Last(done).data \o node.data))
             ELSE Append(done, node)
        ELSE Append(done, [node EXCEPT !.kids = Reparsed(@)])
  IN  FoldLeft(Join, <<>>, nodes)

(* strings.TrimSpace, which stops at the first tag.                        *)
RECURSIVE TrimLeft(_)
TrimLeft(bytes) == IF bytes # <<>> /\ Head(bytes) = " " THEN TrimLeft(Tail(bytes)) ELSE bytes
TrimRight(bytes) == Reverse(TrimLeft(Reverse(bytes)))

TrimSpace(nodes) ==
  LET Trimmed(i) ==
        LET left == IF i = 1 THEN TrimLeft(nodes[i].data) ELSE nodes[i].data
        IN  [nodes[i] EXCEPT !.data = IF i = Len(nodes) THEN TrimRight(left) ELSE left]
  IN  Reparsed([i \in DOMAIN nodes |-> Trimmed(i)])

SanitizeNote(nodes) ==
  TrimSpace(Reparsed(FlattenSeq([i \in DOMAIN nodes |-> WriteClean(nodes[i])])))

-----------------------------------------------------------------------------
(* The text a search looks at *)

Spaced == {"p", "br", "div", "li", "h2", "h3", "h4", "pre"}

RECURSIVE Walk(_)
Walk(node) ==
  IF node.tag = "#text" THEN node.data
  ELSE IF node.tag \in StrippedSubtrees THEN <<>>
  ELSE FlattenSeq([i \in DOMAIN node.kids |-> Walk(node.kids[i])])
         \o IF node.tag \in Spaced THEN <<" ">> ELSE <<>>

(* strings.Fields joined by single spaces.                                 *)
Squeezed(bytes) ==
  LET Keep(done, byte) ==
        IF byte = " " /\ (done = <<>> \/ Last(done) = " ") THEN done ELSE Append(done, byte)
  IN  TrimRight(FoldLeft(Keep, <<>>, bytes))

NoteText(nodes) == Squeezed(FlattenSeq([i \in DOMAIN nodes |-> Walk(nodes[i])]))
=============================================================================
