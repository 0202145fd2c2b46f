---------------------------- MODULE MCHtmlClean ----------------------------
(* All documents with up to four nodes below the document's root, and with  *)
(* five but no comments: elements of each policy at any depth, text, and    *)
(* comments also behind the root.                                           *)
EXTENDS HtmlClean

RECURSIVE Line(_, _)
Line(parent, n) == IF n = 0 THEN {} ELSE {n} \cup Line(parent, parent[n])

\* Nodes are numbered in the order of the file, so that a node's parent is
\* the node before it or above that.
Shapes(size) ==
  {p \in {<<0, 1>> \o s : s \in [1 .. size -> 1 .. size + 1]} :
     \A n \in 3 .. size + 2 : p[n] \in Line(p, n - 1)}

IsHtml(tag, parent) ==
  \A n \in 3 .. Len(tag) :
    /\ tag[parent[n]] \notin {"text", "comment"}
    /\ parent[n] = 1 => tag[n] = "comment"

Trees(tags, size) ==
  {d \in [tag : {<<"document", "html">> \o t : t \in [1 .. size -> tags]}, parent : Shapes(size)] :
     IsHtml(d.tag, d.parent)}

MCDocuments ==
  Trees({"p", "a", "script", "text"}, 5) \cup
  UNION {Trees({"p", "a", "script", "text", "comment"}, size) : size \in 0 .. 4}

\* The ancestors of a node are those its parent pointers lead to.
ASSUME AncestorsByParents ==
  \A d \in MCDocuments : \A n \in DOMAIN d.tag : AncestorsIn(d, n) = Line(d.parent, n) \ {n}
=============================================================================
