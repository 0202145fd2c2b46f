----------------------------- MODULE HtmlClean -----------------------------
(***************************************************************************)
(* htmlpp/htmlpp.c: the html of an e-book chapter is parsed by libxml2     *)
(* into a tree, and traverse() walks over the tree and changes it under    *)
(* its own feet: comments and scripts are erased with all below them,      *)
(* anchors and tables are stripped so that their children take their       *)
(* place, other elements lose most attributes.  epub/takeepub/takeepub.c   *)
(* and chm/takechm.c hold copies of these functions.                       *)
(*                                                                         *)
(* Nodes are numbered as they stand in the file; node 1 is the document    *)
(* and node 2 its root element.  libxml2 keeps five pointers in a node.    *)
(***************************************************************************)
EXTENDS Integers, Sequences, FiniteSetsExt, SequencesExt

CONSTANT Documents         \* records [tag, parent] of sequences over the nodes

Nil == 0

\* A file is numbered in its own order: what stands between a node and its
\* parent is below the parent.
ASSUME HtmlAssumption ==
  \A d \in Documents :
    /\ Len(d.tag) \in Nat \ {0, 1}
    /\ DOMAIN d.tag = 1 .. Len(d.tag) /\ DOMAIN d.parent = DOMAIN d.tag
    /\ d.tag[1] = "document" /\ d.parent[1] = Nil /\ d.parent[2] = 1
    /\ \A n \in DOMAIN d.tag \ {1} : d.parent[n] \in 1 .. n - 1
    /\ \A m, n \in DOMAIN d.tag :
         d.parent[n] < m /\ m < n => d.parent[m] >= d.parent[n]

Erased   == {"script", "style", "meta", "form", "iframe"}
Stripped == {"a", "table", "tr", "td"}

\* The policy for an element.
decide(tag) ==
  CASE tag \in Erased   -> "ERASE"
    [] tag \in Stripped -> "STRIP"
    [] OTHER            -> "KEEP"

KeptAttributes == {"src", "height", "width"}

VARIABLES
  doc,             \* the file as it was parsed
  node,            \* pointers of each node
  attributes,      \* of each node
  live,            \* nodes that are not freed
  cur,             \* cur_node
  callers          \* next_node of the calls of traverse that wait, last first

vars == <<doc, node, attributes, live, cur, callers>>

All == DOMAIN doc.tag
IsElement(n) == doc.tag[n] \notin {"document", "text", "comment"}

-----------------------------------------------------------------------------
(* libxml2.                                                                 *)

FirstOf(S) == IF S = {} THEN Nil ELSE Min(S)
LastOf(S)  == IF S = {} THEN Nil ELSE Max(S)

Parsed(d) ==
  LET Kids(p) == {n \in DOMAIN d.tag : d.parent[n] = p}
  IN  [n \in DOMAIN d.tag |->
        [parent |-> d.parent[n], children |-> FirstOf(Kids(n)), last |-> LastOf(Kids(n)),
         prev |-> LastOf({m \in Kids(d.parent[n]) : m < n}),
         next |-> FirstOf({m \in Kids(d.parent[n]) : m > n})]]

Alone == [parent |-> Nil, children |-> Nil, last |-> Nil, prev |-> Nil, next |-> Nil]

\* A node and those behind it in its list.
Siblings(n) ==
  LET Lists == {S \in SUBSET All :
                  n \in S /\ \A m \in S : node[m].next # Nil => node[m].next \in S}
  IN  {m \in All : \A S \in Lists : m \in S}

\* A node, its children and all that hangs on them.
Below(n) ==
  LET Trees == {S \in SUBSET All :
                  /\ n \in S
                  /\ \A m \in S : node[m].children # Nil => node[m].children \in S
                  /\ \A m \in S \ {n} : node[m].next # Nil => node[m].next \in S}
  IN  {m \in All : \A S \in Trees : m \in S}

\* xmlUnlinkNode: what each node's pointers are without n.
Unlinked(n) ==
  LET out == node[n]
  IN  [m \in All |->
        IF m = n THEN [node[n] EXCEPT !.parent = Nil, !.prev = Nil, !.next = Nil]
        ELSE [node[m] EXCEPT
                !.children = IF m = out.parent /\ @ = n THEN out.next ELSE @,
                !.last     = IF m = out.parent /\ @ = n THEN out.prev ELSE @,
                !.next     = IF m = out.prev THEN out.next ELSE @,
                !.prev     = IF m = out.next THEN out.prev ELSE @]]

Init ==
  /\ doc \in Documents /\ node = Parsed(doc)
  /\ attributes = [n \in All |-> IF IsElement(n) THEN {"id", "src"} ELSE {}]
  /\ live = All /\ cur = 2 /\ callers = <<>>

-----------------------------------------------------------------------------
(* traverse, one action for each node.                                      *)

Visit(n) == n # Nil /\ n = cur

\* erase: xmlFreeNode frees the whole subtree.
Erase(n) ==
  /\ Visit(n)
  /\ doc.tag[n] = "comment" \/ (IsElement(n) /\ decide(doc.tag[n]) = "ERASE")
  /\ node' = Unlinked(n) /\ live' = live \ Below(n) /\ cur' = node[n].next
  /\ UNCHANGED <<doc, attributes, callers>>

\* strip of an element without children.
StripEmpty(n) ==
  /\ Visit(n) /\ IsElement(n) /\ decide(doc.tag[n]) = "STRIP"
  /\ node[n].children = Nil
  /\ node' = Unlinked(n) /\ live' = live \ {n} /\ cur' = node[n].next
  /\ UNCHANGED <<doc, attributes, callers>>

SplicedForward(n) ==                                                      \* mutant
  LET out  == node[n]
      list == Siblings(out.children)
  IN  [m \in All |->
        IF m = n THEN Alone
        ELSE [node[m] EXCEPT
                !.parent   = IF m \in list THEN out.parent ELSE @,
                !.children = IF m = out.parent /\ @ = n THEN out.children ELSE @,
                !.last     = IF m = out.parent /\ @ = n THEN out.last ELSE @,
                !.next     = IF m = out.prev THEN out.children
                             ELSE IF m = out.last THEN out.next ELSE @,
                !.prev     = IF m = out.children THEN out.prev ELSE @]]

\* The children of n in its place.
Spliced(n) ==
  LET out  == node[n]
      list == Siblings(out.children)
  IN  [m \in All |->
        IF m = n THEN Alone
        ELSE [node[m] EXCEPT
                !.parent   = IF m \in list THEN out.parent ELSE @,
                !.children = IF m = out.parent /\ @ = n THEN out.children ELSE @,
                !.last     = IF m = out.parent /\ @ = n THEN out.last ELSE @,
                !.next     = IF m = out.prev THEN out.children
                             ELSE IF m = out.last THEN out.next ELSE @,
                !.prev     = IF m = out.next THEN out.last
                             ELSE IF m = out.children THEN out.prev ELSE @]]

AfterStripNext(n) == node[n].next                                         \* mutant

\* The walk goes on with the children, now in the list.
AfterStrip(n) == node[n].children

Strip(n) ==
  /\ Visit(n) /\ IsElement(n) /\ decide(doc.tag[n]) = "STRIP"
  /\ node[n].children # Nil
  /\ node' = Spliced(n) /\ live' = live \ {n} /\ cur' = AfterStrip(n)
  /\ UNCHANGED <<doc, attributes, callers>>

Washed(n) == [attributes EXCEPT ![n] = @ \cap KeptAttributes]

\* Any other node stays, an element after wash; its children are walked in a
\* call of their own.
Keep(n) ==
  /\ Visit(n) /\ doc.tag[n] # "comment"
  /\ (IsElement(n) => decide(doc.tag[n]) = "KEEP")
  /\ attributes' = Washed(n)
  /\ IF node[n].children = Nil
     THEN cur' = node[n].next /\ UNCHANGED callers
     ELSE cur' = node[n].children /\ callers' = <<node[n].next>> \o callers
  /\ UNCHANGED <<doc, node, live>>

\* A list is done: its caller goes on.
Return ==
  /\ cur = Nil /\ callers # <<>>
  /\ cur' = Head(callers) /\ callers' = Tail(callers)
  /\ UNCHANGED <<doc, node, attributes, live>>

Next == \/ \E n \in All : Erase(n) \/ StripEmpty(n) \/ Strip(n) \/ Keep(n)
        \/ Return

Spec     == Init /\ [][Next]_vars
FairSpec == Spec /\ WF_vars(Next)

-----------------------------------------------------------------------------
(* Properties.                                                              *)

Kids(n) == {m \in live : node[m].parent = n}

\* While the walk changes the tree, every node that is not freed has the five
\* pointers it would have if the nodes that are left had been parsed like
\* this, and neither the walk nor a call that waits holds a freed node (strip,
\* erase and the next_node read before them).
TreeIsWhole ==
  /\ ToSet(callers) \cup {cur} \subseteq live \cup {Nil}
  /\ \A n \in live :
       LET p == node[n].parent
       IN  /\ p \in live \cup {Nil}
           /\ node[n].children = FirstOf(Kids(n))
           /\ node[n].last = LastOf(Kids(n))
           /\ node[n].prev = LastOf({m \in Kids(p) : m < n})
           /\ node[n].next = FirstOf({m \in Kids(p) : m > n})

\* What should be left of a document, from its policies alone.  A node is
\* below a if no node behind a up to it hangs further up than on a.
AncestorsIn(d, n) == {a \in 1 .. n - 1 : \A m \in a + 1 .. n : d.parent[m] >= a}

Ancestors(n) == AncestorsIn(doc, n)
Dropped(n)   == doc.tag[n] = "comment" \/ doc.tag[n] \in Erased
Survivors    == {n \in All : doc.tag[n] \notin Stripped
                             /\ \A a \in Ancestors(n) \cup {n} : ~Dropped(a)}
HomeOf(n)    == LastOf(Ancestors(n) \cap Survivors)

Walked == cur = Nil /\ callers = <<>>

Clean ==
  /\ live = Survivors
  /\ \A n \in Survivors :
       node[n].parent = HomeOf(n) /\ attributes[n] \subseteq KeptAttributes

\* The walk ends, and then the tree has exactly the nodes that were neither
\* erased nor stripped, each below its nearest ancestor that is left, with no
\* attribute but those kept (htmlpp.c:158 calls strip "still buggy").
WalkCleans == <>[](Walked /\ Clean)
=============================================================================
