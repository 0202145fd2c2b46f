--------------------------- MODULE HtmlCleanProofs ---------------------------
(***************************************************************************)
(* Proofs about module HtmlClean, for every document.                      *)
(***************************************************************************)
EXTENDS HtmlClean, SequenceTheorems, WellFoundedInduction, TLAPS

-----------------------------------------------------------------------------
(* The first and the last of a set of nodes.                                *)

IsFirst(x, S) == (S = {} /\ x = Nil) \/ (x \in S /\ \A y \in S : x <= y)
IsLast(x, S)  == (S = {} /\ x = Nil) \/ (x \in S /\ \A y \in S : y <= x)

Lower(S, m)   == {y \in S : y < m}
Greater(S, m) == {y \in S : y > m}

LEMMA HasLeast ==
  ASSUME NEW S \in SUBSET Nat, S # {}
  PROVE  \E x \in S : \A y \in S : x <= y
<1>1. PICK x \in S : \A y \in S : <<y, x>> \notin OpToRel(<, Nat)
      BY NatLessThanWellFounded, WFMin, Zenon
<1>2. ASSUME NEW y \in S PROVE x <= y
  <2>1. y \in Nat /\ x \in Nat
        OBVIOUS
  <2>2. y < x => <<y, x>> \in OpToRel(<, Nat)
        BY <2>1 DEF OpToRel
  <2>3. ~(y < x)
        BY <1>1, <2>2, Zenon
  <2> QED BY <2>1, <2>3
<1> QED BY <1>2

LEMMA HasGreatest ==
  ASSUME NEW N \in Nat, NEW S \in SUBSET (1 .. N), S # {}
  PROVE  \E x \in S : \A y \in S : y <= x
<1> DEFINE T == {N - x : x \in S}
<1>0. \A x \in S : N - x \in Nat
      OBVIOUS
<1> HIDE DEF T
<1>1. T \in SUBSET Nat /\ T # {}
      BY <1>0, Zenon DEF T
<1>2. PICK t \in T : \A y \in T : t <= y
      BY <1>1, HasLeast, Zenon
<1>3. PICK x \in S : t = N - x
      BY <1>2, Zenon DEF T
<1>4. ASSUME NEW y \in S PROVE y <= x
  <2>1. N - y \in T
        BY Zenon DEF T
  <2>2. t <= N - y
        BY <1>2, <2>1, Zenon
  <2>3. x \in Nat /\ y \in Nat
        OBVIOUS
  <2> QED BY <1>3, <2>2, <2>3
<1> QED BY <1>4

LEMMA FirstIs ==
  ASSUME NEW S \in SUBSET Nat, NEW x
  PROVE  IsFirst(x, S) <=> x = FirstOf(S)
<1>1. CASE S = {}
      BY <1>1 DEF IsFirst, FirstOf
<1>2. CASE S # {}
  <2>1. PICK z \in S : \A y \in S : z <= y
        BY <1>2, HasLeast, Zenon
  <2>2. Min(S) \in S /\ \A y \in S : Min(S) <= y
        BY <2>1, Zenon DEF Min
  <2>3. \A a, b \in S : (\A y \in S : a <= y) /\ (\A y \in S : b <= y) => a = b
    <3>1. ASSUME NEW a \in S, NEW b \in S, \A y \in S : a <= y, \A y \in S : b <= y
          PROVE  a = b
      <4>1. a <= b /\ b <= a /\ a \in Nat /\ b \in Nat
            BY <3>1
      <4> QED BY <4>1
    <3> QED BY <3>1
  <2>4. IsFirst(x, S) => x = Min(S)
        BY <1>2, <2>2, <2>3, Zenon DEF IsFirst
  <2>5. FirstOf(S) = Min(S)
        BY <1>2 DEF FirstOf
  <2>6. IsFirst(Min(S), S)
        BY <2>2, Zenon DEF IsFirst
  <2> QED BY <2>4, <2>5, <2>6, Zenon
<1> QED BY <1>1, <1>2

LEMMA LastIs ==
  ASSUME NEW N \in Nat, NEW S \in SUBSET (1 .. N), NEW x
  PROVE  IsLast(x, S) <=> x = LastOf(S)
<1>1. CASE S = {}
      BY <1>1 DEF IsLast, LastOf
<1>2. CASE S # {}
  <2>1. PICK z \in S : \A y \in S : y <= z
        BY <1>2, HasGreatest, Zenon
  <2>1a. \A a, b : a >= b <=> b <= a
        OBVIOUS
  <2>2. Max(S) \in S /\ \A y \in S : y <= Max(S)
        BY <2>1, <2>1a, Zenon DEF Max
  <2>3. \A a, b \in S : (\A y \in S : y <= a) /\ (\A y \in S : y <= b) => a = b
    <3>1. ASSUME NEW a \in S, NEW b \in S, \A y \in S : y <= a, \A y \in S : y <= b
          PROVE  a = b
      <4>1. a <= b /\ b <= a /\ a \in Nat /\ b \in Nat
            BY <3>1
      <4> QED BY <4>1
    <3> QED BY <3>1
  <2>4. IsLast(x, S) => x = Max(S)
        BY <1>2, <2>2, <2>3, Zenon DEF IsLast
  <2>5. LastOf(S) = Max(S)
        BY <1>2 DEF LastOf
  <2>6. IsLast(Max(S), S)
        BY <2>2, Zenon DEF IsLast
  <2> QED BY <2>4, <2>5, <2>6, Zenon
<1> QED BY <1>1, <1>2
-----------------------------------------------------------------------------
(* The invariant.  The pointers of a node are those its place asks for;     *)
(* the nodes stand in the order of the file; and the nodes that wait stand  *)
(* behind the current one, each further up than those called after it.      *)

up(n)     == node[n].parent
Before(n) == Lower(Kids(up(n)), n)
After(n)  == Greater(Kids(up(n)), n)

Pointers == [parent : Nat, children : Nat, last : Nat, prev : Nat, next : Nat]

Nodes ==
  /\ doc \in Documents /\ Len(doc.tag) \in Nat /\ All = 1 .. Len(doc.tag)
  /\ live \subseteq All
  /\ node \in [All -> Pointers]

Wired ==
  \A n \in live :
    /\ up(n) \in live \cup {Nil}
    /\ IsFirst(node[n].children, Kids(n)) /\ IsLast(node[n].last, Kids(n))
    /\ IsLast(node[n].prev, Before(n)) /\ IsFirst(node[n].next, After(n))

Ordered ==
  \A n \in live :
    /\ up(n) < n /\ (n # 1 => up(n) # Nil)
    /\ \A m \in live : up(n) < m /\ m < n => up(m) >= up(n)

\* b waits for a.
Behind(a, b) == a # Nil /\ b # Nil => up(b) < up(a) /\ a < b

Waiting ==
  /\ cur \in (live \ {1}) \cup {Nil}
  /\ callers \in Seq((live \ {1}) \cup {Nil})
  /\ \A k \in DOMAIN callers : Behind(cur, callers[k])
  /\ \A j, k \in DOMAIN callers : j < k => Behind(callers[j], callers[k])

TreeInv == Nodes /\ Wired /\ Ordered /\ Waiting

LEMMA NodeType ==
  ASSUME Nodes
  PROVE  /\ live \subseteq Nat \ {0}
         /\ \A n \in live : /\ n \in All /\ up(n) \in Nat
                            /\ node[n].children \in Nat /\ node[n].last \in Nat
                            /\ node[n].prev \in Nat /\ node[n].next \in Nat
<1>1. live \subseteq Nat \ {0} /\ \A n \in live : n \in All /\ node[n] \in Pointers
      BY DEF Nodes
<1> QED BY <1>1 DEF Pointers, up

LEMMA KidsType ==
  ASSUME Nodes, NEW n
  PROVE  /\ Kids(n) \subseteq live /\ Kids(n) \in SUBSET (1 .. Len(doc.tag))
         /\ Kids(n) \in SUBSET Nat
         /\ Before(n) \in SUBSET (1 .. Len(doc.tag)) /\ After(n) \in SUBSET Nat
<1>1. live \subseteq 1 .. Len(doc.tag) /\ Len(doc.tag) \in Nat
      BY DEF Nodes
<1>2. \A p : Kids(p) \subseteq live
      BY Zenon DEF Kids
<1>3. Before(n) \subseteq Kids(up(n)) /\ After(n) \subseteq Kids(up(n))
      BY Zenon DEF Before, After, Lower, Greater
<1>4. 1 .. Len(doc.tag) \subseteq Nat
      BY <1>1
<1> QED BY <1>1, <1>2, <1>3, <1>4, Zenon

\* The pointers of the property are those of Wired.
LEMMA WholeIsWired ==
  ASSUME Nodes
  PROVE  TreeIsWhole <=> /\ ToSet(callers) \cup {cur} \subseteq live \cup {Nil}
                         /\ Wired
<1>1. Len(doc.tag) \in Nat
      BY DEF Nodes
<1>2. \A n : /\ IsFirst(node[n].children, Kids(n)) <=> node[n].children = FirstOf(Kids(n))
             /\ IsLast(node[n].last, Kids(n)) <=> node[n].last = LastOf(Kids(n))
             /\ IsLast(node[n].prev, Before(n)) <=> node[n].prev = LastOf(Before(n))
             /\ IsFirst(node[n].next, After(n)) <=> node[n].next = FirstOf(After(n))
      BY <1>1, KidsType, FirstIs, LastIs
<1> DEFINE W(n) == /\ node[n].parent \in live \cup {Nil}
                   /\ node[n].children = FirstOf(Kids(n))
                   /\ node[n].last = LastOf(Kids(n))
                   /\ node[n].prev = LastOf({m \in Kids(node[n].parent) : m < n})
                   /\ node[n].next = FirstOf({m \in Kids(node[n].parent) : m > n})
           V(n) == /\ up(n) \in live \cup {Nil}
                   /\ IsFirst(node[n].children, Kids(n)) /\ IsLast(node[n].last, Kids(n))
                   /\ IsLast(node[n].prev, Before(n)) /\ IsFirst(node[n].next, After(n))
<1>3. \A n : W(n) <=> V(n)
      BY <1>2, Zenon DEF Before, After, Lower, Greater, up
<1>4. TreeIsWhole <=> /\ ToSet(callers) \cup {cur} \subseteq live \cup {Nil}
                      /\ \A n \in live : W(n)
      BY Zenon DEF TreeIsWhole
<1>5. Wired <=> \A n \in live : V(n)
      BY Zenon DEF Wired
<1> QED BY <1>3, <1>4, <1>5, Zenon

-----------------------------------------------------------------------------
(* A list of siblings, without one of them or with its children for it.     *)

LEMMA LastLower ==
  ASSUME NEW S, NEW m, NEW x
  PROVE  IsLast(x, Lower(S, m)) <=> \/ x = Nil /\ \A y \in S : ~(y < m)
                                    \/ x \in S /\ x < m /\ \A y \in S : y < m => y <= x
BY Zenon DEF IsLast, Lower

LEMMA FirstGreater ==
  ASSUME NEW S, NEW m, NEW x
  PROVE  IsFirst(x, Greater(S, m)) <=> \/ x = Nil /\ \A y \in S : ~(y > m)
                                       \/ x \in S /\ x > m /\ \A y \in S : y > m => x <= y
BY Zenon DEF IsFirst, Greater

LEMMA WithoutOne ==
  ASSUME NEW S \in SUBSET (Nat \ {0}), NEW n \in S, NEW before \in Nat, NEW after \in Nat,
         IsLast(before, Lower(S, n)), IsFirst(after, Greater(S, n))
  PROVE  /\ \A x \in Nat : IsFirst(x, S) => IsFirst(IF x = n THEN after ELSE x, S \ {n})
         /\ \A x \in Nat : IsLast(x, S) => IsLast(IF x = n THEN before ELSE x, S \ {n})
         /\ \A m \in S \ {n}, x \in Nat :
              /\ IsLast(x, Lower(S, m))
                   => IsLast(IF m = after THEN before ELSE x, Lower(S \ {n}, m))
              /\ IsFirst(x, Greater(S, m))
                   => IsFirst(IF m = before THEN after ELSE x, Greater(S \ {n}, m))
<1>1. /\ \/ before = Nil /\ \A y \in S : ~(y < n)
         \/ before \in S /\ before < n /\ \A y \in S : y < n => y <= before
      /\ \/ after = Nil /\ \A y \in S : ~(y > n)
         \/ after \in S /\ after > n /\ \A y \in S : y > n => after <= y
      BY LastLower, FirstGreater
<1>2. \A y \in S : y \in Nat /\ y # Nil
      BY DEF Nil
<1>3. ASSUME NEW x \in Nat, IsFirst(x, S)
      PROVE  IsFirst(IF x = n THEN after ELSE x, S \ {n})
  <2>1. x \in S /\ \A y \in S : x <= y
        BY <1>3 DEF IsFirst
  <2>2. CASE x = n
    <3>1. after = Nil => \A y \in S : y = n
          BY <1>1, <1>2, <2>1, <2>2
    <3>2. after # Nil => after \in S \ {n} /\ \A y \in S \ {n} : after <= y
          BY <1>1, <1>2, <2>1, <2>2
    <3> QED BY <2>2, <3>1, <3>2 DEF IsFirst
  <2>3. CASE x # n
        BY <2>1, <2>3 DEF IsFirst
  <2> QED BY <2>2, <2>3
<1>4. ASSUME NEW x \in Nat, IsLast(x, S)
      PROVE  IsLast(IF x = n THEN before ELSE x, S \ {n})
  <2>1. x \in S /\ \A y \in S : y <= x
        BY <1>4 DEF IsLast
  <2>2. CASE x = n
    <3>1. before = Nil => \A y \in S : y = n
          BY <1>1, <1>2, <2>1, <2>2
    <3>2. before # Nil => before \in S \ {n} /\ \A y \in S \ {n} : y <= before
          BY <1>1, <1>2, <2>1, <2>2
    <3> QED BY <2>2, <3>1, <3>2 DEF IsLast
  <2>3. CASE x # n
        BY <2>1, <2>3 DEF IsLast
  <2> QED BY <2>2, <2>3
<1>5. ASSUME NEW m \in S \ {n}, NEW x \in Nat, IsLast(x, Lower(S, m))
      PROVE  IsLast(IF m = after THEN before ELSE x, Lower(S \ {n}, m))
  <2>1. \/ x = Nil /\ \A y \in S : ~(y < m)
        \/ x \in S /\ x < m /\ \A y \in S : y < m => y <= x
        BY <1>5, LastLower, Zenon
  <2>2. CASE m = after
    <3>1. \A y \in S \ {n} : y < m <=> y < n
          BY <1>1, <1>2, <2>2
    <3>2. /\ before = Nil => \A y \in S \ {n} : ~(y < m)
          /\ before # Nil => before \in S \ {n} /\ before < m
          /\ before # Nil => \A y \in S \ {n} : y < m => y <= before
          BY <1>1, <1>2, <3>1
    <3>3. IsLast(before, Lower(S \ {n}, m))
          BY <3>2, Zenon DEF IsLast, Lower
    <3> QED BY <2>2, <3>3
  <2>3. CASE m # after
    <3>1. x # n
          BY <1>1, <1>2, <2>1, <2>3
    <3>2. /\ x = Nil => \A y \in S \ {n} : ~(y < m)
          /\ x # Nil => x \in S \ {n} /\ x < m
          /\ x # Nil => \A y \in S \ {n} : y < m => y <= x
          BY <1>2, <2>1, <3>1
    <3>3. IsLast(x, Lower(S \ {n}, m))
          BY <3>2, Zenon DEF IsLast, Lower
    <3> QED BY <2>3, <3>3
  <2> QED BY <2>2, <2>3
<1>6. ASSUME NEW m \in S \ {n}, NEW x \in Nat, IsFirst(x, Greater(S, m))
      PROVE  IsFirst(IF m = before THEN after ELSE x, Greater(S \ {n}, m))
  <2>1. \/ x = Nil /\ \A y \in S : ~(y > m)
        \/ x \in S /\ x > m /\ \A y \in S : y > m => x <= y
        BY <1>6, FirstGreater, Zenon
  <2>2. CASE m = before
    <3>1. \A y \in S \ {n} : y > m <=> y > n
          BY <1>1, <1>2, <2>2
    <3>2. /\ after = Nil => \A y \in S \ {n} : ~(y > m)
          /\ after # Nil => after \in S \ {n} /\ after > m
          /\ after # Nil => \A y \in S \ {n} : y > m => after <= y
          BY <1>1, <1>2, <3>1
    <3>3. IsFirst(after, Greater(S \ {n}, m))
          BY <3>2, Zenon DEF IsFirst, Greater
    <3> QED BY <2>2, <3>3
  <2>3. CASE m # before
    <3>1. x # n
          BY <1>1, <1>2, <2>1, <2>3
    <3>2. /\ x = Nil => \A y \in S \ {n} : ~(y > m)
          /\ x # Nil => x \in S \ {n} /\ x > m
          /\ x # Nil => \A y \in S \ {n} : y > m => x <= y
          BY <1>2, <2>1, <3>1
    <3>3. IsFirst(x, Greater(S \ {n}, m))
          BY <3>2, Zenon DEF IsFirst, Greater
    <3> QED BY <2>3, <3>3
  <2> QED BY <2>2, <2>3
<1> QED BY <1>3, <1>4, <1>5, <1>6, Zenon

\* T has the list C, from first to last, where S has n.
Replaces(T, S, n, before, after, C, first, last) ==
  /\ \A x \in Nat : IsFirst(x, S) => IsFirst(IF x = n THEN first ELSE x, T)
  /\ \A x \in Nat : IsLast(x, S) => IsLast(IF x = n THEN last ELSE x, T)
  /\ \A m \in S \ {n}, x \in Nat :
       /\ IsLast(x, Lower(S, m)) => IsLast(IF m = after THEN last ELSE x, Lower(T, m))
       /\ IsFirst(x, Greater(S, m)) => IsFirst(IF m = before THEN first ELSE x, Greater(T, m))
  /\ \A m \in C, x \in Nat :
       /\ IsLast(x, Lower(C, m)) => IsLast(IF m = first THEN before ELSE x, Lower(T, m))
       /\ IsFirst(x, Greater(C, m)) => IsFirst(IF m = last THEN after ELSE x, Greater(T, m))

LEMMA ManyForOne ==
  ASSUME NEW S \in SUBSET (Nat \ {0}), NEW n \in S, NEW before \in Nat, NEW after \in Nat,
         IsLast(before, Lower(S, n)), IsFirst(after, Greater(S, n)),
         NEW C \in SUBSET (Nat \ {0}), n \notin C, NEW first \in C, NEW last \in C,
         \A k \in C : /\ first <= k /\ k <= last
                      /\ \A y \in S : (y < n => y < k) /\ (y > n => y > k)
  PROVE  Replaces((S \ {n}) \cup C, S, n, before, after, C, first, last)
<1> DEFINE T == (S \ {n}) \cup C
<1>1. /\ \/ before = Nil /\ \A y \in S : ~(y < n)
         \/ before \in S /\ before < n /\ \A y \in S : y < n => y <= before
      /\ \/ after = Nil /\ \A y \in S : ~(y > n)
         \/ after \in S /\ after > n /\ \A y \in S : y > n => after <= y
      BY LastLower, FirstGreater
<1>2. /\ \A y \in S : y \in Nat /\ y # Nil
      /\ \A y \in C : y \in Nat /\ y # Nil /\ y \notin S
  <2>1. \A y \in C : y \in Nat /\ y # Nil /\ y # n
        BY DEF Nil
  <2>2. ASSUME NEW y \in C, y \in S PROVE FALSE
        BY <2>1, <2>2
  <2> QED BY <2>1, <2>2 DEF Nil
<1>3. /\ first \in C /\ \A y \in C : first <= y
      /\ last \in C /\ \A y \in C : y <= last
      OBVIOUS
<1>4. /\ \A y \in T : (y \in S /\ y # n) \/ y \in C
      /\ \A y \in S : y # n => y \in T
      /\ \A y \in C : y \in T
      BY DEF T
<1>5. /\ \A y \in S : y # n => y < n \/ y > n
      /\ \A k \in C, y \in S : (y < n => y < k) /\ (y > n => y > k)
      BY <1>2
<1> HIDE DEF T
<1>6. ASSUME NEW x \in Nat, IsFirst(x, S)
      PROVE  IsFirst(IF x = n THEN first ELSE x, T)
  <2>1. x \in S /\ \A y \in S : x <= y
        BY <1>6 DEF IsFirst
  <2>2. CASE x = n
    <3>1. \A y \in S : y # n => y > n
          BY <1>2, <1>5, <2>1, <2>2
    <3>2. \A y \in S : y # n => first <= y
          BY <1>2, <1>3, <1>5, <3>1
    <3>3. first \in T /\ \A y \in T : first <= y
          BY <1>3, <1>4, <3>2
    <3> QED BY <2>2, <3>3 DEF IsFirst
  <2>3. CASE x # n
    <3>1. \A y \in C : x <= y
          BY <1>2, <1>5, <2>1, <2>3
    <3>2. x \in T /\ \A y \in T : x <= y
          BY <1>4, <2>1, <2>3, <3>1
    <3> QED BY <2>3, <3>2 DEF IsFirst
  <2> QED BY <2>2, <2>3
<1>7. ASSUME NEW x \in Nat, IsLast(x, S)
      PROVE  IsLast(IF x = n THEN last ELSE x, T)
  <2>1. x \in S /\ \A y \in S : y <= x
        BY <1>7 DEF IsLast
  <2>2. CASE x = n
    <3>1. \A y \in S : y # n => y < n
          BY <1>2, <1>5, <2>1, <2>2
    <3>2. \A y \in S : y # n => y <= last
          BY <1>2, <1>3, <1>5, <3>1
    <3>3. last \in T /\ \A y \in T : y <= last
          BY <1>3, <1>4, <3>2
    <3> QED BY <2>2, <3>3 DEF IsLast
  <2>3. CASE x # n
    <3>1. \A y \in C : y <= x
          BY <1>2, <1>5, <2>1, <2>3
    <3>2. x \in T /\ \A y \in T : y <= x
          BY <1>4, <2>1, <2>3, <3>1
    <3> QED BY <2>3, <3>2 DEF IsLast
  <2> QED BY <2>2, <2>3
<1>8. ASSUME NEW m \in S \ {n}, NEW x \in Nat, IsLast(x, Lower(S, m))
      PROVE  IsLast(IF m = after THEN last ELSE x, Lower(T, m))
  <2>1. \/ x = Nil /\ \A y \in S : ~(y < m)
        \/ x \in S /\ x < m /\ \A y \in S : y < m => y <= x
        BY <1>8, LastLower
  <2>2. CASE m = after
    <3>1. m > n /\ \A y \in S : y # n => (y < m <=> y < n)
          BY <1>1, <1>2, <2>2
    <3>2. last < m /\ \A y \in S : y # n /\ y < m => y <= last
          BY <1>2, <1>3, <1>5, <3>1
    <3>3. last \in T /\ \A y \in T : y < m => y <= last
          BY <1>3, <1>4, <3>2
    <3> QED BY <2>2, <3>2, <3>3, LastLower, Zenon
  <2>3. CASE m # after
    <3>1. x # n
          BY <1>1, <1>2, <2>1, <2>3
    <3>2. x = Nil => m < n
          BY <1>2, <1>5, <2>1
    <3>3. x = Nil => \A y \in T : ~(y < m)
      <4>1. x = Nil => \A y \in S : ~(y < m)
            BY <1>2, <2>1
      <4>2. x = Nil => \A y \in C : ~(y < m)
            BY <1>2, <1>5, <3>2
      <4> QED BY <1>4, <4>1, <4>2
    <3>4. x # Nil => \A y \in C : y < m => y <= x
      <4>1. CASE m < n
            BY <4>1, <1>2, <1>5
      <4>2. CASE m > n
        <5>1. after \in S /\ after > n /\ after <= m
              BY <4>2, <1>1
        <5>2. after < m
              BY <5>1, <2>3, <1>2
        <5>3. x # Nil => after <= x
              BY <2>1, <5>1, <5>2
        <5>4. x # Nil => x > n
              BY <2>1, <5>1, <5>3, <1>2
        <5> QED BY <5>4, <2>1, <1>2, <1>5
      <4> QED BY <4>1, <4>2, <1>5
    <3>5. x # Nil => x \in T /\ x < m /\ \A y \in T : y < m => y <= x
          BY <1>4, <2>1, <3>1, <3>4
    <3> QED BY <2>3, <3>3, <3>5, LastLower, Zenon
  <2> QED BY <2>2, <2>3
<1>9. ASSUME NEW m \in S \ {n}, NEW x \in Nat, IsFirst(x, Greater(S, m))
      PROVE  IsFirst(IF m = before THEN first ELSE x, Greater(T, m))
  <2>1. \/ x = Nil /\ \A y \in S : ~(y > m)
        \/ x \in S /\ x > m /\ \A y \in S : y > m => x <= y
        BY <1>9, FirstGreater
  <2>2. CASE m = before
    <3>1. m < n /\ \A y \in S : y # n => (y > m <=> y > n)
          BY <1>1, <1>2, <2>2
    <3>2. first > m /\ \A y \in S : y # n /\ y > m => first <= y
          BY <1>2, <1>3, <1>5, <3>1
    <3>3. first \in T /\ \A y \in T : y > m => first <= y
          BY <1>3, <1>4, <3>2
    <3> QED BY <2>2, <3>2, <3>3, FirstGreater, Zenon
  <2>3. CASE m # before
    <3>1. x # n
          BY <1>1, <1>2, <2>1, <2>3
    <3>2. x = Nil => m > n
          BY <1>2, <1>5, <2>1
    <3>3. x = Nil => \A y \in T : ~(y > m)
      <4>1. x = Nil => \A y \in S : ~(y > m)
            BY <1>2, <2>1
      <4>2. x = Nil => \A y \in C : ~(y > m)
            BY <1>2, <1>5, <3>2
      <4> QED BY <1>4, <4>1, <4>2
    <3>4. x # Nil => \A y \in C : y > m => x <= y
      <4>1. CASE m > n
            BY <4>1, <1>2, <1>5
      <4>2. CASE m < n
        <5>1. before \in S /\ before < n /\ m <= before
              BY <4>2, <1>1
        <5>2. m < before
              BY <5>1, <2>3, <1>2
        <5>3. x # Nil => x <= before
              BY <2>1, <5>1, <5>2
        <5>4. x # Nil => x < n
              BY <2>1, <5>1, <5>3, <1>2
        <5> QED BY <5>4, <2>1, <1>2, <1>5
      <4> QED BY <4>1, <4>2, <1>5
    <3>5. x # Nil => x \in T /\ x > m /\ \A y \in T : y > m => x <= y
          BY <1>4, <2>1, <3>1, <3>4
    <3> QED BY <2>3, <3>3, <3>5, FirstGreater, Zenon
  <2> QED BY <2>2, <2>3
<1>10. ASSUME NEW m \in C, NEW x \in Nat, IsLast(x, Lower(C, m))
       PROVE  IsLast(IF m = first THEN before ELSE x, Lower(T, m))
  <2>1. \/ x = Nil /\ \A y \in C : ~(y < m)
        \/ x \in C /\ x < m /\ \A y \in C : y < m => y <= x
        BY <1>10, LastLower
  <2>2. CASE m = first
    <3>1. \A y \in C : ~(y < m)
          BY <1>2, <1>3, <2>2
    <3>2. \A y \in S : y # n /\ y < m => y < n
          BY <1>2, <1>5
    <3>3. before = Nil => \A y \in T : ~(y < m)
          BY <1>1, <1>2, <1>4, <3>1, <3>2
    <3>4. before # Nil => before \in T /\ before < m /\ \A y \in T : y < m => y <= before
      <4>1. before # Nil => before \in S /\ before # n /\ before < n
            BY <1>1, <1>2
      <4>2. before # Nil => before \in T /\ before < m
            BY <4>1, <1>4, <1>5
      <4> QED BY <4>2, <1>1, <1>4, <3>1, <3>2
    <3> QED BY <2>2, <3>3, <3>4, LastLower, Zenon
  <2>3. CASE m # first
    <3>1. x # Nil
          BY <1>2, <1>3, <2>1, <2>3
    <3>2. \A y \in S : y # n /\ y < m => y <= x
          BY <1>2, <1>5, <2>1, <3>1
    <3>3. x \in T /\ x < m /\ \A y \in T : y < m => y <= x
          BY <1>4, <2>1, <3>1, <3>2
    <3> QED BY <2>3, <3>3, LastLower, Zenon
  <2> QED BY <2>2, <2>3
<1>11. ASSUME NEW m \in C, NEW x \in Nat, IsFirst(x, Greater(C, m))
       PROVE  IsFirst(IF m = last THEN after ELSE x, Greater(T, m))
  <2>1. \/ x = Nil /\ \A y \in C : ~(y > m)
        \/ x \in C /\ x > m /\ \A y \in C : y > m => x <= y
        BY <1>11, FirstGreater
  <2>2. CASE m = last
    <3>1. \A y \in C : ~(y > m)
          BY <1>2, <1>3, <2>2
    <3>2. \A y \in S : y # n /\ y > m => y > n
          BY <1>2, <1>5
    <3>3. after = Nil => \A y \in T : ~(y > m)
          BY <1>1, <1>2, <1>4, <3>1, <3>2
    <3>4. after # Nil => after \in T /\ after > m /\ \A y \in T : y > m => after <= y
      <4>1. after # Nil => after \in S /\ after # n /\ after > n
            BY <1>1, <1>2
      <4>2. after # Nil => after \in T /\ after > m
            BY <4>1, <1>4, <1>5
      <4> QED BY <4>2, <1>1, <1>4, <3>1, <3>2
    <3> QED BY <2>2, <3>3, <3>4, FirstGreater, Zenon
  <2>3. CASE m # last
    <3>1. x # Nil
          BY <1>2, <1>3, <2>1, <2>3
    <3>2. \A y \in S : y # n /\ y > m => x <= y
          BY <1>2, <1>5, <2>1, <3>1
    <3>3. x \in T /\ x > m /\ \A y \in T : y > m => x <= y
          BY <1>4, <2>1, <3>1, <3>2
    <3> QED BY <2>3, <3>3, FirstGreater, Zenon
  <2> QED BY <2>2, <2>3
<1> QED BY <1>6, <1>7, <1>8, <1>9, <1>10, <1>11, Zenon DEF T, Replaces

-----------------------------------------------------------------------------
(* The lists and trees of libxml2 by their pointers.                        *)

\* A set that has the first of the children and the node behind each of
\* them it has, has them all.
LEMMA KidsInList ==
  ASSUME Nodes, Wired, NEW n \in live, NEW S,
         node[n].children # Nil => node[n].children \in S,
         \A k \in Kids(n) : k \in S /\ node[k].next # Nil => node[k].next \in S
  PROVE  Kids(n) \subseteq S
<1>1. PICK c \in Nat : c = node[n].children
      BY NodeType
<1>2. Kids(n) # {} => c \in Kids(n) /\ \A k \in Kids(n) : c <= k
      BY <1>1 DEF Wired, IsFirst
<1>3. /\ Kids(n) \subseteq live /\ Kids(n) \in SUBSET Nat /\ Nil \notin Kids(n)
      BY NodeType, KidsType DEF Nil
<1>4. \A k \in Kids(n) : /\ IsLast(node[k].prev, Lower(Kids(n), k))
                         /\ IsFirst(node[k].next, Greater(Kids(n), k))
      BY <1>3 DEF Wired, Before, After, Kids, up
<1> SUFFICES ASSUME Kids(n) \ S # {} PROVE FALSE
    BY Zenon
<1>5. PICK x \in Kids(n) \ S : \A y \in Kids(n) \ S : x <= y
      BY <1>3, HasLeast
<1>6. x \in Nat /\ c < x /\ c \in Kids(n)
      BY <1>1, <1>2, <1>3, <1>5
<1>7. PICK y : y = node[x].prev
      OBVIOUS
<1>8. y \in Kids(n) /\ y < x /\ \A z \in Kids(n) : z < x => z <= y
  <2>1. IsLast(y, Lower(Kids(n), x))
        BY <1>4, <1>5, <1>7
  <2>2. c \in Lower(Kids(n), x)
        BY <1>6 DEF Lower
  <2> QED BY <2>1, <2>2 DEF IsLast, Lower
<1>9. y \in S
      BY <1>3, <1>5, <1>6, <1>8
<1>10. PICK z : z = node[y].next
       OBVIOUS
<1>11. z \in Kids(n) /\ z > y /\ z <= x
  <2>1. IsFirst(z, Greater(Kids(n), y))
        BY <1>4, <1>8, <1>10
  <2>2. x \in Greater(Kids(n), y)
        BY <1>3, <1>5, <1>6, <1>8 DEF Greater
  <2> QED BY <2>1, <2>2 DEF IsFirst, Greater
<1>12. z \in S
       BY <1>3, <1>8, <1>9, <1>10, <1>11
<1>13. x # z /\ z < x
       BY <1>3, <1>5, <1>6, <1>11, <1>12
<1> QED BY <1>3, <1>6, <1>8, <1>11, <1>13

\* The list from the first child on is all the children.
LEMMA SiblingsAreKids ==
  ASSUME Nodes, Wired, NEW n \in live, node[n].children # Nil
  PROVE  Siblings(node[n].children) = Kids(n)
<1>1. PICK c \in Nat : c = node[n].children
      BY NodeType
<1>2. c \in Kids(n)
      BY <1>1 DEF Wired, IsFirst
<1>3. Kids(n) \subseteq live /\ Kids(n) \in SUBSET All
      BY KidsType DEF Nodes
<1>4. \A k \in Kids(n) : node[k].next # Nil => node[k].next \in Kids(n)
  <2>1. \A k \in Kids(n) : IsFirst(node[k].next, Greater(Kids(n), k))
        BY <1>3 DEF Wired, After, Kids, up
  <2> QED BY <2>1, FirstGreater, Zenon
<1> DEFINE Lists == {S \in SUBSET All :
                       c \in S /\ \A m \in S : node[m].next # Nil => node[m].next \in S}
<1>5. Kids(n) \in Lists
      BY <1>2, <1>3, <1>4
<1>6. \A S \in Lists : Kids(n) \subseteq S
      BY <1>1, KidsInList
<1> HIDE DEF Lists
<1>7. {m \in All : \A S \in Lists : m \in S} = Kids(n)
      BY <1>3, <1>5, <1>6
<1>8. Siblings(c) = {m \in All : \A S \in Lists : m \in S}
      BY DEF Siblings, Lists
<1> QED BY <1>1, <1>7, <1>8

\* What xmlFreeNode frees is n and all nodes whose parent it frees.
LEMMA BelowType ==
  ASSUME Nodes, Wired, Ordered, NEW n \in live
  PROVE  /\ Below(n) \in SUBSET live /\ n \in Below(n) /\ up(n) \notin Below(n)
         /\ \A m \in live : up(m) \in Below(n) => m \in Below(n)
         /\ \A m \in Below(n) : m = n \/ (up(m) \in Below(n) /\ up(m) >= n /\ m > n)
<1>1. /\ n \in Nat /\ live \subseteq All /\ live \subseteq Nat \ {0} /\ up(n) < n
      /\ \A m \in live : /\ up(m) \in Nat /\ m \in Nat /\ up(m) < m
                         /\ node[m].children \in Nat /\ node[m].next \in Nat
      BY NodeType DEF Nodes, Ordered
<1>2. \A m \in live : /\ node[m].children # Nil => /\ node[m].children \in live
                                                  /\ up(node[m].children) = m
                      /\ node[m].next # Nil => /\ node[m].next \in live /\ node[m].next > m
                                               /\ up(node[m].next) = up(m)
  <2>1. ASSUME NEW m \in live
        PROVE  /\ node[m].children # Nil => node[m].children \in Kids(m)
               /\ node[m].next # Nil => node[m].next \in Kids(up(m)) /\ node[m].next > m
    <3>1. IsFirst(node[m].children, Kids(m)) /\ IsFirst(node[m].next, Greater(Kids(up(m)), m))
          BY DEF Wired, After
    <3> QED BY <3>1, FirstGreater, Zenon DEF IsFirst
  <2> QED BY <2>1 DEF Kids, up
<1> DEFINE Closed(S) == /\ \A m \in S : node[m].children # Nil => node[m].children \in S
                        /\ \A m \in S \ {n} : node[m].next # Nil => node[m].next \in S
           Trees == {S \in SUBSET All : n \in S /\ Closed(S)}
           D == {m \in All : \A S \in Trees : m \in S}
<1>3. Below(n) = D
      BY DEF Below
<1>4. \A S \in SUBSET live : n \in S /\ Closed(S) => D \subseteq S
      BY <1>1
<1>5. n \in D /\ Closed(D)
  <2>1. n \in D
        BY <1>1
  <2>2. \A m \in D : node[m].children # Nil /\ m \in live => node[m].children \in D
        BY <1>1, <1>2
  <2>3. \A m \in D \ {n} : node[m].next # Nil /\ m \in live => node[m].next \in D
        BY <1>1, <1>2
  <2>4. D \subseteq live
    <3>1. Closed(live)
          BY <1>2
    <3> QED BY <3>1, <1>4
  <2> QED BY <2>1, <2>2, <2>3, <2>4
<1> HIDE DEF D, Trees
<1>6. D \subseteq {n} \cup {m \in live : m > n /\ up(m) >= n}
  <2> DEFINE S == {n} \cup {m \in live : m > n /\ up(m) >= n}
  <2>1. n \in S /\ S \in SUBSET live
        OBVIOUS
  <2>2. ASSUME NEW m \in S, node[m].children # Nil
        PROVE  node[m].children \in S
    <3>1. /\ m \in live /\ m \in Nat /\ m >= n
          /\ node[m].children \in live /\ up(node[m].children) = m
          /\ node[m].children \in Nat /\ m < node[m].children
          BY <1>1, <1>2, <2>2
    <3> QED BY <1>1, <3>1
  <2>3. ASSUME NEW m \in S \ {n}, node[m].next # Nil
        PROVE  node[m].next \in S
    <3>1. /\ m \in live /\ m \in Nat /\ m > n /\ up(m) >= n
          /\ node[m].next \in live /\ up(node[m].next) = up(m) /\ node[m].next > m
          /\ node[m].next \in Nat
          BY <1>1, <1>2, <2>3
    <3> QED BY <1>1, <3>1
  <2> QED BY <1>4, <2>1, <2>2, <2>3
<1>7. up(n) \notin D
      BY <1>1, <1>6
<1>8. ASSUME NEW m \in live, up(m) \in D
      PROVE  m \in D
  <2>1. PICK q \in live : q = up(m)
        BY <1>6, <1>8
  <2>2. Kids(q) \subseteq D
    <3>1. node[q].children # Nil => node[q].children \in D
          BY <1>5, <1>8, <2>1
    <3>2. \A k \in Kids(q) : k # n
          BY <1>7, <1>8, <2>1 DEF Kids, up
    <3>3. \A k \in Kids(q) : k \in D /\ node[k].next # Nil => node[k].next \in D
          BY <1>5, <3>2
    <3> QED BY <3>1, <3>3, KidsInList
  <2> QED BY <2>1, <2>2 DEF Kids, up
<1>9. D \subseteq {n} \cup {m \in D : up(m) \in D}
  <2> DEFINE S == {n} \cup {m \in D : up(m) \in D}
  <2>1. n \in S /\ S \in SUBSET live /\ S \subseteq D
        BY <1>5, <1>6
  <2>2. ASSUME NEW m \in S, node[m].children # Nil
        PROVE  node[m].children \in S
    <3>1. node[m].children \in D /\ up(node[m].children) = m
          BY <1>2, <1>5, <2>1, <2>2
    <3> QED BY <2>1, <3>1
  <2>3. ASSUME NEW m \in S \ {n}, node[m].next # Nil
        PROVE  node[m].next \in S
    <3>1. node[m].next \in D /\ up(node[m].next) = up(m) /\ up(m) \in D
          BY <1>2, <1>5, <2>1, <2>3
    <3> QED BY <3>1
  <2> QED BY <1>4, <2>1, <2>2, <2>3
<1> QED BY <1>3, <1>5, <1>6, <1>7, <1>8, <1>9

-----------------------------------------------------------------------------
(* A node is taken out of the tree.                                         *)

LEMMA PointerFields ==
  ASSUME NEW r \in Pointers
  PROVE  /\ r.children \in Nat /\ r.last \in Nat /\ r.next \in Nat /\ r.prev \in Nat
         /\ r.parent \in Nat
         /\ [r EXCEPT !.parent = Nil, !.prev = Nil, !.next = Nil] \in Pointers
         /\ Alone \in Pointers
<1>1. /\ r.children \in Nat /\ r.last \in Nat /\ r.next \in Nat /\ r.prev \in Nat
      /\ r.parent \in Nat
      BY DEF Pointers
<1>2. Nil \in Nat /\ Alone \in Pointers
      BY DEF Nil, Alone, Pointers
<1>3. [r EXCEPT !.parent = Nil, !.prev = Nil, !.next = Nil] \in Pointers
      BY <1>2 DEF Pointers
<1> QED BY <1>1, <1>2, <1>3

LEMMA UnlinkedFields ==
  ASSUME Nodes, NEW n \in live
  PROVE  /\ Unlinked(n) \in [All -> Pointers]
         /\ \A m \in All \ {n} :
              /\ Unlinked(n)[m].parent = up(m)
              /\ Unlinked(n)[m].children
                   = IF m = up(n) /\ node[m].children = n THEN node[n].next ELSE node[m].children
              /\ Unlinked(n)[m].last
                   = IF m = up(n) /\ node[m].last = n THEN node[n].prev ELSE node[m].last
              /\ Unlinked(n)[m].next
                   = IF m = node[n].prev THEN node[n].next ELSE node[m].next
              /\ Unlinked(n)[m].prev
                   = IF m = node[n].next THEN node[n].prev ELSE node[m].prev
<1>1. node \in [All -> Pointers] /\ n \in All
      BY DEF Nodes
<1>2. node[n] \in Pointers /\ \A m \in All : node[m] \in Pointers
      BY <1>1
<1>3. \A m \in All : /\ node[m].children \in Nat /\ node[m].last \in Nat
                     /\ node[m].next \in Nat /\ node[m].prev \in Nat
      BY <1>2, PointerFields
<1>4. ASSUME NEW m \in All, m # n
      PROVE  /\ Unlinked(n)[m] \in Pointers
             /\ Unlinked(n)[m].parent = up(m)
             /\ Unlinked(n)[m].children
                  = IF m = up(n) /\ node[m].children = n THEN node[n].next ELSE node[m].children
             /\ Unlinked(n)[m].last
                  = IF m = up(n) /\ node[m].last = n THEN node[n].prev ELSE node[m].last
             /\ Unlinked(n)[m].next
                  = IF m = node[n].prev THEN node[n].next ELSE node[m].next
             /\ Unlinked(n)[m].prev
                  = IF m = node[n].next THEN node[n].prev ELSE node[m].prev
  <2> DEFINE c == IF m = up(n) /\ node[m].children = n THEN node[n].next ELSE node[m].children
             l == IF m = up(n) /\ node[m].last = n THEN node[n].prev ELSE node[m].last
             x == IF m = node[n].prev THEN node[n].next ELSE node[m].next
             v == IF m = node[n].next THEN node[n].prev ELSE node[m].prev
  <2>1. c \in Nat /\ l \in Nat /\ x \in Nat /\ v \in Nat
        BY <1>1, <1>3
  <2>2. Unlinked(n)[m]
          = [node[m] EXCEPT !.children = c, !.last = l, !.next = x, !.prev = v]
        BY <1>1, <1>4 DEF Unlinked, up
  <2> HIDE DEF c, l, x, v
  <2> DEFINE q == [node[m] EXCEPT !.children = c, !.last = l, !.next = x, !.prev = v]
  <2>3. node[m] \in Pointers
        BY <1>2
  <2>4. /\ q \in Pointers /\ q.parent = node[m].parent
        /\ q.children = c /\ q.last = l /\ q.next = x /\ q.prev = v
        BY <2>1, <2>3 DEF Pointers
  <2>5. /\ Unlinked(n)[m] \in Pointers /\ Unlinked(n)[m].parent = node[m].parent
        /\ Unlinked(n)[m].children = c /\ Unlinked(n)[m].last = l
        /\ Unlinked(n)[m].next = x /\ Unlinked(n)[m].prev = v
        BY <2>2, <2>4
  <2> QED BY <2>5 DEF c, l, x, v, up
<1>5. Unlinked(n)[n] \in Pointers
  <2>1. Unlinked(n)[n] = [node[n] EXCEPT !.parent = Nil, !.prev = Nil, !.next = Nil]
        BY <1>1 DEF Unlinked
  <2> QED BY <1>2, <2>1, PointerFields
<1>6. \A m \in All : Unlinked(n)[m] \in Pointers
      BY <1>4, <1>5
<1>7. DOMAIN Unlinked(n) = All /\ Unlinked(n) = [m \in All |-> Unlinked(n)[m]]
      BY DEF Unlinked
<1>8. Unlinked(n) \in [All -> Pointers]
      BY <1>6, <1>7
<1> QED BY <1>4, <1>8

\* n goes with D, all that hangs on it.
LEMMA RemovalKeepsTree ==
  ASSUME Nodes, Wired, Ordered, NEW n \in live, n # 1,
         NEW D \in SUBSET live, n \in D, up(n) \notin D,
         \A m \in live : up(m) \in D => m \in D,
         \A m \in D : m = n \/ up(m) \in D,
         doc' = doc, node' = Unlinked(n), live' = live \ D
  PROVE  Nodes' /\ Wired' /\ Ordered'
<1>1. /\ n \in All /\ n \in Nat /\ live \subseteq Nat \ {0}
      /\ node[n].next \in Nat /\ node[n].prev \in Nat
      BY NodeType
<1>2. PICK p \in live : p = up(n)
      BY DEF Wired, Ordered
<1>3. PICK a \in Nat, b \in Nat : a = node[n].next /\ b = node[n].prev
      BY <1>1
<1>4. Nodes'
  <2>1. node' \in [All -> Pointers]
        BY UnlinkedFields
  <2>2. All' = All
        BY DEF All
  <2> QED BY <2>1, <2>2 DEF Nodes
<1>5. \A m \in live' :
        /\ m \in live /\ m \notin D /\ m # n /\ m \in Nat
        /\ (up(m))' = up(m)
        /\ node'[m].children = IF m = p /\ node[m].children = n THEN a ELSE node[m].children
        /\ node'[m].last = IF m = p /\ node[m].last = n THEN b ELSE node[m].last
        /\ node'[m].next = IF m = b THEN a ELSE node[m].next
        /\ node'[m].prev = IF m = a THEN b ELSE node[m].prev
  <2>1. ASSUME NEW m \in live' PROVE m \in All \ {n} /\ m \in live /\ m \notin D /\ m # n /\ m \in Nat
        BY NodeType
  <2> QED BY <1>2, <1>3, <2>1, UnlinkedFields DEF up
<1>6. Nil \notin live /\ p \in live' /\ p # Nil
      BY <1>1, <1>2 DEF Nil
<1>7. \A m \in live : m # n /\ up(m) \notin D => m \notin D
      OBVIOUS
<1>8. \A q \in live' \cup {Nil} : q # p => Kids(q)' = Kids(q)
  <2>1. ASSUME NEW q \in live' \cup {Nil}, q # p, NEW m \in live, up(m) = q
        PROVE  m \in live'
        BY <1>2, <1>6, <1>7, <2>1
  <2> QED BY <2>1, <1>5 DEF Kids, up
<1>9. Kids(p)' = Kids(p) \ {n}
  <2>1. \A m \in live : up(m) = p /\ m # n => m \in live'
        BY <1>6, <1>7
  <2> QED BY <2>1, <1>5 DEF Kids, up
<1>10. /\ Kids(p) \in SUBSET (Nat \ {0}) /\ n \in Kids(p)
       /\ IsLast(b, Lower(Kids(p), n)) /\ IsFirst(a, Greater(Kids(p), n))
  <2>1. Kids(p) \subseteq live
        BY DEF Kids
  <2>2. IsLast(node[n].prev, Before(n)) /\ IsFirst(node[n].next, After(n))
        BY DEF Wired
  <2>3. n \in Kids(p)
        BY <1>2 DEF Kids, up
  <2> QED BY <1>1, <1>2, <1>3, <2>1, <2>2, <2>3 DEF Before, After
<1> DEFINE T == Kids(p) \ {n}
<1>11. /\ \A x \in Nat : IsFirst(x, Kids(p)) => IsFirst(IF x = n THEN a ELSE x, T)
       /\ \A x \in Nat : IsLast(x, Kids(p)) => IsLast(IF x = n THEN b ELSE x, T)
       /\ \A m \in T, x \in Nat :
              /\ IsLast(x, Lower(Kids(p), m)) => IsLast(IF m = a THEN b ELSE x, Lower(T, m))
              /\ IsFirst(x, Greater(Kids(p), m)) => IsFirst(IF m = b THEN a ELSE x, Greater(T, m))
       BY <1>10, WithoutOne
<1> HIDE DEF T
<1>12. ASSUME NEW m \in live'
       PROVE  /\ (up(m))' \in live' \cup {Nil}
              /\ IsFirst(node'[m].children, Kids(m)') /\ IsLast(node'[m].last, Kids(m)')
              /\ IsLast(node'[m].prev, Lower(Kids(up(m))', m))
              /\ IsFirst(node'[m].next, Greater(Kids(up(m))', m))
  <2>1. /\ m \in live /\ m # Nil /\ m # n
        /\ node[m].children \in Nat /\ node[m].last \in Nat
        /\ node[m].prev \in Nat /\ node[m].next \in Nat
        BY <1>5, <1>6, NodeType
  <2>2. PICK q \in live \cup {Nil} : q = up(m)
        BY <2>1 DEF Wired
  <2>3. /\ IsFirst(node[m].children, Kids(m)) /\ IsLast(node[m].last, Kids(m))
        /\ IsLast(node[m].prev, Lower(Kids(q), m)) /\ IsFirst(node[m].next, Greater(Kids(q), m))
        BY <2>1, <2>2 DEF Wired, Before, After
  <2>4. q \in live' \cup {Nil} /\ (up(m))' = q
        BY <1>5, <2>1, <2>2
  <2>5. IsFirst(node'[m].children, Kids(m)') /\ IsLast(node'[m].last, Kids(m)')
    <3>1. CASE m = p
      <4>1. Kids(m)' = T
            BY <1>9, <3>1 DEF T
      <4>2. /\ node'[m].children = IF node[m].children = n THEN a ELSE node[m].children
            /\ node'[m].last = IF node[m].last = n THEN b ELSE node[m].last
            BY <1>5, <3>1
      <4> QED BY <4>1, <4>2, <3>1, <1>11, <2>1, <2>3
    <3>2. CASE m # p
          BY <1>5, <1>8, <2>1, <2>3, <3>2
    <3> QED BY <3>1, <3>2
  <2>6. IsLast(node'[m].prev, Lower(Kids(q)', m)) /\ IsFirst(node'[m].next, Greater(Kids(q)', m))
    <3>1. CASE q = p
      <4>1. Kids(q)' = T
            BY <1>9, <3>1 DEF T
      <4>2. m \in Kids(p)
            BY <2>1, <2>2, <3>1 DEF Kids, up
      <4>3. m \in T
            BY <2>1, <4>2 DEF T
      <4> QED BY <4>1, <4>3, <3>1, <1>5, <1>11, <2>1, <2>3
    <3>2. CASE q # p
      <4>1. m # a /\ m # b
            BY <1>1, <1>2, <1>3, <1>10, <2>1, <2>2, <3>2, LastLower, FirstGreater DEF Kids, up
      <4>2. Kids(q)' = Kids(q) /\ node'[m].prev = node[m].prev /\ node'[m].next = node[m].next
            BY <4>1, <1>5, <1>8, <2>4, <3>2
      <4> QED BY <4>2, <2>3
    <3> QED BY <3>1, <3>2
  <2> QED BY <2>4, <2>5, <2>6
<1>13. Wired'
       BY <1>12 DEF Wired, Before, After
<1>14. Ordered'
       BY <1>5 DEF Ordered
<1> QED BY <1>4, <1>13, <1>14

-----------------------------------------------------------------------------
(* The children of a node take its place.                                   *)

LEMMA SplicedFields ==
  ASSUME Nodes, NEW n \in live,
         NEW C, C = Siblings(node[n].children)
  PROVE  /\ Spliced(n) \in [All -> Pointers]
         /\ \A m \in All \ {n} :
              /\ Spliced(n)[m].parent = IF m \in C THEN up(n) ELSE up(m)
              /\ Spliced(n)[m].children
                   = IF m = up(n) /\ node[m].children = n THEN node[n].children
                     ELSE node[m].children
              /\ Spliced(n)[m].last
                   = IF m = up(n) /\ node[m].last = n THEN node[n].last ELSE node[m].last
              /\ Spliced(n)[m].next
                   = IF m = node[n].prev THEN node[n].children
                     ELSE IF m = node[n].last THEN node[n].next ELSE node[m].next
              /\ Spliced(n)[m].prev
                   = IF m = node[n].next THEN node[n].last
                     ELSE IF m = node[n].children THEN node[n].prev ELSE node[m].prev
<1>1. node \in [All -> Pointers] /\ n \in All
      BY DEF Nodes
<1>2. node[n] \in Pointers /\ \A m \in All : node[m] \in Pointers
      BY <1>1
<1>3. \A m \in All : /\ node[m].children \in Nat /\ node[m].last \in Nat
                     /\ node[m].next \in Nat /\ node[m].prev \in Nat
                     /\ node[m].parent \in Nat
      BY <1>2, PointerFields
<1>4. ASSUME NEW m \in All, m # n
      PROVE  /\ Spliced(n)[m] \in Pointers
             /\ Spliced(n)[m].parent = IF m \in C THEN up(n) ELSE up(m)
             /\ Spliced(n)[m].children
                  = IF m = up(n) /\ node[m].children = n THEN node[n].children
                    ELSE node[m].children
             /\ Spliced(n)[m].last
                  = IF m = up(n) /\ node[m].last = n THEN node[n].last ELSE node[m].last
             /\ Spliced(n)[m].next
                  = IF m = node[n].prev THEN node[n].children
                    ELSE IF m = node[n].last THEN node[n].next ELSE node[m].next
             /\ Spliced(n)[m].prev
                  = IF m = node[n].next THEN node[n].last
                    ELSE IF m = node[n].children THEN node[n].prev ELSE node[m].prev
  <2> DEFINE u == IF m \in C THEN up(n) ELSE up(m)
             c == IF m = up(n) /\ node[m].children = n THEN node[n].children
                  ELSE node[m].children
             l == IF m = up(n) /\ node[m].last = n THEN node[n].last ELSE node[m].last
             x == IF m = node[n].prev THEN node[n].children
                  ELSE IF m = node[n].last THEN node[n].next ELSE node[m].next
             v == IF m = node[n].next THEN node[n].last
                  ELSE IF m = node[n].children THEN node[n].prev ELSE node[m].prev
  <2>1. u \in Nat /\ c \in Nat /\ l \in Nat /\ x \in Nat /\ v \in Nat
        BY <1>1, <1>3 DEF up
  <2> DEFINE q == [node[m] EXCEPT !.parent = u, !.children = c, !.last = l, !.next = x, !.prev = v]
  <2>2. Spliced(n)[m] = q
        BY <1>1, <1>4 DEF Spliced, up
  <2> HIDE DEF u, c, l, x, v
  <2>3. node[m] \in Pointers
        BY <1>2
  <2>4. /\ q \in Pointers /\ q.parent = u
        /\ q.children = c /\ q.last = l /\ q.next = x /\ q.prev = v
        BY <2>1, <2>3 DEF Pointers
  <2>5. /\ Spliced(n)[m] \in Pointers /\ Spliced(n)[m].parent = u
        /\ Spliced(n)[m].children = c /\ Spliced(n)[m].last = l
        /\ Spliced(n)[m].next = x /\ Spliced(n)[m].prev = v
        BY <2>2, <2>4
  <2> QED BY <2>5 DEF u, c, l, x, v, up
<1>5. Spliced(n)[n] \in Pointers
  <2>1. Spliced(n)[n] = Alone
        BY <1>1 DEF Spliced
  <2> QED BY <1>2, <2>1, PointerFields
<1>6. \A m \in All : Spliced(n)[m] \in Pointers
      BY <1>4, <1>5
<1>7. DOMAIN Spliced(n) = All /\ Spliced(n) = [m \in All |-> Spliced(n)[m]]
      BY DEF Spliced
<1>8. Spliced(n) \in [All -> Pointers]
      BY <1>6, <1>7
<1> QED BY <1>4, <1>8

\* The children of n stand between the siblings before and after n.
LEMMA KidsInPlace ==
  ASSUME Nodes, Ordered, NEW n \in live, NEW k \in Kids(n)
  PROVE  /\ k > n
         /\ \A m \in live : /\ m < n => m < k
                            /\ m > n /\ up(m) < n => m > k
<1>1. k \in live /\ up(k) = n
      BY DEF Kids, up
<1>2. /\ n \in Nat /\ k \in Nat /\ k > n
      /\ \A m \in live : m \in Nat /\ up(m) \in Nat
      BY <1>1, NodeType DEF Ordered
<1>3. ASSUME NEW m \in live, m > n, up(m) < n
      PROVE  m > k
  <2>1. n < m /\ m < k => up(m) >= n
        BY <1>1 DEF Ordered
  <2>2. m # k
        BY <1>1, <1>2, <1>3
  <2> QED BY <1>2, <1>3, <2>1, <2>2
<1> QED BY <1>2, <1>3

LEMMA SpliceKeepsTree ==
  ASSUME Nodes, Wired, Ordered, NEW n \in live, n # 1, node[n].children # Nil,
         doc' = doc, node' = Spliced(n), live' = live \ {n}
  PROVE  /\ Nodes' /\ Wired' /\ Ordered'
         /\ \A m \in live' : (up(m))' = IF m \in Kids(n) THEN up(n) ELSE up(m)
<1>1. /\ n \in All /\ n \in Nat /\ live \subseteq Nat \ {0}
      /\ node[n].next \in Nat /\ node[n].prev \in Nat
      /\ node[n].children \in Nat /\ node[n].last \in Nat
      BY NodeType
<1>2. PICK p \in live : p = up(n)
      BY DEF Wired, Ordered
<1>3. PICK a \in Nat, b \in Nat, f \in Nat, l \in Nat :
        a = node[n].next /\ b = node[n].prev /\ f = node[n].children /\ l = node[n].last
      BY <1>1
<1>4. PICK C : C = Kids(n)
      OBVIOUS
<1>5. /\ C \in SUBSET (Nat \ {0}) /\ C \subseteq live /\ C # {}
      /\ IsFirst(f, C) /\ IsLast(l, C)
      /\ \A m \in live : m \in C <=> up(m) = n
      BY <1>1, <1>3, <1>4 DEF Wired, Kids, up, IsFirst
<1>6. p \in Nat /\ p < n /\ p # Nil /\ Nil \notin live
      BY <1>1, <1>2 DEF Ordered, Nil
<1>7. Nodes'
  <2>1. node' \in [All -> Pointers]
        BY SplicedFields
  <2>2. All' = All
        BY DEF All
  <2> QED BY <2>1, <2>2 DEF Nodes
<1>8. \A m \in live' :
        /\ m \in live /\ m # n /\ m \in Nat
        /\ (up(m))' = IF m \in C THEN p ELSE up(m)
        /\ node'[m].children = IF m = p /\ node[m].children = n THEN f ELSE node[m].children
        /\ node'[m].last = IF m = p /\ node[m].last = n THEN l ELSE node[m].last
        /\ node'[m].next = IF m = b THEN f ELSE IF m = l THEN a ELSE node[m].next
        /\ node'[m].prev = IF m = a THEN l ELSE IF m = f THEN b ELSE node[m].prev
  <2>1. ASSUME NEW m \in live' PROVE m \in All \ {n} /\ m \in live /\ m # n /\ m \in Nat
        BY NodeType
  <2>2. C = Siblings(node[n].children)
        BY <1>4, SiblingsAreKids
  <2> QED BY <1>2, <1>3, <2>1, <2>2, SplicedFields DEF up
<1>9. p \in live' /\ \A m \in live : m # n => m \in live'
      BY <1>2, <1>6
<1>10. \A q \in live' \cup {Nil} : q # p => Kids(q)' = Kids(q)
  <2>1. ASSUME NEW q \in live' \cup {Nil}, q # p, NEW m \in live
        PROVE  /\ up(m) = q => m \in live' /\ m \notin C
               /\ m \in live' /\ m \in C => (up(m))' # q
        BY <1>2, <1>5, <1>6, <1>8, <2>1
  <2> QED BY <2>1, <1>8 DEF Kids, up
<1> DEFINE T == (Kids(p) \ {n}) \cup C
<1>11. Kids(p)' = T
  <2>1. \A m \in live : up(m) = p /\ m # n => m \in live' /\ m \notin C
        BY <1>5, <1>6
  <2>2. \A m \in C : m \in live'
        BY <1>5, <1>6, <1>2
  <2>3. \A m \in live' : (up(m))' = p <=> m \in C \/ up(m) = p
        BY <1>8
  <2>4. Kids(p)' = {m \in live' : (up(m))' = p}
        BY DEF Kids, up
  <2>5. Kids(p) = {m \in live : up(m) = p}
        BY DEF Kids, up
  <2>6. n \notin live' /\ live' \subseteq live
        OBVIOUS
  <2> QED BY <2>1, <2>2, <2>3, <2>4, <2>5, <2>6
<1>12. /\ Kids(p) \in SUBSET (Nat \ {0}) /\ n \in Kids(p) /\ Kids(p) \subseteq live
       /\ IsLast(b, Lower(Kids(p), n)) /\ IsFirst(a, Greater(Kids(p), n))
       /\ C \cap Kids(p) = {}
       /\ \A m \in live : m \in Kids(p) <=> up(m) = p
  <2>1. Kids(p) \subseteq live /\ \A m \in live : m \in Kids(p) <=> up(m) = p
        BY DEF Kids, up
  <2>2. IsLast(node[n].prev, Before(n)) /\ IsFirst(node[n].next, After(n))
        BY DEF Wired
  <2>3. n \in Kids(p)
        BY <1>2, <2>1
  <2>4. \A m \in C : m \notin Kids(p)
        BY <1>5, <1>6, <2>1
  <2> QED BY <1>1, <1>2, <1>3, <2>1, <2>2, <2>3, <2>4 DEF Before, After
<1>13. /\ f \in C /\ l \in C /\ n \notin C
       /\ \A k \in C : /\ f <= k /\ k <= l
                       /\ \A y \in Kids(p) : (y < n => y < k) /\ (y > n => y > k)
  <2>1. \A k \in C, y \in Kids(p) : (y < n => y < k) /\ (y > n => y > k)
        BY <1>4, <1>6, <1>12, KidsInPlace
  <2>2. f \in C /\ l \in C /\ \A k \in C : f <= k /\ k <= l
        BY <1>5 DEF IsFirst, IsLast
  <2>3. n \notin C
        BY <1>12
  <2> QED BY <2>1, <2>2, <2>3
<1>14. /\ \A x \in Nat : IsFirst(x, Kids(p)) => IsFirst(IF x = n THEN f ELSE x, T)
       /\ \A x \in Nat : IsLast(x, Kids(p)) => IsLast(IF x = n THEN l ELSE x, T)
       /\ \A m \in Kids(p) \ {n}, x \in Nat :
            /\ IsLast(x, Lower(Kids(p), m)) => IsLast(IF m = a THEN l ELSE x, Lower(T, m))
            /\ IsFirst(x, Greater(Kids(p), m)) => IsFirst(IF m = b THEN f ELSE x, Greater(T, m))
       /\ \A m \in C, x \in Nat :
            /\ IsLast(x, Lower(C, m)) => IsLast(IF m = f THEN b ELSE x, Lower(T, m))
            /\ IsFirst(x, Greater(C, m)) => IsFirst(IF m = l THEN a ELSE x, Greater(T, m))
  <2>1. Replaces(T, Kids(p), n, b, a, C, f, l)
        BY <1>5, <1>12, <1>13, ManyForOne
  <2> QED BY <2>1, Zenon DEF Replaces
<1> HIDE DEF T
<1>15. /\ f \in C /\ l \in C
       /\ a \in Kids(p) \cup {Nil} /\ b \in Kids(p) \cup {Nil}
  <2>1. a \in Kids(p) \cup {Nil}
        BY <1>12, FirstGreater
  <2>2. b \in Kids(p) \cup {Nil}
        BY <1>12, LastLower
  <2> QED BY <1>13, <2>1, <2>2
<1>16. ASSUME NEW m \in live'
       PROVE  /\ (up(m))' \in live' \cup {Nil}
              /\ IsFirst(node'[m].children, Kids(m)') /\ IsLast(node'[m].last, Kids(m)')
              /\ IsLast(node'[m].prev, Lower(Kids(up(m))', m))
              /\ IsFirst(node'[m].next, Greater(Kids(up(m))', m))
  <2>1. /\ m \in live /\ m # Nil /\ m # n
        /\ node[m].children \in Nat /\ node[m].last \in Nat
        /\ node[m].prev \in Nat /\ node[m].next \in Nat
        BY <1>6, <1>8, NodeType
  <2>2. PICK q \in live \cup {Nil} : q = up(m)
        BY <2>1 DEF Wired
  <2>3. /\ IsFirst(node[m].children, Kids(m)) /\ IsLast(node[m].last, Kids(m))
        /\ IsLast(node[m].prev, Lower(Kids(q), m)) /\ IsFirst(node[m].next, Greater(Kids(q), m))
        BY <2>1, <2>2 DEF Wired, Before, After
  <2>4. IsFirst(node'[m].children, Kids(m)') /\ IsLast(node'[m].last, Kids(m)')
    <3>1. CASE m = p
      <4>1. /\ node'[m].children = IF node[m].children = n THEN f ELSE node[m].children
            /\ node'[m].last = IF node[m].last = n THEN l ELSE node[m].last
            BY <1>8, <3>1
      <4> QED BY <4>1, <3>1, <1>11, <1>14, <2>1, <2>3
    <3>2. CASE m # p
          BY <1>8, <1>10, <2>1, <2>3, <3>2
    <3> QED BY <3>1, <3>2
  <2>5. CASE m \in C
    <3>1. (up(m))' = p /\ q = n /\ Kids(q) = C /\ m \notin Kids(p)
          BY <1>4, <1>5, <1>8, <1>12, <2>1, <2>2, <2>5
    <3>2. m # a /\ m # b
          BY <1>15, <2>1, <3>1
    <3>3. /\ node'[m].prev = IF m = f THEN b ELSE node[m].prev
          /\ node'[m].next = IF m = l THEN a ELSE node[m].next
          BY <1>8, <3>2
    <3>4. IsLast(node'[m].prev, Lower(T, m)) /\ IsFirst(node'[m].next, Greater(T, m))
          BY <1>14, <2>1, <2>3, <2>5, <3>1, <3>3
    <3>5. Kids(up(m))' = T
          BY <1>11, <3>1
    <3> QED BY <1>9, <2>4, <3>1, <3>4, <3>5
  <2>6. CASE m \notin C
    <3>1. (up(m))' = q /\ q # n /\ q \in live' \cup {Nil} /\ m # f /\ m # l
          BY <1>5, <1>8, <1>9, <1>15, <2>1, <2>2, <2>6
    <3>2. /\ node'[m].prev = IF m = a THEN l ELSE node[m].prev
          /\ node'[m].next = IF m = b THEN f ELSE node[m].next
          BY <1>8, <3>1
    <3>3. Kids(up(m))' = Kids(q)'
          BY <3>1
    <3>4. CASE q = p
      <4>1. m \in Kids(p) \ {n} /\ Kids(q)' = T
            BY <1>11, <1>12, <2>1, <2>2, <3>4
      <4> QED BY <4>1, <3>1, <3>2, <3>3, <3>4, <1>14, <2>1, <2>3, <2>4
    <3>5. CASE q # p
      <4>1. m # a /\ m # b
            BY <1>12, <1>15, <2>1, <2>2, <3>5
      <4>2. Kids(q)' = Kids(q) /\ node'[m].prev = node[m].prev /\ node'[m].next = node[m].next
            BY <4>1, <1>10, <3>1, <3>2, <3>5
      <4> QED BY <4>2, <2>3, <2>4, <3>1, <3>3
    <3> QED BY <3>4, <3>5
  <2> QED BY <2>5, <2>6
<1>17. Wired'
       BY <1>16 DEF Wired, Before, After
<1>18. ASSUME NEW x \in live'
       PROVE  /\ (up(x))' < x /\ (x # 1 => (up(x))' # Nil)
              /\ \A m \in live' : (up(x))' < m /\ m < x => (up(m))' >= (up(x))'
  <2>1. /\ x \in live /\ x \in Nat /\ up(x) \in Nat /\ up(x) < x /\ (x # 1 => up(x) # Nil)
        /\ (up(x))' = IF x \in C THEN p ELSE up(x)
        /\ x \in C <=> up(x) = n
        BY <1>5, <1>8, NodeType DEF Ordered
  <2>2. ASSUME NEW m \in live', (up(x))' < m, m < x
        PROVE  (up(m))' >= (up(x))'
    <3>1. /\ m \in live /\ m \in Nat /\ up(m) \in Nat /\ m # n
          /\ (up(m))' = IF m \in C THEN p ELSE up(m)
          /\ m \in C <=> up(m) = n
          BY <1>5, <1>8, NodeType
    <3>2. /\ up(x) < m /\ m < x => up(m) >= up(x)
          /\ p < m /\ m < n => up(m) >= p
          /\ up(x) < n /\ n < x => p >= up(x)
          BY <1>2, <2>1, <3>1 DEF Ordered
    <3>3. m \in C => n < m
          BY <1>4, KidsInPlace
    <3>4. CASE x \in C
          BY <3>4, <1>1, <1>6, <2>1, <2>2, <3>1, <3>2
    <3>5. CASE x \notin C /\ m \in C
          BY <3>5, <1>1, <1>6, <2>1, <2>2, <3>1, <3>2, <3>3
    <3>6. CASE x \notin C /\ m \notin C
          BY <3>6, <2>1, <2>2, <3>1, <3>2
    <3> QED BY <3>4, <3>5, <3>6
  <2>3. (up(x))' < x /\ (x # 1 => (up(x))' # Nil)
        BY <1>1, <1>6, <2>1
  <2> QED BY <2>2, <2>3
<1>19. Ordered'
       BY <1>18 DEF Ordered
<1>20. \A m \in live' : (up(m))' = IF m \in Kids(n) THEN up(n) ELSE up(m)
       BY <1>2, <1>4, <1>8
<1> QED BY <1>7, <1>17, <1>19, <1>20

-----------------------------------------------------------------------------
(* The nodes that wait.                                                     *)

\* Where the walk can go from a node: all that waited for the node waits for
\* what comes next.
LEMMA GoingOn ==
  ASSUME Nodes, Wired, Ordered, NEW n \in live, n # 1
  PROVE  /\ node[n].next # Nil => /\ node[n].next \in live \ {1}
                                  /\ up(node[n].next) = up(n) /\ node[n].next > n
         /\ node[n].children # Nil => /\ node[n].children \in live \ {1}
                                      /\ up(node[n].children) = n
         /\ Behind(node[n].children, node[n].next)
         /\ \A c \in live : up(c) < up(n) /\ n < c =>
              /\ Behind(node[n].next, c) /\ Behind(node[n].children, c)
              /\ node[n].children < c /\ up(c) # n /\ c \notin Below(n)
<1>1. /\ n \in Nat /\ up(n) \in Nat /\ n > 1 /\ up(n) < n
      /\ node[n].next \in Nat /\ node[n].children \in Nat
      /\ \A c \in live : c \in Nat /\ up(c) \in Nat
      BY NodeType DEF Ordered
<1>2. /\ node[n].children # Nil => node[n].children \in Kids(n)
      /\ node[n].next # Nil => node[n].next \in Kids(up(n)) /\ node[n].next > n
  <2>1. IsFirst(node[n].children, Kids(n)) /\ IsFirst(node[n].next, Greater(Kids(up(n)), n))
        BY DEF Wired, After
  <2> QED BY <2>1, FirstGreater, Zenon DEF IsFirst
<1>3. node[n].next # Nil => /\ node[n].next \in live \ {1}
                            /\ up(node[n].next) = up(n) /\ node[n].next > n
      BY <1>1, <1>2 DEF Kids, up
<1>4. node[n].children # Nil => /\ node[n].children \in live \ {1} /\ node[n].children > n
                                /\ up(node[n].children) = n
      BY <1>1, <1>2, KidsInPlace DEF Kids, up
<1>5. Behind(node[n].children, node[n].next)
  <2>1. node[n].children # Nil /\ node[n].next # Nil => node[n].next > node[n].children
        BY <1>1, <1>2, <1>3, KidsInPlace
  <2> QED BY <1>1, <1>3, <1>4, <2>1 DEF Behind
<1>6. ASSUME NEW c \in live, up(c) < up(n), n < c
      PROVE  /\ Behind(node[n].next, c) /\ Behind(node[n].children, c)
             /\ node[n].children < c /\ up(c) # n /\ c \notin Below(n)
  <2>1. node[n].next # Nil => node[n].next < c
    <3> SUFFICES ASSUME node[n].next # Nil PROVE node[n].next < c
        OBVIOUS
    <3>1. up(n) < c /\ c < node[n].next => up(c) >= up(n)
          BY <1>3 DEF Ordered
    <3>2. c # node[n].next
      <4>1. up(node[n].next) = up(n) /\ ~(up(n) < up(n))
            BY <1>1, <1>3
      <4> QED BY <1>6, <4>1, Zenon
    <3>3. up(n) < c
          BY <1>1, <1>6
    <3>4. ~(c < node[n].next)
      <4>1. ~(up(c) >= up(n))
            BY <1>1, <1>6
      <4> QED BY <3>1, <3>3, <4>1
    <3>5. c \in Nat /\ node[n].next \in Nat
          BY <1>1
    <3> QED BY <3>2, <3>4, <3>5
  <2>2. node[n].children < c
    <3>1. CASE node[n].children = Nil
          BY <1>1, <1>6, <3>1 DEF Nil
    <3>2. CASE node[n].children # Nil
          BY <1>1, <1>2, <1>6, <3>2, KidsInPlace
    <3> QED BY <3>1, <3>2
  <2>3. c \notin Below(n)
        BY <1>1, <1>6, BelowType
  <2> QED BY <1>1, <1>3, <1>4, <1>6, <2>1, <2>2, <2>3 DEF Behind
<1> QED BY <1>3, <1>4, <1>5, <1>6

LEMMA SeqAgain ==
  ASSUME NEW S, NEW T, NEW s \in Seq(S), \A k \in DOMAIN s : s[k] \in T
  PROVE  s \in Seq(T)
<1>1. Len(s) \in Nat /\ DOMAIN s = 1 .. Len(s) /\ s = [k \in 1 .. Len(s) |-> s[k]]
      BY LenProperties
<1> QED BY <1>1, IsASeq

LEMMA CallersType ==
  ASSUME Nodes, Waiting
  PROVE  /\ \A k \in DOMAIN callers : callers[k] \in (live \ {1}) \cup {Nil}
         /\ Len(callers) \in Nat /\ DOMAIN callers = 1 .. Len(callers)
<1> DEFINE W == (live \ {1}) \cup {Nil}
<1>1. callers \in Seq(W)
      BY DEF Waiting
<1> HIDE DEF W
<1>2. Len(callers) \in Nat /\ DOMAIN callers = 1 .. Len(callers)
      BY <1>1, LenProperties
<1>3. \A k \in DOMAIN callers : callers[k] \in W
      BY <1>1, <1>2, ElementOfSeq
<1> QED BY <1>2, <1>3 DEF W

\* The nodes that wait are kept by a step that frees none of them.
LEMMA WaitingKept ==
  ASSUME Nodes, Waiting, cur # Nil, callers' = callers,
         \A c \in live : up(c) < up(cur) /\ cur < c => c \in live' /\ (up(c))' = up(c),
         cur' \in (live' \ {1}) \cup {Nil},
         cur' # Nil => \A c \in live : up(c) < up(cur) /\ cur < c =>
                          (up(cur))' > up(c) /\ cur' < c
  PROVE  Waiting'
<1>1. \A k \in DOMAIN callers :
        /\ callers[k] \in (live \ {1}) \cup {Nil}
        /\ callers[k] # Nil => up(callers[k]) < up(cur) /\ cur < callers[k]
      BY CallersType DEF Waiting, Behind
<1>2. \A k \in DOMAIN callers :
        /\ callers[k] \in (live' \ {1}) \cup {Nil}
        /\ callers[k] # Nil => (up(callers[k]))' = up(callers[k])
      BY <1>1 DEF up
<1>3. callers' \in Seq((live' \ {1}) \cup {Nil})
  <2>1. callers \in Seq((live \ {1}) \cup {Nil})
        BY DEF Waiting
  <2> QED BY <1>2, <2>1, SeqAgain
<1>4. \A k \in DOMAIN callers : Behind(cur, callers[k])'
  <2>1. ASSUME NEW k \in DOMAIN callers, cur' # Nil, callers[k] # Nil
        PROVE  (up(callers[k]))' < (up(cur))' /\ cur' < callers[k]
    <3>1. callers[k] \in live /\ up(callers[k]) < up(cur) /\ cur < callers[k]
          BY <1>1, <2>1
    <3>2. up(callers[k]) < (up(cur))' /\ cur' < callers[k]
          BY <2>1, <3>1
    <3> QED BY <1>2, <2>1, <3>2
  <2> QED BY <2>1 DEF Behind, up
<1>5. \A j, k \in DOMAIN callers : j < k => Behind(callers[j], callers[k])'
  <2>1. \A j, k \in DOMAIN callers : j < k => Behind(callers[j], callers[k])
        BY DEF Waiting
  <2> QED BY <1>2, <2>1 DEF Behind, up
<1> QED BY <1>3, <1>4, <1>5 DEF Waiting

-----------------------------------------------------------------------------
(* The invariant holds.                                                     *)

LEMMA InitInv == ASSUME Init PROVE TreeInv
<1>1. /\ doc \in Documents /\ Len(doc.tag) \in Nat \ {0, 1} /\ All = 1 .. Len(doc.tag)
      /\ live = All /\ cur = 2 /\ callers = <<>> /\ node = Parsed(doc)
      /\ doc.parent[1] = Nil /\ doc.parent[2] = 1
      BY HtmlAssumption DEF Init, All, HtmlAssumption
<1>2. /\ \A n \in All \ {1} : doc.parent[n] \in 1 .. n - 1
      /\ \A m, n \in All : doc.parent[n] < m /\ m < n => doc.parent[m] >= doc.parent[n]
      BY <1>1, HtmlAssumption DEF All, HtmlAssumption
<1> DEFINE K(p) == {n \in All : doc.parent[n] = p}
<1>3. \A n \in All :
        Parsed(doc)[n]
          = [parent |-> doc.parent[n], children |-> FirstOf(K(n)), last |-> LastOf(K(n)),
             prev |-> LastOf(Lower(K(doc.parent[n]), n)),
             next |-> FirstOf(Greater(K(doc.parent[n]), n))]
      BY DEF Parsed, All, Lower, Greater
<1>4. \A p : K(p) \in SUBSET All
      OBVIOUS
<1> HIDE DEF K
<1>5. /\ Len(doc.tag) \in Nat /\ All \in SUBSET Nat
      /\ \A n \in All : /\ Lower(K(doc.parent[n]), n) \in SUBSET All
                        /\ Greater(K(doc.parent[n]), n) \in SUBSET All
      BY <1>1, <1>4 DEF Lower, Greater
<1>6. \A S \in SUBSET All : /\ IsFirst(FirstOf(S), S) /\ FirstOf(S) \in Nat
                            /\ IsLast(LastOf(S), S) /\ LastOf(S) \in Nat
  <2>1. ASSUME NEW S \in SUBSET All
        PROVE  IsFirst(FirstOf(S), S) /\ IsLast(LastOf(S), S)
        BY <1>1, <1>5, FirstIs, LastIs
  <2>2. ASSUME NEW S \in SUBSET All
        PROVE  FirstOf(S) \in Nat /\ LastOf(S) \in Nat
    <3>1. FirstOf(S) \in S \cup {Nil} /\ LastOf(S) \in S \cup {Nil}
          BY <2>1 DEF IsFirst, IsLast
    <3>2. S \cup {Nil} \subseteq Nat
          BY <1>5 DEF Nil
    <3> QED BY <3>1, <3>2
  <2> QED BY <2>1, <2>2
<1>7. \A n \in All : doc.parent[n] \in Nat
      BY <1>1, <1>2 DEF Nil
<1>8. ASSUME NEW n \in All
      PROVE  /\ node[n] \in Pointers /\ up(n) = doc.parent[n]
             /\ node[n].children = FirstOf(K(n)) /\ node[n].last = LastOf(K(n))
             /\ node[n].prev = LastOf(Lower(K(up(n)), n))
             /\ node[n].next = FirstOf(Greater(K(up(n)), n))
  <2>1. /\ FirstOf(K(n)) \in Nat /\ LastOf(K(n)) \in Nat
        /\ LastOf(Lower(K(doc.parent[n]), n)) \in Nat
        /\ FirstOf(Greater(K(doc.parent[n]), n)) \in Nat
        /\ doc.parent[n] \in Nat
        BY <1>4, <1>5, <1>6, <1>7
  <2>2. node[n]
          = [parent |-> doc.parent[n], children |-> FirstOf(K(n)), last |-> LastOf(K(n)),
             prev |-> LastOf(Lower(K(doc.parent[n]), n)),
             next |-> FirstOf(Greater(K(doc.parent[n]), n))]
        BY <1>1, <1>3
  <2>3. node[n] \in Pointers
        BY <2>1, <2>2 DEF Pointers
  <2> QED BY <2>2, <2>3 DEF up
<1>9. Nodes
  <2>1. node = [n \in All |-> node[n]]
        BY <1>1 DEF Parsed, All
  <2> QED BY <1>1, <1>8, <2>1 DEF Nodes
<1>10. \A p : Kids(p) = K(p)
       BY <1>1, <1>8 DEF Kids, K, up
<1>11. ASSUME NEW n \in live
       PROVE  up(n) \in live \cup {Nil}
  <2>1. n = 1 => up(n) = Nil
        BY <1>1, <1>8
  <2>2. n # 1 => up(n) \in 1 .. n - 1
        BY <1>1, <1>2, <1>8
  <2> QED BY <1>1, <2>1, <2>2
<1>12. Wired
  <2>1. ASSUME NEW n \in live
        PROVE  /\ IsFirst(node[n].children, Kids(n)) /\ IsLast(node[n].last, Kids(n))
               /\ IsLast(node[n].prev, Before(n)) /\ IsFirst(node[n].next, After(n))
    <3>1. n \in All /\ up(n) = doc.parent[n]
          BY <1>1, <1>8
    <3>2. IsFirst(node[n].children, Kids(n)) /\ IsLast(node[n].last, Kids(n))
          BY <1>4, <1>6, <1>8, <1>10, <3>1
    <3>3. Before(n) = Lower(K(doc.parent[n]), n) /\ After(n) = Greater(K(doc.parent[n]), n)
          BY <1>10, <3>1 DEF Before, After
    <3> QED BY <1>5, <1>6, <1>8, <3>1, <3>2, <3>3
  <2> QED BY <1>11, <2>1 DEF Wired
<1>13. Ordered
  <2>1. ASSUME NEW n \in live
        PROVE  up(n) < n /\ (n # 1 => up(n) # Nil)
    <3>1. n = 1 => up(n) = 0
          BY <1>1, <1>8 DEF Nil
    <3>2. n # 1 => up(n) \in 1 .. n - 1
          BY <1>1, <1>2, <1>8
    <3> QED BY <1>1, <3>1, <3>2 DEF Nil
  <2> QED BY <1>1, <1>2, <1>8, <2>1 DEF Ordered
<1>14. Waiting
  <2>1. callers \in Seq((live \ {1}) \cup {Nil}) /\ DOMAIN callers = {}
        BY <1>1
  <2>2. cur \in (live \ {1}) \cup {Nil}
    <3>1. \A l \in Nat \ {0, 1} : 2 \in 1 .. l
          OBVIOUS
    <3>2. 2 \in 1 .. Len(doc.tag)
          BY <1>1, <3>1, Zenon
    <3> QED BY <1>1, <3>2
  <2> QED BY <2>1, <2>2 DEF Waiting
<1> QED BY <1>9, <1>12, <1>13, <1>14 DEF TreeInv

\* The walk leaves an element, freed or not, for the next one in its list.
LEMMA RemovalInv ==
  ASSUME TreeInv, NEW n \in live, n # 1, cur = n, NEW D \in SUBSET Below(n), n \in D,
         \A m \in live : up(m) \in D => m \in D,
         \A m \in D : m = n \/ up(m) \in D,
         doc' = doc, node' = Unlinked(n), live' = live \ D,
         cur' = node[n].next, callers' = callers
  PROVE  TreeInv'
<1>1. D \in SUBSET live /\ up(n) \notin D
      BY BelowType DEF TreeInv
<1>2. Nodes' /\ Wired' /\ Ordered'
      BY <1>1, RemovalKeepsTree DEF TreeInv
<1>3. \A m \in live \ D : m \in live' /\ (up(m))' = up(m)
  <2>1. \A m \in All \ {n} : Unlinked(n)[m].parent = up(m)
        BY UnlinkedFields DEF TreeInv
  <2>2. live \subseteq All
        BY DEF TreeInv, Nodes
  <2> QED BY <2>1, <2>2 DEF up
<1>4. \A c \in live : up(c) < up(cur) /\ cur < c => c \notin D /\ Behind(node[n].next, c)
      BY GoingOn DEF TreeInv
<1>5. cur' # Nil => cur' \in live \ D /\ cur' # 1 /\ up(cur') = up(cur)
  <2> SUFFICES ASSUME node[n].next # Nil
               PROVE  /\ node[n].next \in live \ D /\ node[n].next # 1
                      /\ up(node[n].next) = up(n)
      BY Zenon
  <2>1. /\ node[n].next \in live \ {1} /\ up(node[n].next) = up(n) /\ node[n].next > n
        BY GoingOn DEF TreeInv
  <2>2. node[n].next # n
        BY <2>1, NodeType DEF TreeInv
  <2> QED BY <1>1, <2>1, <2>2
<1>6. Waiting'
  <2>1. cur # Nil /\ cur' \in (live' \ {1}) \cup {Nil}
        BY <1>5, NodeType DEF TreeInv, Nil
  <2>2. \A c \in live : up(c) < up(cur) /\ cur < c => c \in live' /\ (up(c))' = up(c)
        BY <1>3, <1>4
  <2>3. cur' # Nil => (up(cur))' = up(n)
    <3>1. cur' # Nil => (up(cur))' = up(cur')
      <4>1. \A m \in live \ D : node'[m].parent = up(m)
            BY <1>3 DEF up
      <4>2. (up(cur))' = node'[cur'].parent
            BY DEF up
      <4> QED BY <1>5, <4>1, <4>2
    <3> QED BY <1>5, <3>1
  <2>4. cur' # Nil => \A c \in live : up(c) < up(cur) /\ cur < c => (up(cur))' > up(c) /\ cur' < c
    <3>1. \A c \in live : c # Nil /\ up(c) \in Nat /\ up(n) \in Nat
          BY NodeType DEF TreeInv, Nil
    <3> QED BY <1>4, <2>3, <3>1 DEF Behind
  <2> QED BY <2>1, <2>2, <2>4, WaitingKept DEF TreeInv
<1> QED BY <1>2, <1>6 DEF TreeInv

LEMMA EraseInv == ASSUME TreeInv, NEW n \in All, Erase(n) PROVE TreeInv'
<1>1. n \in live /\ n # 1 /\ cur = n
      BY DEF Erase, Visit, TreeInv, Waiting
<1> DEFINE D == Below(n)
<1>2. /\ n \in D /\ \A m \in live : up(m) \in D => m \in D
      /\ \A m \in D : m = n \/ up(m) \in D
      BY <1>1, BelowType DEF TreeInv
<1>3. /\ doc' = doc /\ node' = Unlinked(n) /\ live' = live \ D
      /\ cur' = node[n].next /\ callers' = callers
      BY DEF Erase
<1> HIDE DEF D
<1> QED BY <1>1, <1>2, <1>3, RemovalInv DEF D

LEMMA StripEmptyInv == ASSUME TreeInv, NEW n \in All, StripEmpty(n) PROVE TreeInv'
<1>1. n \in live /\ n # 1 /\ cur = n
      BY DEF StripEmpty, Visit, TreeInv, Waiting
<1>2. \A m \in live : up(m) # n
  <2>1. IsFirst(node[n].children, Kids(n)) /\ node[n].children = Nil
        BY <1>1 DEF StripEmpty, TreeInv, Wired
  <2>2. Nil \notin Kids(n)
        BY NodeType DEF TreeInv, Nil, Kids
  <2>3. Kids(n) = {}
        BY <2>1, <2>2 DEF IsFirst
  <2> QED BY <2>3 DEF Kids, up
<1>3. {n} \in SUBSET Below(n)
      BY <1>1, BelowType DEF TreeInv
<1>4. /\ doc' = doc /\ node' = Unlinked(n) /\ live' = live \ {n}
      /\ cur' = node[n].next /\ callers' = callers
      BY DEF StripEmpty
<1>5. n \in {n} /\ (\A m \in live : up(m) \in {n} => m \in {n}) /\ \A m \in {n} : m = n \/ up(m) \in {n}
      BY <1>2
<1> QED BY <1>1, <1>3, <1>4, <1>5, RemovalInv

LEMMA StripInv == ASSUME TreeInv, NEW n \in All, Strip(n) PROVE TreeInv'
<1>1. /\ n \in live /\ n # 1 /\ cur = n /\ node[n].children # Nil
      /\ doc' = doc /\ node' = Spliced(n) /\ live' = live \ {n}
      /\ cur' = node[n].children /\ callers' = callers
      BY DEF Strip, Visit, TreeInv, Waiting, AfterStrip
<1>2. /\ Nodes' /\ Wired' /\ Ordered'
      /\ \A m \in live' : (up(m))' = IF m \in Kids(n) THEN up(n) ELSE up(m)
      BY <1>1, SpliceKeepsTree DEF TreeInv
<1>3. \A c \in live : up(c) < up(cur) /\ cur < c => c \in live' /\ (up(c))' = up(c)
  <2>1. ASSUME NEW c \in live, up(c) < up(n), n < c
        PROVE  c # n /\ c \notin Kids(n)
    <3>1. up(c) # n
          BY <1>1, <2>1, GoingOn DEF TreeInv
    <3>2. c # n
          BY <1>1, <2>1, NodeType DEF TreeInv
    <3> QED BY <3>1, <3>2 DEF Kids, up
  <2> QED BY <1>1, <1>2, <2>1
<1>4. cur' \in live' \ {1} /\ (up(cur))' = up(n)
  <2>1. node[n].children \in live \ {1} /\ up(node[n].children) = n
        BY <1>1, GoingOn DEF TreeInv
  <2>2. up(n) # n
        BY <1>1, NodeType DEF TreeInv, Ordered
  <2>3. node[n].children # n /\ node[n].children \in Kids(n)
        BY <2>1, <2>2 DEF Kids, up
  <2>4. \A m \in live' : m \in Kids(n) => node'[m].parent = up(n)
        BY <1>2 DEF up
  <2>5. (up(cur))' = node'[cur'].parent
        BY DEF up
  <2> QED BY <1>1, <2>1, <2>3, <2>4, <2>5
<1>5. \A c \in live : up(c) < up(cur) /\ cur < c => (up(cur))' > up(c) /\ cur' < c
  <2>1. \A c \in live : up(c) < up(n) /\ n < c => node[n].children < c
        BY <1>1, GoingOn DEF TreeInv
  <2>2. \A c \in live : up(c) \in Nat /\ up(n) \in Nat
        BY <1>1, NodeType DEF TreeInv
  <2> QED BY <1>1, <1>4, <2>1, <2>2
<1>6. cur # Nil
      BY <1>1, NodeType DEF TreeInv, Nil
<1>7. Waiting'
      BY <1>1, <1>3, <1>4, <1>5, <1>6, WaitingKept DEF TreeInv
<1> QED BY <1>2, <1>7 DEF TreeInv

\* A walk that changes no pointer keeps the tree.
LEMMA TreeSame ==
  ASSUME TreeInv, doc' = doc, node' = node, live' = live
  PROVE  /\ Nodes' /\ Wired' /\ Ordered' /\ \A m : (up(m))' = up(m)
         /\ \A a, b : Behind(a, b)' <=> Behind(a, b)
<1>1. \A m : (up(m))' = up(m)
      BY DEF up
<1>2. \A m : Kids(m)' = Kids(m)
      BY DEF Kids
<1>3. Nodes'
      BY DEF TreeInv, Nodes, All
<1>4. Wired' /\ Ordered'
      BY <1>1, <1>2 DEF TreeInv, Wired, Ordered, Before, After, up
<1>5. \A a, b : Behind(a, b)' <=> Behind(a, b)
      BY DEF Behind, up
<1> QED BY <1>1, <1>3, <1>4, <1>5

LEMMA KeepInv == ASSUME TreeInv, NEW n \in All, Keep(n) PROVE TreeInv'
<1>1. n \in live /\ n # 1 /\ cur = n /\ doc' = doc /\ node' = node /\ live' = live
      BY DEF Keep, Visit, TreeInv, Waiting
<1>2. Nodes' /\ Wired' /\ Ordered' /\ \A a, b : Behind(a, b)' <=> Behind(a, b)
      BY <1>1, TreeSame
<1>3. /\ node[n].next \in (live \ {1}) \cup {Nil}
      /\ node[n].children \in (live \ {1}) \cup {Nil}
      /\ Behind(node[n].children, node[n].next)
      /\ \A c \in live : up(c) < up(n) /\ n < c => Behind(node[n].next, c) /\ Behind(node[n].children, c)
      BY <1>1, GoingOn DEF TreeInv
<1>4. \A k \in DOMAIN callers :
        /\ callers[k] \in (live \ {1}) \cup {Nil}
        /\ Behind(node[n].next, callers[k]) /\ Behind(node[n].children, callers[k])
  <2>1. ASSUME NEW k \in DOMAIN callers
        PROVE  /\ callers[k] \in (live \ {1}) \cup {Nil}
               /\ callers[k] # Nil => up(callers[k]) < up(n) /\ n < callers[k]
        BY <1>1, CallersType, NodeType DEF TreeInv, Waiting, Behind, Nil
  <2> QED BY <1>3, <2>1 DEF Behind
<1>5. CASE node[n].children = Nil
  <2>1. cur' = node[n].next /\ callers' = callers
        BY <1>5 DEF Keep
  <2>2. Waiting'
        BY <1>1, <1>2, <1>3, <1>4, <2>1 DEF TreeInv, Waiting
  <2> QED BY <1>2, <2>2 DEF TreeInv
<1>6. CASE node[n].children # Nil
  <2>1. cur' = node[n].children /\ callers' = <<node[n].next>> \o callers
        BY <1>6 DEF Keep
  <2> DEFINE W == (live \ {1}) \cup {Nil}
             x == node[n].next
  <2>2. callers \in Seq(W) /\ x \in W /\ cur' \in W
        BY <1>3, <2>1 DEF TreeInv, Waiting
  <2> HIDE DEF W, x
  <2>3. /\ <<x>> \in Seq(W) /\ Len(<<x>>) = 1 /\ <<x>>[1] = x
        BY <2>2
  <2>4. /\ callers' \in Seq(W) /\ Len(callers') = 1 + Len(callers)
        /\ \A k \in 1 .. 1 + Len(callers) :
             callers'[k] = IF k <= 1 THEN x ELSE callers[k - 1]
    <3>1. callers' = <<x>> \o callers
          BY <2>1 DEF x
    <3>2. /\ <<x>> \o callers \in Seq(W)
          /\ Len(<<x>> \o callers) = Len(<<x>>) + Len(callers)
          /\ \A k \in 1 .. Len(<<x>>) + Len(callers) :
               (<<x>> \o callers)[k] = IF k <= Len(<<x>>) THEN <<x>>[k] ELSE callers[k - Len(<<x>>)]
          BY <2>2, <2>3, ConcatProperties
    <3>3. Len(callers) \in Nat
          BY <2>2, LenProperties
    <3> QED BY <2>3, <3>1, <3>2, <3>3
  <2>5. /\ Len(callers) \in Nat /\ DOMAIN callers = 1 .. Len(callers)
        /\ DOMAIN callers' = 1 .. 1 + Len(callers)
    <3>1. DOMAIN callers' = 1 .. Len(callers')
          BY <2>4, LenProperties
    <3> QED BY <2>2, <2>4, <3>1, LenProperties
  <2>6. \A k \in DOMAIN callers' : \/ k = 1 /\ callers'[k] = x
                                   \/ k - 1 \in DOMAIN callers /\ callers'[k] = callers[k - 1]
        BY <2>4, <2>5
  <2>7. \A k \in DOMAIN callers' : Behind(node[n].children, callers'[k])
        BY <1>3, <1>4, <2>6 DEF x
  <2>8. ASSUME NEW j \in DOMAIN callers', NEW k \in DOMAIN callers', j < k
        PROVE  Behind(callers'[j], callers'[k])
    <3>1. k - 1 \in DOMAIN callers /\ callers'[k] = callers[k - 1]
          BY <2>5, <2>6, <2>8
    <3>2. CASE j = 1
          BY <1>4, <2>6, <3>1, <3>2, <2>5 DEF x
    <3>3. CASE j # 1
      <4>1. j - 1 \in DOMAIN callers /\ callers'[j] = callers[j - 1] /\ j - 1 < k - 1
            BY <2>5, <2>6, <2>8, <3>3
      <4> QED BY <3>1, <4>1 DEF TreeInv, Waiting
    <3> QED BY <3>2, <3>3
  <2>9. Waiting'
    <3>1. callers' \in Seq((live' \ {1}) \cup {Nil}) /\ cur' \in (live' \ {1}) \cup {Nil}
          BY <1>1, <2>2, <2>4 DEF W
    <3>2. \A k \in DOMAIN callers' : Behind(cur', callers'[k])
          BY <2>1, <2>7
    <3>3. /\ \A k \in DOMAIN callers' : Behind(cur, callers[k])'
          /\ \A j, k \in DOMAIN callers' : j < k => Behind(callers[j], callers[k])'
          BY <1>1, <2>8, <3>2 DEF Behind, up
    <3> QED BY <3>1, <3>3 DEF Waiting
  <2> QED BY <1>2, <2>9 DEF TreeInv
<1> QED BY <1>5, <1>6

LEMMA ReturnInv == ASSUME TreeInv, Return PROVE TreeInv'
<1>1. /\ doc' = doc /\ node' = node /\ live' = live /\ callers # <<>>
      /\ cur' = Head(callers) /\ callers' = Tail(callers)
      BY DEF Return
<1>2. Nodes' /\ Wired' /\ Ordered'
      BY <1>1, TreeSame
<1> DEFINE W == (live \ {1}) \cup {Nil}
<1>3. callers \in Seq(W)
      BY DEF TreeInv, Waiting
<1> HIDE DEF W
<1>4. /\ Head(callers) = callers[1] /\ Head(callers) \in W
      /\ Tail(callers) \in Seq(W) /\ Len(Tail(callers)) = Len(callers) - 1
      /\ \A k \in 1 .. Len(Tail(callers)) : Tail(callers)[k] = callers[k + 1]
      /\ DOMAIN callers = 1 .. Len(callers) /\ Len(callers) \in Nat
      /\ DOMAIN Tail(callers) = 1 .. Len(Tail(callers))
  <2>1. Tail(callers) \in Seq(W)
        BY <1>1, <1>3, HeadTailProperties
  <2> QED BY <1>1, <1>3, <2>1, HeadTailProperties, LenProperties
<1>5. Len(callers) >= 1
      BY <1>1, <1>3, <1>4, EmptySeq
<1>6. \A k \in DOMAIN callers' : k + 1 \in DOMAIN callers /\ callers'[k] = callers[k + 1] /\ k \in Nat
      BY <1>1, <1>4
<1>7. \A j, k \in DOMAIN callers : j < k => Behind(callers[j], callers[k])
      BY DEF TreeInv, Waiting
<1>8. /\ \A k \in DOMAIN callers' : Behind(cur', callers'[k])
      /\ \A j, k \in DOMAIN callers' : j < k => Behind(callers'[j], callers'[k])
  <2>1. 1 \in DOMAIN callers
        BY <1>4, <1>5
  <2>2. ASSUME NEW k \in DOMAIN callers' PROVE Behind(cur', callers'[k])
    <3>1. 1 < k + 1
          BY <1>1, <1>4, <2>2
    <3> QED BY <1>1, <1>4, <1>6, <1>7, <2>1, <3>1
  <2>3. ASSUME NEW j \in DOMAIN callers', NEW k \in DOMAIN callers', j < k
        PROVE  Behind(callers'[j], callers'[k])
        BY <1>6, <1>7, <2>3
  <2> QED BY <2>2, <2>3
<1>9. Waiting'
  <2>1. /\ \A k \in DOMAIN callers' : Behind(cur, callers[k])'
        /\ \A j, k \in DOMAIN callers' : j < k => Behind(callers[j], callers[k])'
        BY <1>1, <1>8 DEF Behind, up
  <2> QED BY <1>1, <1>4, <2>1 DEF Waiting, W
<1> QED BY <1>2, <1>9 DEF TreeInv

LEMMA UnchangedInv ==
  ASSUME TreeInv, UNCHANGED <<doc, node, live, cur, callers>>
  PROVE  TreeInv'
<1>1. doc' = doc /\ node' = node /\ live' = live /\ cur' = cur /\ callers' = callers
      OBVIOUS
<1>2. Waiting'
      BY <1>1, TreeSame DEF TreeInv, Waiting, Behind, up
<1> QED BY <1>1, <1>2, TreeSame DEF TreeInv

\* Whatever the file, the walk never leaves the tree torn: after every step
\* the nodes that are left hang together by all five pointers, and neither
\* the walk nor a call that waits holds a freed node (strip and erase of
\* htmlpp.c, and the next_node traverse reads before them).
THEOREM WalkedTreeIsWhole == Spec => []TreeIsWhole
<1>1. Init => TreeInv
      BY InitInv
<1>2. TreeInv /\ [Next]_vars => TreeInv'
  <2> SUFFICES ASSUME TreeInv, [Next]_vars PROVE TreeInv'
      OBVIOUS
  <2>1. ASSUME NEW n \in All, Erase(n) PROVE TreeInv'
        BY <2>1, EraseInv
  <2>2. ASSUME NEW n \in All, StripEmpty(n) PROVE TreeInv'
        BY <2>2, StripEmptyInv
  <2>3. ASSUME NEW n \in All, Strip(n) PROVE TreeInv'
        BY <2>3, StripInv
  <2>4. ASSUME NEW n \in All, Keep(n) PROVE TreeInv'
        BY <2>4, KeepInv
  <2>5. CASE Return
        BY <2>5, ReturnInv
  <2>6. CASE UNCHANGED vars
        BY <2>6, UnchangedInv DEF vars
  <2> QED BY <2>1, <2>2, <2>3, <2>4, <2>5, <2>6 DEF Next
<1>3. TreeInv => TreeIsWhole
  <2> SUFFICES ASSUME TreeInv PROVE TreeIsWhole
      OBVIOUS
  <2>1. cur \in live \cup {Nil} /\ \A k \in DOMAIN callers : callers[k] \in live \cup {Nil}
        BY CallersType DEF TreeInv, Waiting
  <2>2. ToSet(callers) \cup {cur} \subseteq live \cup {Nil}
        BY <2>1 DEF ToSet
  <2> QED BY <2>2, WholeIsWired DEF TreeInv
<1> QED BY <1>1, <1>2, <1>3, PTL DEF Spec

-----------------------------------------------------------------------------
(* What is left of the file.  A node is ahead of the walk if it stands      *)
(* behind one that waits to be visited.                                     *)

Pending  == (ToSet(callers) \cup {cur}) \ {Nil}
Ahead(m) == \E c \in Pending : c <= m

\* The walk gets to all that is ahead: from the sibling before it, or from
\* its parent.
Hangs ==
  \A m \in live : Ahead(m) /\ m \notin Pending =>
    /\ node[m].prev = Nil => Ahead(up(m))
    /\ node[m].prev # Nil => Ahead(node[m].prev)

\* What is not ahead is as it should be; no dropped node was freed before
\* the nodes below it; a node's parent is its nearest ancestor that is not
\* freed; and what is freed had to go.
Settled ==
  /\ \A m \in live :
       /\ ~Ahead(m) => /\ doc.tag[m] \notin Stripped /\ ~Dropped(m)
                       /\ attributes[m] \subseteq KeptAttributes
       /\ \A a \in Ancestors(m) : Dropped(a) => a \in live
       /\ IsLast(up(m), Ancestors(m) \cap live)
  /\ \A m \in All \ live : doc.tag[m] \in Stripped \/ \E a \in Ancestors(m) \cup {m} : Dropped(a)
  /\ DOMAIN attributes = All

CleanInv == TreeInv /\ Hangs /\ Settled

\* With n the current node: the nodes that wait behind it.
Waiters == ToSet(callers) \ {Nil}

LEMMA WaitersType ==
  ASSUME TreeInv, NEW n \in live, cur = n
  PROVE  /\ n # 1 /\ n # Nil /\ n \in Nat /\ Pending = Waiters \cup {n}
         /\ \A c \in Waiters : /\ c \in live /\ up(c) < up(n) /\ n < c
                               /\ Behind(node[n].next, c) /\ Behind(node[n].children, c)
                               /\ node[n].children < c /\ c \notin Below(n)
         /\ \A m \in live : Ahead(m) <=> m >= n
<1>1. n # 1 /\ n # Nil /\ n \in Nat
      BY NodeType DEF TreeInv, Waiting, Nil
<1>2. ASSUME NEW c \in Waiters
      PROVE  c \in live /\ up(c) < up(n) /\ n < c
  <2>1. PICK k \in DOMAIN callers : c = callers[k] /\ c # Nil
        BY DEF Waiters, ToSet
  <2> QED BY <1>1, <2>1, CallersType DEF TreeInv, Waiting, Behind
<1>3. \A c \in Waiters : /\ Behind(node[n].next, c) /\ Behind(node[n].children, c)
                         /\ node[n].children < c /\ c \notin Below(n)
      BY <1>1, <1>2, GoingOn DEF TreeInv
<1>4. Pending = Waiters \cup {n}
      BY <1>1 DEF Pending, Waiters
<1>5. ASSUME NEW m \in live PROVE Ahead(m) <=> m >= n
  <2>1. m \in Nat /\ \A c \in Waiters : c \in Nat
        BY <1>2, NodeType DEF TreeInv
  <2> QED BY <1>1, <1>2, <1>4, <2>1 DEF Ahead
<1> QED BY <1>1, <1>2, <1>3, <1>4, <1>5

\* No node is passed over: what is left behind n is not before X, where the
\* walk goes on.
LEMMA NoneBetween ==
  ASSUME TreeInv, Hangs, NEW n \in live, cur = n,
         NEW D \in SUBSET live,
         \A m \in live : up(m) \in D => m \in D,
         \A m \in D : m = n \/ up(m) \in D,
         NEW X \in SUBSET Nat, Waiters \subseteq X,
         node[n].next # Nil => node[n].next \in X,
         Kids(n) \subseteq D \/ (node[n].children # Nil /\ node[n].children \in X),
         NEW x \in live \ D, x > n
  PROVE  \E c \in X : c <= x
<1>1. /\ n \in Nat /\ n # 1 /\ Pending = Waiters \cup {n}
      /\ \A m \in live : m \in Nat /\ up(m) \in Nat /\ up(m) < m /\ (Ahead(m) <=> m >= n)
      BY WaitersType, NodeType DEF TreeInv, Ordered
<1>2. \A m \in live :
        /\ up(m) \in live \cup {Nil}
        /\ node[m].prev # Nil => /\ node[m].prev \in live /\ up(node[m].prev) = up(m)
                                 /\ node[m].prev < m
  <2>1. ASSUME NEW m \in live
        PROVE  /\ up(m) \in live \cup {Nil}
               /\ node[m].prev # Nil => node[m].prev \in Kids(up(m)) /\ node[m].prev < m
    <3>1. up(m) \in live \cup {Nil} /\ IsLast(node[m].prev, Lower(Kids(up(m)), m))
          BY DEF TreeInv, Wired, Before
    <3> QED BY <3>1, Zenon DEF IsLast, Lower
  <2> QED BY <2>1 DEF Kids, up
<1>3. \A m \in Kids(n) : node[n].children <= m
      BY DEF TreeInv, Wired, IsFirst
<1>4. \A m \in live : up(m) = up(n) /\ m > n => node[n].next # Nil /\ node[n].next <= m
  <2>1. IsFirst(node[n].next, Greater(Kids(up(n)), n))
        BY DEF TreeInv, Wired, After
  <2>2. \A m \in live : up(m) = up(n) /\ m > n => m \in Greater(Kids(up(n)), n)
        BY DEF Kids, up, Greater
  <2>3. Nil \notin Greater(Kids(up(n)), n)
        BY NodeType DEF TreeInv, Nil, Kids, Greater
  <2> QED BY <2>1, <2>2, <2>3, Zenon DEF IsFirst
<1> DEFINE B == {m \in live \ D : m > n /\ \A c \in X : m < c}
<1> SUFFICES ASSUME B # {} PROVE FALSE
  <2>1. x \in Nat /\ \A c \in X : c \in Nat
        BY <1>1
  <2>2. B = {} => ~(\A c \in X : x < c)
        OBVIOUS
  <2> HIDE DEF B
  <2> QED BY <2>1, <2>2
<1>5. PICK y \in B : \A z \in B : y <= z
  <2>1. B \in SUBSET Nat
        BY <1>1
  <2> HIDE DEF B
  <2> QED BY <2>1, HasLeast
<1>6. y \in live /\ y \notin D /\ y > n /\ \A c \in X : y < c
      BY <1>5
<1>7. \A z \in live : z \notin D /\ z > n => ~(z < y)
  <2>1. ASSUME NEW z \in live, z \notin D, z > n, z < y
        PROVE  z \in B
    <3>1. z \in Nat /\ y \in Nat /\ \A c \in X : c \in Nat
          BY <1>1, <1>6, <2>1
    <3>2. \A c \in X : z < c
          BY <1>6, <2>1, <3>1
    <3> QED BY <2>1, <3>2
  <2>2. \A z \in B : z \in Nat /\ y \in Nat
        BY <1>1
  <2> HIDE DEF B
  <2> QED BY <1>5, <2>1, <2>2
<1> HIDE DEF B
<1>8. Ahead(y) /\ y \notin Pending
  <2>1. y \in Nat /\ y \notin X /\ y # n
        BY <1>1, <1>6
  <2> QED BY <1>1, <1>6, <2>1
<1>9. CASE node[y].prev = Nil
  <2>1. Ahead(up(y))
        BY <1>6, <1>8, <1>9 DEF Hangs
  <2>2. up(y) \in live
    <3>1. up(y) # Nil
      <4>1. y # 1
            BY <1>1, <1>6, NodeType DEF TreeInv
      <4> QED BY <4>1, <1>6 DEF TreeInv, Ordered
    <3> QED BY <1>2, <1>6, <3>1
  <2>3. up(y) >= n /\ up(y) < y
        BY <1>1, <1>6, <2>1, <2>2
  <2>4. up(y) # n
    <3> SUFFICES ASSUME up(y) = n PROVE FALSE
        OBVIOUS
    <3>1. y \in Kids(n)
          BY <1>6 DEF Kids, up
    <3>2. node[n].children \in X /\ node[n].children <= y
          BY <1>3, <1>6, <3>1
    <3>3. node[n].children \in Nat /\ y \in Nat
          BY <1>1, <1>6, NodeType DEF TreeInv
    <3> QED BY <1>6, <3>2, <3>3
  <2>5. up(y) \notin D
        BY <1>6
  <2> QED BY <1>1, <1>6, <1>7, <2>2, <2>3, <2>4, <2>5
<1>10. CASE node[y].prev # Nil
  <2>1. PICK q \in live : q = node[y].prev
        BY <1>2, <1>6, <1>10
  <2>2. Ahead(q) /\ up(q) = up(y) /\ q < y
        BY <1>2, <1>6, <1>8, <1>10, <2>1 DEF Hangs
  <2>3. q # n
    <3> SUFFICES ASSUME q = n PROVE FALSE
        OBVIOUS
    <3>1. node[n].next \in X /\ node[n].next <= y
          BY <1>4, <1>6, <2>2
    <3>2. node[n].next \in Nat /\ y \in Nat
          BY <1>1, <1>6, NodeType DEF TreeInv
    <3> QED BY <1>6, <3>1, <3>2
  <2>4. q \notin D
        BY <1>6, <2>2, <2>3
  <2>5. q > n
    <3>1. q \in Nat /\ q >= n
          BY <1>1, <2>1, <2>2
    <3> QED BY <1>1, <2>3, <3>1
  <2> QED BY <1>7, <2>2, <2>4, <2>5
<1> QED BY <1>9, <1>10

-----------------------------------------------------------------------------
(* Ancestors in the file.                                                   *)

LEMMA AncestorsChain ==
  ASSUME Nodes, NEW m \in All
  PROVE  /\ Ancestors(m) \in SUBSET All /\ \A a \in Ancestors(m) : a \in Nat /\ a < m
         /\ \A a, b \in Ancestors(m) : a < b => a \in Ancestors(b)
         /\ \A b \in Ancestors(m) : \A a \in Ancestors(b) : a \in Ancestors(m)
<1>1. /\ All = 1 .. Len(doc.tag) /\ Len(doc.tag) \in Nat /\ m \in Nat
      /\ \A k \in All : k # 1 => doc.parent[k] \in 1 .. k - 1
  <2>1. All = 1 .. Len(doc.tag) /\ Len(doc.tag) \in Nat
        BY DEF Nodes
  <2>2. \A k \in DOMAIN doc.tag \ {1} : doc.parent[k] \in 1 .. k - 1
        BY HtmlAssumption DEF HtmlAssumption, Nodes
  <2> QED BY <2>1, <2>2 DEF All
<1>2. \A n : Ancestors(n) = {a \in 1 .. n - 1 : \A k \in a + 1 .. n : doc.parent[k] >= a}
      BY DEF Ancestors, AncestorsIn
<1>3. /\ Ancestors(m) \in SUBSET All
      /\ \A a \in Ancestors(m) : a \in Nat /\ a < m /\ a >= 1 /\ a \in All
      BY <1>1, <1>2
<1>4. ASSUME NEW a \in Ancestors(m), NEW b \in Ancestors(m), a < b
      PROVE  a \in Ancestors(b)
  <2>1. a \in 1 .. b - 1 /\ b < m /\ b \in Nat
        BY <1>3, <1>4
  <2>2. \A k \in a + 1 .. b : k \in a + 1 .. m
        BY <1>1, <2>1
  <2>3. \A k \in a + 1 .. m : doc.parent[k] >= a
        BY <1>2
  <2> QED BY <1>2, <2>1, <2>2, <2>3
<1>5. ASSUME NEW b \in Ancestors(m), NEW a \in Ancestors(b)
      PROVE  a \in Ancestors(m)
  <2>1. /\ b \in Nat /\ b < m /\ b >= 1 /\ a \in 1 .. b - 1 /\ a \in Nat /\ a < b
        BY <1>2, <1>3
  <2>2. ASSUME NEW k \in a + 1 .. m
        PROVE  doc.parent[k] >= a
    <3>1. k \in Nat /\ k # 1 /\ k \in All /\ doc.parent[k] \in Nat
          BY <1>1, <2>1
    <3>2. CASE k <= b
          BY <1>2, <2>1, <3>1, <3>2
    <3>3. CASE k > b
      <4>1. k \in b + 1 .. m
            BY <1>1, <2>1, <3>1, <3>3
      <4>2. doc.parent[k] >= b
            BY <1>2, <4>1
      <4> QED BY <2>1, <3>1, <4>2
    <3> QED BY <2>1, <3>1, <3>2, <3>3
  <2>3. a \in 1 .. m - 1
        BY <1>1, <2>1
  <2> QED BY <1>2, <2>2, <2>3
<1> QED BY <1>3, <1>4, <1>5

\* A parent is the nearest ancestor that is left.
LEMMA NearestLeft ==
  ASSUME TreeInv, Settled, NEW m \in live
  PROVE  /\ up(m) # Nil => up(m) \in Ancestors(m) /\ up(m) \in live /\ up(m) < m
         /\ \A a \in Ancestors(m) \cap live : a <= up(m) /\ up(m) # Nil
         /\ \A a \in Ancestors(m) \cap live : a = up(m) \/ a \in Ancestors(up(m))
<1>1. IsLast(up(m), Ancestors(m) \cap live) /\ m \in All
      BY DEF Settled, TreeInv, Nodes
<1>2. /\ up(m) # Nil => up(m) \in Ancestors(m) /\ up(m) \in live
      /\ \A a \in Ancestors(m) \cap live : a <= up(m) /\ up(m) \in Ancestors(m) /\ up(m) \in live
      BY <1>1 DEF IsLast
<1>3. Nil \notin live /\ \A a \in Ancestors(m) : a \in Nat /\ a < m
      BY <1>1, NodeType, AncestorsChain DEF TreeInv, Nil
<1>4. \A a \in Ancestors(m), b \in Ancestors(m) : a < b => a \in Ancestors(b)
      BY <1>1, AncestorsChain DEF TreeInv
<1>5. \A a \in Ancestors(m) \cap live : a = up(m) \/ a < up(m)
      BY <1>2, <1>3
<1> QED BY <1>2, <1>3, <1>4, <1>5

\* A set with the nodes whose parent is in it has all below it in the file
\* that is left.
LEMMA AllBelow ==
  ASSUME TreeInv, Settled, NEW D \in SUBSET live,
         \A m \in live : up(m) \in D => m \in D,
         NEW x \in live, NEW a \in D, a \in Ancestors(x)
  PROVE  x \in D
<1> DEFINE B == {m \in live \ D : a \in Ancestors(m)}
<1> SUFFICES ASSUME B # {} PROVE FALSE
    OBVIOUS
<1>1. B \in SUBSET Nat
      BY NodeType DEF TreeInv
<1>2. PICK y \in B : \A z \in B : y <= z
  <2> HIDE DEF B
  <2> QED BY <1>1, HasLeast
<1>3. y \in live /\ y \notin D /\ a \in Ancestors(y) \cap live
      OBVIOUS
<1>4. /\ up(y) # Nil /\ up(y) \in live /\ up(y) < y
      /\ a = up(y) \/ a \in Ancestors(up(y))
      BY <1>3, NearestLeft
<1>5. up(y) \notin D
      BY <1>3
<1>6. up(y) \in B
      BY <1>4, <1>5
<1> HIDE DEF B
<1>7. y <= up(y) /\ y \in Nat /\ up(y) \in Nat
      BY <1>1, <1>2, <1>6
<1> QED BY <1>4, <1>7

\* What goes with n was below n in the file.
LEMMA BelowInFile ==
  ASSUME TreeInv, Settled, NEW n \in live, NEW x \in Below(n)
  PROVE  x = n \/ n \in Ancestors(x)
<1>1. /\ Below(n) \in SUBSET live
      /\ \A m \in Below(n) : m = n \/ up(m) \in Below(n)
      BY BelowType DEF TreeInv
<1> DEFINE B == {m \in Below(n) : m # n /\ n \notin Ancestors(m)}
<1> SUFFICES ASSUME B # {} PROVE FALSE
    OBVIOUS
<1>2. B \in SUBSET Nat
      BY <1>1, NodeType DEF TreeInv
<1>3. PICK y \in B : \A z \in B : y <= z
  <2> HIDE DEF B
  <2> QED BY <1>2, HasLeast
<1>4. y \in live /\ y \in Below(n) /\ y # n /\ n \notin Ancestors(y) /\ up(y) \in Below(n)
      BY <1>1
<1>5. up(y) \in Ancestors(y) /\ up(y) < y
  <2>1. up(y) # Nil
        BY <1>1, <1>4, NodeType DEF TreeInv, Nil
  <2> QED BY <1>4, <2>1, NearestLeft
<1>6. up(y) # n /\ n \notin Ancestors(up(y))
  <2>1. y \in All
        BY <1>4 DEF TreeInv, Nodes
  <2> QED BY <1>4, <1>5, <2>1, AncestorsChain DEF TreeInv
<1>7. up(y) \in B
      BY <1>4, <1>6
<1> HIDE DEF B
<1>8. y <= up(y) /\ y \in Nat /\ up(y) \in Nat
      BY <1>2, <1>3, <1>7
<1> QED BY <1>5, <1>8

-----------------------------------------------------------------------------
(* The walk leaves the file as it should be.                                *)

LEMMA AheadNext == \A m : Ahead(m)' <=> \E c \in Pending' : c <= m
BY DEF Ahead

LEMMA SameFile ==
  ASSUME doc' = doc
  PROVE  All' = All /\ \A m : Ancestors(m)' = Ancestors(m) /\ (Dropped(m)' <=> Dropped(m))
BY DEF All, Ancestors, Dropped

\* The list is doubly linked.
LEMMA PrevIs ==
  ASSUME TreeInv, NEW m \in live, node[m].prev # Nil
  PROVE  /\ node[m].prev \in live /\ up(node[m].prev) = up(m) /\ node[m].prev < m
         /\ node[node[m].prev].next = m
<1>1. PICK q : q = node[m].prev
      OBVIOUS
<1>2. IsLast(q, Lower(Kids(up(m)), m))
      BY <1>1 DEF TreeInv, Wired, Before
<1>3. q \in live /\ up(q) = up(m) /\ q < m
      BY <1>1, <1>2 DEF IsLast, Lower, Kids, up
<1>4. PICK x : x = node[q].next
      OBVIOUS
<1>5. m \in Greater(Kids(up(q)), q)
      BY <1>3, NodeType DEF TreeInv, Greater, Kids, up
<1>6. IsFirst(x, Greater(Kids(up(q)), q))
      BY <1>3, <1>4 DEF TreeInv, Wired, After
<1>7. x \in live /\ up(x) = up(q) /\ x > q /\ x <= m
      BY <1>5, <1>6 DEF IsFirst, Greater, Kids, up
<1>8. ~(x < m)
  <2> SUFFICES ASSUME x < m PROVE FALSE
      OBVIOUS
  <2>1. x \in Lower(Kids(up(m)), m)
        BY <1>3, <1>7 DEF Lower, Kids, up
  <2>2. x <= q
        BY <1>2, <2>1 DEF IsLast
  <2>3. x \in Nat /\ q \in Nat
        BY <1>3, <1>7, NodeType DEF TreeInv
  <2> QED BY <1>7, <2>2, <2>3
<1>9. x = m
  <2>1. x \in Nat /\ m \in Nat
        BY <1>7, NodeType DEF TreeInv
  <2> QED BY <1>7, <1>8, <2>1
<1> QED BY <1>1, <1>3, <1>4, <1>9

LEMMA RemovalSettles ==
  ASSUME CleanInv, NEW n \in live, cur = n, NEW D \in SUBSET Below(n), n \in D, Kids(n) \subseteq D,
         \A m \in live : up(m) \in D => m \in D,
         \A m \in D : m = n \/ up(m) \in D,
         \A m \in D : doc.tag[m] \in Stripped \/ \E a \in Ancestors(m) \cup {m} : Dropped(a),
         doc' = doc, node' = Unlinked(n), live' = live \ D, attributes' = attributes,
         cur' = node[n].next, callers' = callers
  PROVE  Hangs' /\ Settled'
<1>1. TreeInv /\ Hangs /\ Settled
      BY DEF CleanInv
<1>2. /\ n # 1 /\ n # Nil /\ n \in Nat /\ Pending = Waiters \cup {n} /\ D \in SUBSET live
      /\ \A c \in Waiters : c \in live /\ n < c
      /\ \A m \in live : m \in Nat /\ m # Nil /\ m \in All /\ (Ahead(m) <=> m >= n)
      BY <1>1, WaitersType, NodeType, BelowType DEF TreeInv, Nil
<1> DEFINE X == (Waiters \cup {node[n].next}) \ {Nil}
<1>3. Pending' = X
      BY DEF Pending, Waiters
<1>4. X \in SUBSET Nat /\ \A c \in X : c > n
  <2>1. node[n].next # Nil => node[n].next \in Nat /\ node[n].next > n
        BY <1>1, <1>2, GoingOn, NodeType DEF TreeInv
  <2> QED BY <1>2, <2>1
<1>5. \A m \in live' : m > n => \E c \in X : c <= m
  <2>1. Waiters \subseteq X /\ (node[n].next # Nil => node[n].next \in X)
        BY <1>2, NodeType DEF TreeInv, Nil
  <2> HIDE DEF X
  <2> QED BY <1>1, <1>2, <1>4, <2>1, NoneBetween
<1> HIDE DEF X
<1>6. \A m \in live' : m \in live /\ m # n /\ (Ahead(m)' <=> m > n) /\ (Ahead(m)' <=> Ahead(m))
  <2>1. ASSUME NEW m \in live'
        PROVE  m \in live /\ m # n /\ (Ahead(m)' <=> m > n)
    <3>1. m \in Nat /\ m # n
          BY <1>2
    <3>2. \A c \in X : c <= m => m > n
          BY <1>2, <1>4, <3>1
    <3> QED BY <1>3, <1>5, <3>1, <3>2, AheadNext
  <2> QED BY <1>2, <2>1
<1>7. \A m \in live' : /\ (up(m))' = up(m)
                       /\ m # node[n].next => node'[m].prev = node[m].prev
  <2>1. \A m \in live' : m \in All \ {n}
        BY <1>2
  <2> QED BY <1>1, <2>1, UnlinkedFields DEF TreeInv, up
<1>8. Hangs'
  <2>1. ASSUME NEW m \in live', Ahead(m)', m \notin Pending'
        PROVE  /\ node'[m].prev = Nil => Ahead(up(m))'
               /\ node'[m].prev # Nil => Ahead(node[m].prev)'
    <3>1. /\ m \in live /\ m # n /\ m # Nil /\ Ahead(m) /\ m \notin Pending /\ m # node[n].next
          BY <1>2, <1>3, <1>6, <2>1 DEF X
    <3>2. /\ node'[m].prev = node[m].prev /\ (up(m))' = up(m)
          BY <1>7, <2>1, <3>1
    <3>3. /\ node[m].prev = Nil => Ahead(up(m))
          /\ node[m].prev # Nil => Ahead(node[m].prev)
          BY <1>1, <3>1 DEF Hangs
    <3>4. CASE node[m].prev = Nil
      <4>1. up(m) \in live' /\ Ahead(up(m))
        <5>1. up(m) \in live
          <6>1. m # 1
                BY <1>2, <3>1 DEF Nil
          <6> QED BY <1>1, <3>1, <6>1 DEF TreeInv, Wired, Ordered
        <5>2. up(m) \notin D
              BY <2>1, <3>1
        <5> QED BY <3>3, <3>4, <5>1, <5>2
      <4>2. \E c \in Pending' : c <= up(m)
            BY <1>6, <4>1, AheadNext
      <4> QED BY <3>2, <3>4, <4>2 DEF Ahead
    <3>5. CASE node[m].prev # Nil
      <4>1. PICK q : q = node[m].prev
            OBVIOUS
      <4>2. q \in live /\ up(q) = up(m) /\ q # n
            BY <1>1, <3>1, <3>5, <4>1, PrevIs
      <4>3. q \in live'
            BY <2>1, <3>1, <4>2
      <4>4. \E c \in Pending' : c <= q
            BY <1>6, <3>3, <3>5, <4>1, <4>3, AheadNext
      <4> QED BY <3>2, <3>5, <4>1, <4>4 DEF Ahead
    <3> QED BY <3>4, <3>5
  <2> QED BY <2>1 DEF Hangs
<1>9. Settled'
  <2>1. ASSUME NEW m \in live'
        PROVE  /\ ~Ahead(m)' => /\ doc.tag[m] \notin Stripped /\ ~Dropped(m)
                                /\ attributes[m] \subseteq KeptAttributes
               /\ \A a \in Ancestors(m) : Dropped(a) => a \in live'
               /\ IsLast(up(m), Ancestors(m) \cap live')
    <3>1. m \in live /\ m \notin D
          BY <1>6
    <3>2. \A a \in Ancestors(m) : a \notin D
          BY <1>1, <1>2, <3>1, AllBelow
    <3>3. Ancestors(m) \cap live' = Ancestors(m) \cap live
          BY <3>2
    <3>4. /\ ~Ahead(m) => /\ doc.tag[m] \notin Stripped /\ ~Dropped(m)
                          /\ attributes[m] \subseteq KeptAttributes
          /\ \A a \in Ancestors(m) : Dropped(a) => a \in live
          /\ IsLast(up(m), Ancestors(m) \cap live)
          BY <1>1, <3>1 DEF Settled
    <3> QED BY <1>6, <3>2, <3>3, <3>4
  <2>2. \A m \in All \ live' : doc.tag[m] \in Stripped \/ \E a \in Ancestors(m) \cup {m} : Dropped(a)
        BY <1>1 DEF Settled
  <2>3. DOMAIN attributes' = All'
        BY <1>1, SameFile DEF Settled
  <2>4. ASSUME NEW m \in live'
        PROVE  /\ Ancestors(m)' = Ancestors(m) /\ (Dropped(m)' <=> Dropped(m))
               /\ (up(m))' = up(m) /\ doc'.tag[m] = doc.tag[m] /\ attributes'[m] = attributes[m]
        BY <1>7, SameFile
  <2>5. ASSUME NEW m \in live'
        PROVE  /\ ~Ahead(m)' => /\ doc'.tag[m] \notin Stripped /\ ~Dropped(m)'
                                /\ attributes'[m] \subseteq KeptAttributes
               /\ \A a \in Ancestors(m)' : Dropped(a)' => a \in live'
               /\ IsLast((up(m))', Ancestors(m)' \cap live')
        BY <2>1, <2>4, SameFile
  <2>6. \A m \in All' \ live' :
          doc'.tag[m] \in Stripped \/ \E a \in Ancestors(m)' \cup {m} : Dropped(a)'
        BY <2>2, SameFile
  <2> QED BY <2>3, <2>5, <2>6 DEF Settled
<1> QED BY <1>8, <1>9

LEMMA StripSettles ==
  ASSUME CleanInv, NEW n \in All, Strip(n)
  PROVE  Hangs' /\ Settled'
<1>1. TreeInv /\ Hangs /\ Settled
      BY DEF CleanInv
<1>2. /\ n \in live /\ cur = n /\ node[n].children # Nil /\ doc' = doc /\ node' = Spliced(n)
      /\ live' = live \ {n} /\ cur' = node[n].children /\ callers' = callers
      /\ attributes' = attributes /\ doc.tag[n] \in Stripped /\ ~Dropped(n)
      BY <1>1 DEF Strip, Visit, TreeInv, Waiting, AfterStrip, decide, IsElement, Dropped,
                  Stripped, Erased
<1>3. /\ n # 1 /\ n # Nil /\ n \in Nat /\ Pending = Waiters \cup {n}
      /\ \A c \in Waiters : c \in live /\ n < c /\ node[n].children < c
      /\ \A m \in live : m \in Nat /\ m # Nil /\ m \in All /\ (Ahead(m) <=> m >= n)
      BY <1>1, <1>2, WaitersType, NodeType DEF TreeInv, Nil
<1>4. PICK f \in live : /\ f = node[n].children /\ f \in Kids(n) /\ f > n
                        /\ \A k \in Kids(n) : f <= k
  <2>1. node[n].children \in Kids(n) /\ \A k \in Kids(n) : node[n].children <= k
        BY <1>1, <1>2 DEF TreeInv, Wired, IsFirst
  <2>2. node[n].children \in live /\ node[n].children > n
        BY <1>1, <1>2, <2>1, KidsInPlace DEF TreeInv, Kids
  <2> QED BY <2>1, <2>2
<1>5. node[n].next # Nil => node[n].next \in live /\ node[n].next > f
  <2>1. node[n].next # Nil => /\ node[n].next \in live /\ up(node[n].next) < n
                              /\ node[n].next > n
        BY <1>1, <1>2, <1>3, GoingOn DEF TreeInv, Ordered
  <2> QED BY <1>1, <1>2, <1>4, <2>1, KidsInPlace DEF TreeInv
<1>6. Pending' = Waiters \cup {f}
      BY <1>2, <1>3, <1>4 DEF Pending, Waiters
<1>7. \A m \in live' : m > n => Ahead(m)'
  <2> DEFINE X == Waiters \cup ({f, node[n].next} \ {Nil})
  <2>1. X \in SUBSET Nat /\ Waiters \subseteq X /\ f \in X
        BY <1>3, <1>4, <1>5
  <2>2. node[n].next # Nil => node[n].next \in X
        OBVIOUS
  <2>3. \A c \in X : f <= c
        BY <1>3, <1>4, <1>5
  <2> HIDE DEF X
  <2>4. ASSUME NEW m \in live', m > n
        PROVE  f <= m
    <3>1. m \in live \ {} /\ {} \in SUBSET live /\ m \in Nat /\ f \in Nat
          BY <1>2, <1>3, <2>4
    <3>2. \E c \in X : c <= m
          BY <1>1, <1>2, <1>4, <2>1, <2>2, <2>4, <3>1, NoneBetween
    <3>3. \A c \in X : c \in Nat
          BY <2>1
    <3> QED BY <2>3, <3>1, <3>2, <3>3
  <2> QED BY <1>6, <2>4, AheadNext
<1>8. \A m \in live' : /\ m \in live /\ m # n /\ m \in Nat
                       /\ (Ahead(m)' <=> m > n) /\ (Ahead(m)' <=> Ahead(m))
  <2>1. ASSUME NEW m \in live'
        PROVE  m \in live /\ m # n /\ m \in Nat /\ (Ahead(m)' => m > n)
    <3>1. m \in Nat /\ m # n
          BY <1>2, <1>3
    <3>2. \A c \in Waiters \cup {f} : c > n /\ c \in Nat
          BY <1>3, <1>4
    <3> QED BY <1>2, <1>3, <1>6, <3>1, <3>2, AheadNext
  <2> QED BY <1>3, <1>7, <2>1
<1>9. \A m \in live' :
        /\ (up(m))' = IF m \in Kids(n) THEN up(n) ELSE up(m)
        /\ node'[m].prev = IF m = node[n].next THEN node[n].last
                           ELSE IF m = f THEN node[n].prev ELSE node[m].prev
  <2>1. \A m \in live' : m \in All \ {n}
        BY <1>2, <1>3
  <2>2. Kids(n) = Siblings(node[n].children)
        BY <1>1, <1>2, SiblingsAreKids DEF TreeInv
  <2> QED BY <1>1, <1>2, <1>4, <2>1, <2>2, SplicedFields DEF TreeInv, up
<1>10. Hangs'
  <2>1. ASSUME NEW m \in live', Ahead(m)', m \notin Pending'
        PROVE  /\ node'[m].prev = Nil => Ahead(up(m))'
               /\ node'[m].prev # Nil => \E q \in live' : q = node'[m].prev /\ Ahead(q)'
    <3>1. /\ m \in live /\ m # n /\ m # Nil /\ m # f /\ m > n /\ Ahead(m) /\ m \notin Pending
          BY <1>3, <1>6, <1>8, <2>1
    <3>2. CASE m = node[n].next
      <4>1. PICK l : l = node[n].last
            OBVIOUS
      <4>2. l \in Kids(n)
            BY <1>1, <1>2, <1>4, <4>1 DEF TreeInv, Wired, IsLast
      <4>3. l \in live' /\ l > n
            BY <1>1, <1>2, <1>3, <4>2, KidsInPlace DEF TreeInv, Kids
      <4>4. node'[m].prev = l /\ Ahead(l)' /\ l # Nil
            BY <1>3, <1>8, <1>9, <3>2, <4>1, <4>3
      <4> QED BY <4>3, <4>4
    <3>3. CASE m # node[n].next /\ node[m].prev = Nil
      <4>1. m \notin Kids(n)
        <5> SUFFICES ASSUME m \in Kids(n) PROVE FALSE
            OBVIOUS
        <5>1. up(m) = n /\ f < m
              BY <1>3, <1>4, <3>1 DEF Kids, up
        <5>2. f \in Lower(Kids(up(m)), m)
              BY <1>4, <5>1 DEF Lower
        <5>3. IsLast(Nil, Lower(Kids(up(m)), m))
              BY <1>1, <3>1, <3>3 DEF TreeInv, Wired, Before
        <5> QED BY <1>3, <5>2, <5>3 DEF IsLast, Lower, Kids
      <4>2. node'[m].prev = Nil /\ (up(m))' = up(m) /\ up(m) # n
            BY <1>9, <2>1, <3>1, <3>3, <4>1 DEF Kids, up
      <4>3. Ahead(up(m)) /\ up(m) \in live
        <5>1. m # 1
              BY <1>3, <3>1 DEF Nil
        <5> QED BY <1>1, <3>1, <3>3, <5>1 DEF Hangs, TreeInv, Wired, Ordered
      <4>4. up(m) \in live'
            BY <1>2, <4>2, <4>3
      <4>5. \E c \in Pending' : c <= up(m)
            BY <1>8, <4>3, <4>4, AheadNext
      <4> QED BY <4>2, <4>5 DEF Ahead
    <3>4. CASE m # node[n].next /\ node[m].prev # Nil
      <4>1. PICK q : q = node[m].prev
            OBVIOUS
      <4>2. q \in live' /\ Ahead(q)
            BY <1>1, <1>2, <3>1, <3>4, <4>1, PrevIs DEF Hangs
      <4>3. node'[m].prev = q /\ Ahead(q)'
            BY <1>8, <1>9, <2>1, <3>1, <3>4, <4>1, <4>2
      <4> QED BY <3>4, <4>1, <4>2, <4>3
    <3> QED BY <3>2, <3>3, <3>4
  <2>2. ASSUME NEW m \in live', Ahead(m)', m \notin Pending', node'[m].prev # Nil
        PROVE  \E c \in Pending' : c <= node'[m].prev
    <3>1. PICK q \in live' : q = node'[m].prev /\ Ahead(q)'
          BY <2>1, <2>2
    <3> QED BY <3>1, AheadNext
  <2> QED BY <2>1, <2>2 DEF Hangs, Ahead
<1>11. Settled'
  <2>1. ASSUME NEW m \in live'
        PROVE  /\ Ancestors(m)' = Ancestors(m) /\ (Dropped(m)' <=> Dropped(m))
               /\ doc'.tag[m] = doc.tag[m] /\ attributes'[m] = attributes[m]
        BY <1>2, SameFile
  <2>2. ASSUME NEW m \in live'
        PROVE  IsLast((up(m))', Ancestors(m) \cap live')
    <3>1. /\ m \in live /\ m \in All
          /\ up(m) # Nil => up(m) \in Ancestors(m) /\ up(m) \in live
          /\ \A a \in Ancestors(m) \cap live : a <= up(m) /\ up(m) # Nil
          /\ \A a \in Ancestors(m) \cap live : a = up(m) \/ a \in Ancestors(up(m))
          BY <1>1, <1>3, <1>8, NearestLeft
    <3>2. CASE m \in Kids(n)
      <4>1. up(m) = n /\ (up(m))' = up(n) /\ n \in Ancestors(m)
            BY <1>3, <1>9, <3>1, <3>2 DEF Kids, up
      <4>2. /\ up(n) \in Ancestors(n) /\ up(n) \in live /\ up(n) < n /\ up(n) # Nil
            /\ \A a \in Ancestors(n) \cap live : a <= up(n)
        <5>1. up(n) # Nil
              BY <1>1, <1>2, <1>3 DEF TreeInv, Ordered
        <5> QED BY <1>1, <1>2, <5>1, NearestLeft
      <4>3. up(n) \in Ancestors(m)
            BY <1>1, <3>1, <4>1, <4>2, AncestorsChain DEF TreeInv
      <4>4. \A a \in Ancestors(m) \cap live' : a <= up(n)
            BY <1>2, <3>1, <4>1, <4>2
      <4>5. up(n) \in live'
            BY <1>2, <1>3, <4>2
      <4> QED BY <4>1, <4>3, <4>4, <4>5 DEF IsLast
    <3>3. CASE m \notin Kids(n)
      <4>1. up(m) # n /\ (up(m))' = up(m)
            BY <1>9, <3>1, <3>3 DEF Kids, up
      <4>2. Ancestors(m) \cap live' \subseteq Ancestors(m) \cap live
            BY <1>2
      <4>3. up(m) # Nil => up(m) \in Ancestors(m) \cap live'
            BY <1>2, <3>1, <4>1
      <4>4. up(m) = Nil => Ancestors(m) \cap live' = {}
            BY <3>1, <4>2
      <4>5. IsLast(up(m), Ancestors(m) \cap live')
            BY <3>1, <4>2, <4>3, <4>4 DEF IsLast
      <4> QED BY <4>1, <4>5
    <3> QED BY <3>2, <3>3
  <2>3. ASSUME NEW m \in live'
        PROVE  /\ ~Ahead(m)' => /\ doc.tag[m] \notin Stripped /\ ~Dropped(m)
                                /\ attributes[m] \subseteq KeptAttributes
               /\ \A a \in Ancestors(m) : Dropped(a) => a \in live'
    <3>1. /\ ~Ahead(m) => /\ doc.tag[m] \notin Stripped /\ ~Dropped(m)
                          /\ attributes[m] \subseteq KeptAttributes
          /\ \A a \in Ancestors(m) : Dropped(a) => a \in live
          BY <1>1, <1>8 DEF Settled
    <3> QED BY <1>2, <1>8, <3>1
  <2>4. \A m \in All \ live' : doc.tag[m] \in Stripped \/ \E a \in Ancestors(m) \cup {m} : Dropped(a)
        BY <1>1, <1>2 DEF Settled
  <2>5. ASSUME NEW m \in live'
        PROVE  /\ ~Ahead(m)' => /\ doc'.tag[m] \notin Stripped /\ ~Dropped(m)'
                                /\ attributes'[m] \subseteq KeptAttributes
               /\ \A a \in Ancestors(m)' : Dropped(a)' => a \in live'
               /\ IsLast((up(m))', Ancestors(m)' \cap live')
        BY <1>2, <2>1, <2>2, <2>3, SameFile
  <2>6. \A m \in All' \ live' :
          doc'.tag[m] \in Stripped \/ \E a \in Ancestors(m)' \cup {m} : Dropped(a)'
        BY <1>2, <2>4, SameFile
  <2>7. DOMAIN attributes' = All'
        BY <1>1, <1>2, SameFile DEF Settled
  <2> QED BY <2>5, <2>6, <2>7 DEF Settled
<1> QED BY <1>10, <1>11

LEMMA ToSetCons ==
  ASSUME NEW S, NEW x \in S, NEW s \in Seq(S)
  PROVE  ToSet(<<x>> \o s) = {x} \cup ToSet(s)
<1> DEFINE t == <<x>>
<1>1. t \in Seq(S) /\ Len(t) = 1 /\ t[1] = x
      OBVIOUS
<1> HIDE DEF t
<1>2. /\ DOMAIN (t \o s) = 1 .. 1 + Len(s) /\ Len(s) \in Nat /\ DOMAIN s = 1 .. Len(s)
      /\ \A k \in 1 .. 1 + Len(s) : (t \o s)[k] = IF k <= 1 THEN t[k] ELSE s[k - 1]
  <2>1. /\ t \o s \in Seq(S) /\ Len(t \o s) = 1 + Len(s)
        /\ \A k \in 1 .. 1 + Len(s) : (t \o s)[k] = IF k <= 1 THEN t[k] ELSE s[k - 1]
    <3>1. /\ t \o s \in Seq(S) /\ Len(t \o s) = Len(t) + Len(s)
          /\ \A k \in 1 .. Len(t) + Len(s) :
               (t \o s)[k] = IF k <= Len(t) THEN t[k] ELSE s[k - Len(t)]
          BY <1>1, ConcatProperties
    <3> QED BY <1>1, <3>1
  <2> QED BY <2>1, LenProperties
<1>3. ASSUME NEW y, y \in ToSet(t \o s) PROVE y \in {x} \cup ToSet(s)
  <2>1. PICK k \in 1 .. 1 + Len(s) : y = (t \o s)[k]
        BY <1>2, <1>3 DEF ToSet
  <2>2. k = 1 \/ (k - 1 \in 1 .. Len(s) /\ y = s[k - 1])
        BY <1>2, <2>1
  <2>3. k = 1 => y = x
        BY <1>1, <1>2, <2>1
  <2> QED BY <1>2, <2>2, <2>3 DEF ToSet
<1>4. x \in ToSet(t \o s)
  <2>1. 1 \in 1 .. 1 + Len(s) /\ (t \o s)[1] = x
        BY <1>1, <1>2
  <2> QED BY <1>2, <2>1 DEF ToSet
<1>5. ASSUME NEW y \in ToSet(s) PROVE y \in ToSet(t \o s)
  <2>1. PICK k \in 1 .. Len(s) : y = s[k]
        BY <1>2 DEF ToSet
  <2>2. k + 1 \in 1 .. 1 + Len(s) /\ (t \o s)[k + 1] = s[(k + 1) - 1] /\ (k + 1) - 1 = k
        BY <1>2
  <2> QED BY <1>2, <2>1, <2>2 DEF ToSet
<1> QED BY <1>3, <1>4, <1>5 DEF t

LEMMA KeepSettles ==
  ASSUME CleanInv, NEW n \in All, Keep(n)
  PROVE  Hangs' /\ Settled'
<1>1. TreeInv /\ Hangs /\ Settled
      BY DEF CleanInv
<1>2. /\ n \in live /\ cur = n /\ doc' = doc /\ node' = node /\ live' = live
      /\ attributes' = Washed(n) /\ doc.tag[n] \notin Stripped /\ ~Dropped(n)
  <2>1. doc.tag[n] \notin Stripped /\ ~Dropped(n)
        BY DEF Keep, decide, IsElement, Dropped, Stripped, Erased
  <2> QED BY <1>1, <2>1 DEF Keep, Visit, TreeInv, Waiting
<1>3. /\ n # 1 /\ n # Nil /\ n \in Nat /\ Pending = Waiters \cup {n}
      /\ \A c \in Waiters : c \in live /\ n < c
      /\ \A m \in live : m \in Nat /\ m # Nil /\ m \in All /\ (Ahead(m) <=> m >= n)
      BY <1>1, <1>2, WaitersType, NodeType DEF TreeInv, Nil
<1> DEFINE X == Waiters \cup ({node[n].children, node[n].next} \ {Nil})
<1>4. /\ node[n].next \in (live \ {1}) \cup {Nil} /\ node[n].children \in (live \ {1}) \cup {Nil}
      /\ node[n].next # Nil => node[n].next > n
      /\ node[n].children # Nil => node[n].children > n
  <2>1. node[n].children # Nil => node[n].children \in Kids(n)
        BY <1>1, <1>2 DEF TreeInv, Wired, IsFirst
  <2>2. node[n].children # Nil => node[n].children > n
        BY <1>1, <1>2, <2>1, KidsInPlace DEF TreeInv
  <2> QED BY <1>1, <1>2, <1>3, <2>2, GoingOn DEF TreeInv
<1>5. Pending' = X
  <2>1. CASE node[n].children = Nil
    <3>1. cur' = node[n].next /\ callers' = callers
          BY <2>1 DEF Keep
    <3> QED BY <2>1, <3>1 DEF Pending, Waiters
  <2>2. CASE node[n].children # Nil
    <3>1. cur' = node[n].children /\ callers' = <<node[n].next>> \o callers
          BY <2>2 DEF Keep
    <3>2. callers \in Seq((live \ {1}) \cup {Nil})
          BY <1>1 DEF TreeInv, Waiting
    <3>3. ToSet(callers') = {node[n].next} \cup ToSet(callers)
      <4> DEFINE W == (live \ {1}) \cup {Nil}
      <4>1. callers \in Seq(W) /\ node[n].next \in W
            BY <1>4, <3>2
      <4> HIDE DEF W
      <4> QED BY <3>1, <4>1, ToSetCons
    <3> QED BY <3>1, <3>3 DEF Pending, Waiters
  <2> QED BY <2>1, <2>2
<1>6. X \in SUBSET Nat /\ \A c \in X : c > n
      BY <1>3, <1>4
<1>7. \A m \in live : m > n => \E c \in X : c <= m
  <2>1. Waiters \subseteq X /\ (node[n].next # Nil => node[n].next \in X)
        OBVIOUS
  <2>2. Kids(n) \subseteq {} \/ (node[n].children # Nil /\ node[n].children \in X)
        BY <1>1, <1>2, <1>3 DEF TreeInv, Wired, IsFirst, Kids
  <2> HIDE DEF X
  <2>3. {} \in SUBSET live /\ \A m \in live : m \in live \ {}
        OBVIOUS
  <2> QED BY <1>1, <1>2, <1>6, <2>1, <2>2, <2>3, NoneBetween
<1>8. \A m \in live : Ahead(m)' <=> m > n
  <2> HIDE DEF X
  <2>1. ASSUME NEW m \in live PROVE Ahead(m)' <=> m > n
    <3>1. m \in Nat /\ \A c \in X : c <= m => m > n
          BY <1>3, <1>6
    <3> QED BY <1>5, <1>7, <3>1, AheadNext
  <2> QED BY <2>1
<1>9. Hangs'
  <2>1. ASSUME NEW m \in live, Ahead(m)', m \notin Pending'
        PROVE  /\ node[m].prev = Nil => \E c \in Pending' : c <= up(m)
               /\ node[m].prev # Nil => \E c \in Pending' : c <= node[m].prev
    <3>1. /\ m \in live /\ m > n /\ m \in Nat /\ Ahead(m) /\ m \notin Pending
          /\ m # node[n].next /\ m # node[n].children
      <4>1. m > n /\ m \in Nat /\ m # Nil
            BY <1>3, <1>8, <2>1
      <4>2. m # n
            BY <1>3, <4>1
      <4> QED BY <1>3, <1>5, <2>1, <4>1, <4>2
    <3>2. CASE node[m].prev = Nil
      <4>1. Ahead(up(m)) /\ up(m) \in live
        <5>1. m # 1
              BY <1>3, <3>1 DEF Nil
        <5> QED BY <1>1, <3>1, <3>2, <5>1 DEF Hangs, TreeInv, Wired, Ordered
      <4>2. up(m) # n
        <5> SUFFICES ASSUME up(m) = n PROVE FALSE
            OBVIOUS
        <5>1. m \in Kids(n)
              BY <3>1 DEF Kids, up
        <5>2. node[n].children \in Kids(n) /\ node[n].children <= m
              BY <1>1, <1>2, <5>1 DEF TreeInv, Wired, IsFirst
        <5>3. node[n].children \in Nat
              BY <1>1, <1>2, NodeType DEF TreeInv
        <5>4. node[n].children \in Lower(Kids(up(m)), m)
              BY <3>1, <5>2, <5>3 DEF Lower
        <5>5. IsLast(Nil, Lower(Kids(up(m)), m))
              BY <1>1, <3>1, <3>2 DEF TreeInv, Wired, Before
        <5> QED BY <1>3, <5>4, <5>5 DEF IsLast, Lower, Kids
      <4>3. up(m) > n
            BY <1>3, <4>1, <4>2
      <4> QED BY <1>5, <1>7, <3>2, <4>1, <4>3
    <3>3. CASE node[m].prev # Nil
      <4>1. PICK q : q = node[m].prev
            OBVIOUS
      <4>2. q \in live /\ Ahead(q) /\ q # n
            BY <1>1, <3>1, <3>3, <4>1, PrevIs DEF Hangs
      <4>3. q > n
            BY <1>3, <4>2
      <4> QED BY <1>5, <1>7, <3>3, <4>1, <4>2, <4>3
    <3> QED BY <3>2, <3>3
  <2> QED BY <1>2, <2>1 DEF Hangs, Ahead, up
<1>10. Settled'
  <2>1. DOMAIN attributes = All /\ n \in All
        BY <1>1 DEF Settled
  <2>2. /\ DOMAIN attributes' = All /\ attributes'[n] \subseteq KeptAttributes
        /\ \A m \in All : m # n => attributes'[m] = attributes[m]
        BY <1>2, <2>1 DEF Washed
  <2>3. ASSUME NEW m \in live, ~Ahead(m)'
        PROVE  /\ doc.tag[m] \notin Stripped /\ ~Dropped(m) /\ attributes'[m] \subseteq KeptAttributes
    <3>1. CASE m = n
          BY <1>2, <2>2, <3>1
    <3>2. CASE m # n
      <4>1. ~Ahead(m)
            BY <1>3, <1>8, <2>3, <3>2
      <4> QED BY <1>1, <1>3, <2>2, <3>2, <4>1 DEF Settled
    <3> QED BY <3>1, <3>2
  <2>4. \A m : (up(m))' = up(m)
        BY <1>2 DEF up
  <2>5. ASSUME NEW m \in live'
        PROVE  /\ ~Ahead(m)' => /\ doc'.tag[m] \notin Stripped /\ ~Dropped(m)'
                                /\ attributes'[m] \subseteq KeptAttributes
               /\ \A a \in Ancestors(m)' : Dropped(a)' => a \in live'
               /\ IsLast((up(m))', Ancestors(m)' \cap live')
    <3>1. /\ \A a \in Ancestors(m) : Dropped(a) => a \in live
          /\ IsLast(up(m), Ancestors(m) \cap live)
          BY <1>1, <1>2 DEF Settled
    <3> QED BY <1>2, <2>3, <2>4, <3>1, SameFile
  <2>6. \A m \in All' \ live' :
          doc'.tag[m] \in Stripped \/ \E a \in Ancestors(m)' \cup {m} : Dropped(a)'
        BY <1>1, <1>2, SameFile DEF Settled
  <2>7. DOMAIN attributes' = All'
        BY <1>2, <2>2, SameFile
  <2> QED BY <2>5, <2>6, <2>7 DEF Settled
<1> QED BY <1>9, <1>10

\* Nothing changes for what hangs and what is settled if the same nodes wait.
LEMMA SameSettles ==
  ASSUME CleanInv, doc' = doc, node' = node, live' = live, attributes' = attributes,
         Pending' = Pending
  PROVE  Hangs' /\ Settled'
<1>1. /\ \A m : (Ahead(m)' <=> Ahead(m)) /\ (up(m))' = up(m)
      BY DEF Ahead, up
<1>2. Hangs'
  <2>1. \A m \in live : Ahead(m)' /\ m \notin Pending' =>
          /\ node[m].prev = Nil => \E c \in Pending' : c <= up(m)
          /\ node[m].prev # Nil => \E c \in Pending' : c <= node[m].prev
        BY <1>1 DEF CleanInv, Hangs, Ahead
  <2> QED BY <2>1 DEF Hangs, Ahead, up
<1>3. Settled'
  <2>1. ASSUME NEW m \in live'
        PROVE  /\ ~Ahead(m)' => /\ doc'.tag[m] \notin Stripped /\ ~Dropped(m)'
                                /\ attributes'[m] \subseteq KeptAttributes
               /\ \A a \in Ancestors(m)' : Dropped(a)' => a \in live'
               /\ IsLast((up(m))', Ancestors(m)' \cap live')
    <3>1. /\ ~Ahead(m) => /\ doc.tag[m] \notin Stripped /\ ~Dropped(m)
                          /\ attributes[m] \subseteq KeptAttributes
          /\ \A a \in Ancestors(m) : Dropped(a) => a \in live
          /\ IsLast(up(m), Ancestors(m) \cap live)
          BY DEF CleanInv, Settled
    <3> QED BY <1>1, <3>1, SameFile
  <2>2. \A m \in All' \ live' :
          doc'.tag[m] \in Stripped \/ \E a \in Ancestors(m)' \cup {m} : Dropped(a)'
        BY SameFile DEF CleanInv, Settled
  <2>3. DOMAIN attributes' = All'
        BY SameFile DEF CleanInv, Settled
  <2> QED BY <2>1, <2>2, <2>3 DEF Settled
<1> QED BY <1>2, <1>3

LEMMA ReturnSettles == ASSUME CleanInv, Return PROVE Hangs' /\ Settled'
<1>1. /\ doc' = doc /\ node' = node /\ live' = live /\ attributes' = attributes
      /\ cur = Nil /\ callers # <<>> /\ cur' = Head(callers) /\ callers' = Tail(callers)
      BY DEF Return
<1> DEFINE W == (live \ {1}) \cup {Nil}
<1>2. callers \in Seq(W)
      BY DEF CleanInv, TreeInv, Waiting
<1> HIDE DEF W
<1>3. /\ Head(callers) = callers[1]
      /\ Len(Tail(callers)) = Len(callers) - 1
      /\ \A k \in 1 .. Len(Tail(callers)) : Tail(callers)[k] = callers[k + 1]
      /\ DOMAIN callers = 1 .. Len(callers) /\ Len(callers) \in Nat
      /\ DOMAIN Tail(callers) = 1 .. Len(Tail(callers))
      /\ Len(callers) >= 1
  <2>1. Tail(callers) \in Seq(W)
        BY <1>1, <1>2, HeadTailProperties
  <2>2. Len(callers) # 0 /\ Len(callers) \in Nat
        BY <1>1, <1>2, EmptySeq, LenProperties
  <2> QED BY <1>1, <1>2, <2>1, <2>2, HeadTailProperties, LenProperties
<1>4. ToSet(callers) = {cur'} \cup ToSet(callers')
  <2>1. ASSUME NEW k \in DOMAIN callers
        PROVE  callers[k] \in {cur'} \cup ToSet(callers')
    <3>1. CASE k = 1
          BY <1>1, <1>3, <3>1
    <3>2. CASE k # 1
      <4>1. k - 1 \in DOMAIN callers' /\ callers'[k - 1] = callers[(k - 1) + 1] /\ (k - 1) + 1 = k
            BY <1>1, <1>3, <3>2
      <4> QED BY <4>1 DEF ToSet
    <3> QED BY <3>1, <3>2
  <2>2. cur' \in ToSet(callers)
        BY <1>1, <1>3 DEF ToSet
  <2>3. ASSUME NEW k \in DOMAIN callers'
        PROVE  callers'[k] \in ToSet(callers)
    <3>1. k + 1 \in DOMAIN callers /\ callers'[k] = callers[k + 1]
          BY <1>1, <1>3
    <3> QED BY <3>1 DEF ToSet
  <2> QED BY <2>1, <2>2, <2>3 DEF ToSet
<1>5. Pending' = Pending
      BY <1>1, <1>4 DEF Pending
<1> QED BY <1>1, <1>5, SameSettles

LEMMA EraseSettles ==
  ASSUME CleanInv, NEW n \in All, Erase(n)
  PROVE  Hangs' /\ Settled'
<1>1. TreeInv /\ Settled
      BY DEF CleanInv
<1>2. n \in live /\ cur = n /\ Dropped(n)
      BY <1>1 DEF Erase, Visit, TreeInv, Waiting, decide, Dropped
<1> DEFINE D == Below(n)
<1>3. /\ n \in D /\ D \in SUBSET Below(n)
      /\ \A m \in live : up(m) \in D => m \in D
      /\ \A m \in D : m = n \/ up(m) \in D
      BY <1>1, <1>2, BelowType DEF TreeInv
<1>4. Kids(n) \subseteq D
  <2> HIDE DEF D
  <2> QED BY <1>3 DEF Kids, up
<1>5. \A m \in D : doc.tag[m] \in Stripped \/ \E a \in Ancestors(m) \cup {m} : Dropped(a)
      BY <1>1, <1>2, BelowInFile
<1>6. /\ doc' = doc /\ node' = Unlinked(n) /\ live' = live \ D /\ attributes' = attributes
      /\ cur' = node[n].next /\ callers' = callers
      BY DEF Erase
<1> HIDE DEF D
<1> QED BY <1>2, <1>3, <1>4, <1>5, <1>6, RemovalSettles

LEMMA StripEmptySettles ==
  ASSUME CleanInv, NEW n \in All, StripEmpty(n)
  PROVE  Hangs' /\ Settled'
<1>1. TreeInv /\ Settled
      BY DEF CleanInv
<1>2. n \in live /\ cur = n /\ n # Nil /\ node[n].children = Nil /\ doc.tag[n] \in Stripped
      BY <1>1 DEF StripEmpty, Visit, TreeInv, Waiting, decide, Stripped, Erased
<1>3. Kids(n) = {}
  <2>1. IsFirst(Nil, Kids(n))
        BY <1>1, <1>2 DEF TreeInv, Wired
  <2>2. Nil \notin Kids(n)
        BY <1>1, NodeType DEF TreeInv, Nil, Kids
  <2> QED BY <2>1, <2>2 DEF IsFirst
<1> DEFINE D == {n}
<1>4. /\ n \in D /\ D \in SUBSET Below(n) /\ Kids(n) \subseteq D
      /\ \A m \in live : up(m) \in D => m \in D
      /\ \A m \in D : m = n \/ up(m) \in D
      BY <1>1, <1>2, <1>3, BelowType DEF TreeInv, Kids, up
<1>5. \A m \in D : doc.tag[m] \in Stripped \/ \E a \in Ancestors(m) \cup {m} : Dropped(a)
      BY <1>2
<1>6. /\ doc' = doc /\ node' = Unlinked(n) /\ live' = live \ D /\ attributes' = attributes
      /\ cur' = node[n].next /\ callers' = callers
      BY DEF StripEmpty
<1> HIDE DEF D
<1> QED BY <1>2, <1>4, <1>5, <1>6, RemovalSettles

LEMMA InitSettles == ASSUME Init PROVE Hangs /\ Settled
<1>1. TreeInv
      BY InitInv
<1>2. /\ doc \in Documents /\ live = All /\ cur = 2 /\ callers = <<>> /\ node = Parsed(doc)
      /\ doc.tag[1] = "document" /\ All = 1 .. Len(doc.tag) /\ Len(doc.tag) \in Nat
      /\ attributes = [n \in All |-> IF IsElement(n) THEN {"id", "src"} ELSE {}]
      BY <1>1, HtmlAssumption DEF Init, HtmlAssumption, TreeInv, Nodes
<1>3. /\ doc.parent[1] = Nil
      /\ \A n \in All \ {1} : doc.parent[n] \in 1 .. n - 1
      /\ \A m, n \in All : doc.parent[n] < m /\ m < n => doc.parent[m] >= doc.parent[n]
      BY <1>2, HtmlAssumption DEF HtmlAssumption, All
<1>4. \A m \in All : up(m) = doc.parent[m]
      BY <1>2 DEF Parsed, up, All
<1>5. Pending = {2}
      BY <1>2 DEF Pending, ToSet, Nil
<1>6. \A m \in live : m \in Nat /\ m >= 1 /\ (Ahead(m) <=> m # 1)
  <2>1. \A m \in live : m \in Nat /\ m >= 1 /\ (2 <= m <=> m # 1)
        BY <1>2
  <2> QED BY <1>5, <2>1 DEF Ahead
<1>7. Hangs
  <2>1. ASSUME NEW m \in live, Ahead(m), m \notin Pending
        PROVE  /\ node[m].prev = Nil => Ahead(up(m))
               /\ node[m].prev # Nil => Ahead(node[m].prev)
    <3>1. m # 1 /\ m # 2 /\ m > 2
          BY <1>5, <1>6, <2>1
    <3>2. node[m].prev # Nil => Ahead(node[m].prev)
      <4> SUFFICES ASSUME node[m].prev # Nil PROVE Ahead(node[m].prev)
          OBVIOUS
      <4>1. PICK q : q = node[m].prev
            OBVIOUS
      <4>2. q \in live /\ up(q) = up(m)
            BY <1>1, <4>1, PrevIs
      <4>3. q # 1
        <5>1. up(m) # Nil
              BY <1>1, <3>1 DEF TreeInv, Ordered
        <5>2. q = 1 => up(q) = Nil
              BY <1>2, <1>3, <1>4, <4>2
        <5> QED BY <4>2, <5>1, <5>2
      <4> QED BY <1>6, <4>1, <4>2, <4>3
    <3>3. node[m].prev = Nil => Ahead(up(m))
      <4> SUFFICES ASSUME node[m].prev = Nil PROVE Ahead(up(m))
          OBVIOUS
      <4>1. up(m) \in live
            BY <1>1, <3>1 DEF TreeInv, Wired, Ordered
      <4>2. up(m) # 1
        <5> SUFFICES ASSUME up(m) = 1 PROVE FALSE
            OBVIOUS
        <5>1. 2 \in live /\ up(2) = 1
          <6>1. 2 \in All
                BY <1>2, <1>6, <3>1
          <6>2. doc.parent[2] \in 1 .. 2 - 1
                BY <1>3, <6>1
          <6>3. doc.parent[2] = 1
                BY <6>2
          <6> QED BY <1>2, <1>4, <6>1, <6>3
        <5>2. 2 \in Lower(Kids(up(m)), m)
              BY <3>1, <5>1 DEF Lower, Kids, up
        <5>3. IsLast(Nil, Lower(Kids(up(m)), m))
              BY <1>1 DEF TreeInv, Wired, Before
        <5>4. Nil \notin Kids(up(m))
              BY <1>6 DEF Kids, Nil
        <5> QED BY <5>2, <5>3, <5>4 DEF IsLast, Lower
      <4> QED BY <1>6, <4>1, <4>2
    <3> QED BY <3>2, <3>3
  <2> QED BY <2>1 DEF Hangs
<1>8. ASSUME NEW m \in live
      PROVE  IsLast(up(m), Ancestors(m) \cap live)
  <2>1. m \in All /\ m \in Nat /\ Ancestors(m) \in SUBSET All
        BY <1>1, <1>2, <1>6, AncestorsChain DEF TreeInv
  <2>2. Ancestors(m) = {a \in 1 .. m - 1 : \A k \in a + 1 .. m : doc.parent[k] >= a}
        BY DEF Ancestors, AncestorsIn
  <2>3. CASE m = 1
    <3>1. Ancestors(m) = {}
          BY <2>2, <2>3
    <3> QED BY <1>3, <1>4, <2>1, <2>3, <3>1 DEF IsLast
  <2>4. CASE m # 1
    <3>1. doc.parent[m] \in 1 .. m - 1 /\ up(m) = doc.parent[m]
          BY <1>3, <1>4, <2>1, <2>4
    <3>2. ASSUME NEW k \in doc.parent[m] + 1 .. m
          PROVE  doc.parent[k] >= doc.parent[m]
      <4>1. k \in All /\ k \in Nat /\ doc.parent[m] \in Nat /\ doc.parent[m] < k /\ k <= m
            BY <1>2, <2>1, <3>1
      <4>2. k < m => doc.parent[k] >= doc.parent[m]
            BY <1>3, <2>1, <4>1
      <4>3. k = m \/ k < m
            BY <2>1, <4>1
      <4> QED BY <4>1, <4>2, <4>3
    <3>3. up(m) \in Ancestors(m)
          BY <2>2, <3>1, <3>2
    <3>4. \A a \in Ancestors(m) : a <= up(m)
      <4>1. ASSUME NEW a \in Ancestors(m) PROVE a <= doc.parent[m]
        <5>1. a \in 1 .. m - 1 /\ \A k \in a + 1 .. m : doc.parent[k] >= a
              BY <2>2
        <5>2. m \in a + 1 .. m
              BY <2>1, <5>1
        <5> QED BY <3>1, <5>1, <5>2
      <4> QED BY <3>1, <4>1
    <3> QED BY <1>2, <2>1, <3>3, <3>4 DEF IsLast
  <2> QED BY <2>3, <2>4
<1>9. Settled
  <2>1. ASSUME NEW m \in live, ~Ahead(m)
        PROVE  doc.tag[m] \notin Stripped /\ ~Dropped(m) /\ attributes[m] \subseteq KeptAttributes
    <3>1. m = 1 /\ m \in All
          BY <1>2, <1>6, <2>1
    <3>2. attributes[1] = {}
          BY <1>2, <3>1 DEF IsElement
    <3> QED BY <1>2, <3>1, <3>2 DEF Dropped, Stripped, Erased
  <2>2. \A m \in live : \A a \in Ancestors(m) : Dropped(a) => a \in live
        BY <1>1, <1>2, AncestorsChain DEF TreeInv
  <2>3. DOMAIN attributes = All /\ All \ live = {}
        BY <1>2
  <2> QED BY <1>8, <2>1, <2>2, <2>3 DEF Settled
<1> QED BY <1>7, <1>9

\* When the walk is through, the tree that is left is the one the policies
\* ask for: no dropped or stripped node is left and no other is lost, each
\* hangs on its nearest ancestor that is left, and no element has an
\* attribute but those kept (traverse, strip, erase and wash of htmlpp.c).
THEOREM WalkedIsClean == Spec => [](Walked => Clean)
<1>1. Init => CleanInv
      BY InitInv, InitSettles DEF CleanInv
<1>2. CleanInv /\ [Next]_vars => CleanInv'
  <2> SUFFICES ASSUME CleanInv, [Next]_vars PROVE CleanInv'
      OBVIOUS
  <2>1. ASSUME NEW n \in All, Erase(n) PROVE CleanInv'
        BY <2>1, EraseInv, EraseSettles DEF CleanInv
  <2>2. ASSUME NEW n \in All, StripEmpty(n) PROVE CleanInv'
        BY <2>2, StripEmptyInv, StripEmptySettles DEF CleanInv
  <2>3. ASSUME NEW n \in All, Strip(n) PROVE CleanInv'
        BY <2>3, StripInv, StripSettles DEF CleanInv
  <2>4. ASSUME NEW n \in All, Keep(n) PROVE CleanInv'
        BY <2>4, KeepInv, KeepSettles DEF CleanInv
  <2>5. CASE Return
        BY <2>5, ReturnInv, ReturnSettles DEF CleanInv
  <2>6. CASE UNCHANGED vars
    <3>1. /\ doc' = doc /\ node' = node /\ attributes' = attributes /\ live' = live
          /\ cur' = cur /\ callers' = callers
          BY <2>6 DEF vars
    <3>2. Pending' = Pending
          BY <3>1 DEF Pending
    <3>3. TreeInv'
          BY <3>1, UnchangedInv DEF CleanInv
    <3> QED BY <3>1, <3>2, <3>3, SameSettles DEF CleanInv
  <2> QED BY <2>1, <2>2, <2>3, <2>4, <2>5, <2>6 DEF Next
<1>3. CleanInv => (Walked => Clean)
  <2> SUFFICES ASSUME CleanInv, Walked PROVE Clean
      OBVIOUS
  <2>1. TreeInv /\ Settled
        BY DEF CleanInv
  <2>2. Pending = {}
        BY DEF Walked, Pending, ToSet
  <2>3. \A m \in live : /\ m \in All /\ doc.tag[m] \notin Stripped /\ ~Dropped(m)
                        /\ attributes[m] \subseteq KeptAttributes
        BY <2>1, <2>2 DEF Settled, Ahead, TreeInv, Nodes
  <2>4. \A m \in live : \A a \in Ancestors(m) : ~Dropped(a)
        BY <2>1, <2>3 DEF Settled
  <2>5. live = Survivors
    <3>1. live \subseteq Survivors
          BY <2>3, <2>4 DEF Survivors
    <3>2. Survivors \subseteq live
          BY <2>1 DEF Survivors, Settled
    <3> QED BY <3>1, <3>2
  <2>6. ASSUME NEW n \in Survivors
        PROVE  node[n].parent = HomeOf(n) /\ attributes[n] \subseteq KeptAttributes
    <3>1. IsLast(up(n), Ancestors(n) \cap live)
          BY <2>1, <2>5 DEF Settled
    <3>2. Ancestors(n) \cap live \in SUBSET (1 .. Len(doc.tag)) /\ Len(doc.tag) \in Nat
          BY <2>1 DEF TreeInv, Nodes
    <3>3. up(n) = LastOf(Ancestors(n) \cap live)
          BY <3>1, <3>2, LastIs
    <3> QED BY <2>3, <2>5, <3>3 DEF HomeOf, up
  <2> QED BY <2>5, <2>6 DEF Clean
<1> QED BY <1>1, <1>2, <1>3, PTL DEF Spec
=============================================================================
