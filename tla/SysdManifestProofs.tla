------------------------- MODULE SysdManifestProofs -------------------------
(***************************************************************************)
(* A documented image.manifest is read, whatever the order in which json.c *)
(* gives the members of its objects: every entry of its daemons sections   *)
(* once, with its h/w handler flag, and the name of the management         *)
(* interface.                                                              *)
(*                                                                         *)
(* The argument: the stack says what is left to visit but not where that   *)
(* was found, so beside each frame the proof keeps the tree it is about.   *)
(* A key of a tree is then either still to be visited (it is in the rest   *)
(* of a frame about that tree) or what it holds was met: no tree is met    *)
(* twice, for the key that leads to it is visited once, and none is        *)
(* forgotten.  The same holds of the entries of a daemons section, from    *)
(* the moment the section is entered.  When the stack is empty nothing is  *)
(* left to visit, so the trees that were met are closed under what is      *)
(* inside them, and are all the trees of the manifest, by induction on     *)
(* their depth.                                                            *)
(***************************************************************************)
EXTENDS SysdBootProofs

(* A stack, and beside it the trees its frames are about; then both as a   *)
(* set.                                                                    *)
IsList(s) == \E S : s \in Seq(S)

Items(s, at) ==
    {[by |-> s[i].by, tree |-> at[i], rest |-> s[i].rest] : i \in 1..Len(s)}

Beside(s, at) ==
    /\ IsList(s) /\ IsList(at) /\ Len(s) = Len(at)
    /\ \A i, j \in 1..Len(s) : s[i].by = s[j].by /\ at[i] = at[j] => i = j

(* A list in front of which an element is put.                             *)
LEMMA ListPush ==
  ASSUME NEW s, NEW f, IsList(s)
  PROVE  /\ IsList(<<f>> \o s)
         /\ Len(<<f>> \o s) = Len(s) + 1 /\ Len(s) \in Nat
         /\ (<<f>> \o s)[1] = f
         /\ \A i \in 1..Len(s) : (<<f>> \o s)[i + 1] = s[i]
<1>1. PICK S : s \in Seq(S)
  BY DEF IsList
<1> DEFINE U == S \union {f}
<1>2. s \in Seq(U)
  <2>1. S \subseteq U
    OBVIOUS
  <2> HIDE DEF U
  <2> QED
    BY <1>1, <2>1
<1>3. <<f>> \in Seq(U)
  OBVIOUS
<1> HIDE DEF U
<1>4. <<f>> \o s \in Seq(U)
  BY <1>2, <1>3
<1>5. Len(<<f>>) = 1 /\ <<f>>[1] = f
  OBVIOUS
<1> QED
  BY <1>2, <1>3, <1>4, <1>5 DEF IsList

(* A list without its first.                                               *)
LEMMA ListPop ==
  ASSUME NEW s, IsList(s), s # <<>>
  PROVE  /\ IsList(Tail(s))
         /\ Len(s) \in Nat \ {0} /\ Len(Tail(s)) = Len(s) - 1
         /\ Head(s) = s[1]
         /\ \A i \in 1..Len(Tail(s)) : Tail(s)[i] = s[i + 1]
<1>1. PICK S : s \in Seq(S)
  BY DEF IsList
<1> QED
  BY <1>1 DEF IsList

ItemOf(f, t) == [by |-> f.by, tree |-> t, rest |-> f.rest]

(* A frame is put on the stack.                                            *)
LEMMA Pushed ==
  ASSUME NEW s, NEW at, NEW f, NEW t, Beside(s, at),
         \A g \in Items(s, at) : ~(g.by = f.by /\ g.tree = t)
  PROVE  /\ Beside(<<f>> \o s, <<t>> \o at)
         /\ Items(<<f>> \o s, <<t>> \o at) = {ItemOf(f, t)} \union Items(s, at)
<1> DEFINE p == <<f>> \o s
           q == <<t>> \o at
<1>1. /\ IsList(p) /\ Len(p) = Len(s) + 1 /\ Len(s) \in Nat /\ p[1] = f
      /\ \A i \in 1..Len(s) : p[i + 1] = s[i]
  BY ListPush DEF Beside
<1>2. /\ IsList(q) /\ Len(q) = Len(s) + 1 /\ q[1] = t
      /\ \A i \in 1..Len(s) : q[i + 1] = at[i]
  BY ListPush DEF Beside
<1> HIDE DEF p, q
<1>3. ASSUME NEW i \in 1..Len(s)
      PROVE  ~(s[i].by = f.by /\ at[i] = t)
  <2>1. [by |-> s[i].by, tree |-> at[i], rest |-> s[i].rest] \in Items(s, at)
    BY DEF Items
  <2> QED
    BY <2>1
<1>4. \A i \in 1..Len(p) :
         i = 1 \/ \E j \in 1..Len(s) : i = j + 1 /\ p[i] = s[j] /\ q[i] = at[j]
  <2> SUFFICES ASSUME NEW i \in 1..Len(p), i # 1
               PROVE  \E j \in 1..Len(s) :
                          i = j + 1 /\ p[i] = s[j] /\ q[i] = at[j]
    OBVIOUS
  <2>1. i - 1 \in 1..Len(s) /\ i = (i - 1) + 1
    BY <1>1
  <2> QED
    BY <1>1, <1>2, <2>1
<1>5. ASSUME NEW i \in 1..Len(p), NEW j \in 1..Len(p),
             p[i].by = p[j].by, q[i] = q[j]
      PROVE  i = j
  <2>1. CASE i = 1 \/ j = 1
    <3>1. \A k \in 1..Len(p) :
              p[k].by = f.by /\ q[k] = t => k = 1
      BY <1>3, <1>4
    <3> QED
      BY <1>1, <1>2, <1>5, <2>1, <3>1
  <2>2. CASE i # 1 /\ j # 1
    <3>1. PICK k \in 1..Len(s) : i = k + 1 /\ p[i] = s[k] /\ q[i] = at[k]
      BY <1>4, <2>2
    <3>2. PICK l \in 1..Len(s) : j = l + 1 /\ p[j] = s[l] /\ q[j] = at[l]
      BY <1>4, <2>2
    <3>3. k = l
      BY <1>5, <3>1, <3>2 DEF Beside
    <3> QED
      BY <3>1, <3>2, <3>3
  <2> QED
    BY <2>1, <2>2
<1>6. Beside(p, q)
  BY <1>1, <1>2, <1>5 DEF Beside
<1>7. Items(p, q) = {ItemOf(f, t)} \union Items(s, at)
  <2>1. ASSUME NEW g \in Items(p, q)
        PROVE  g \in {ItemOf(f, t)} \union Items(s, at)
    <3>1. PICK i \in 1..Len(p) :
              g = [by |-> p[i].by, tree |-> q[i], rest |-> p[i].rest]
      BY <2>1 DEF Items
    <3> QED
      BY <1>1, <1>2, <1>4, <3>1 DEF Items, ItemOf
  <2>2. ItemOf(f, t) \in Items(p, q)
    <3>1. 1 \in 1..Len(p)
      BY <1>1
    <3> QED
      BY <1>1, <1>2, <3>1 DEF Items, ItemOf
  <2>3. ASSUME NEW g \in Items(s, at)
        PROVE  g \in Items(p, q)
    <3>1. PICK i \in 1..Len(s) :
              g = [by |-> s[i].by, tree |-> at[i], rest |-> s[i].rest]
      BY <2>3 DEF Items
    <3>2. i + 1 \in 1..Len(p) /\ p[i + 1] = s[i] /\ q[i + 1] = at[i]
      BY <1>1, <1>2
    <3> QED
      BY <3>1, <3>2 DEF Items
  <2> QED
    BY <2>1, <2>2, <2>3
<1> QED
  BY <1>6, <1>7 DEF p, q

(* The top frame is taken off.                                             *)
LEMMA Popped ==
  ASSUME NEW s, NEW at, Beside(s, at), s # <<>>
  PROVE  /\ Beside(Tail(s), Tail(at))
         /\ Items(s, at) = {ItemOf(Head(s), Head(at))}
                               \union Items(Tail(s), Tail(at))
         /\ \A g \in Items(Tail(s), Tail(at)) :
                ~(g.by = Head(s).by /\ g.tree = Head(at))
<1> DEFINE p == Tail(s)
           q == Tail(at)
<1>1. /\ IsList(p) /\ Len(s) = Len(p) + 1 /\ Len(p) \in Nat /\ Head(s) = s[1]
      /\ \A i \in 1..Len(p) : p[i] = s[i + 1]
  BY ListPop DEF Beside
<1>2. at # <<>>
  <2>1. Len(at) # 0
    BY <1>1 DEF Beside
  <2> QED
    BY <2>1
<1>3. /\ IsList(q) /\ Len(q) = Len(p) /\ Head(at) = at[1]
      /\ \A i \in 1..Len(p) : q[i] = at[i + 1]
  BY <1>1, <1>2, ListPop DEF Beside
<1> HIDE DEF p, q
<1>4. \A i \in 1..Len(p) : i + 1 \in 1..Len(s) /\ i + 1 # 1
  BY <1>1
<1>5. 1 \in 1..Len(s)
  BY <1>1
<1>6. Beside(p, q)
  <2>1. ASSUME NEW i \in 1..Len(p), NEW j \in 1..Len(p),
               p[i].by = p[j].by, q[i] = q[j]
        PROVE  i = j
    <3>1. i + 1 = j + 1
      BY <1>1, <1>3, <1>4, <2>1 DEF Beside
    <3> QED
      BY <1>1, <3>1
  <2> QED
    BY <1>1, <1>3, <2>1 DEF Beside
<1>7. ASSUME NEW g \in Items(s, at)
      PROVE  g \in {ItemOf(s[1], at[1])} \union Items(p, q)
  <2>1. PICK i \in 1..Len(s) :
            g = [by |-> s[i].by, tree |-> at[i], rest |-> s[i].rest]
    BY <1>7 DEF Items
  <2>2. CASE i = 1
    BY <2>1, <2>2 DEF ItemOf
  <2>3. CASE i # 1
    <3>1. i - 1 \in 1..Len(p) /\ (i - 1) + 1 = i
      BY <1>1, <2>3
    <3>2. PICK j \in 1..Len(p) : i = j + 1
      BY <3>1
    <3>3. p[j] = s[i] /\ q[j] = at[i]
      BY <1>1, <1>3, <3>2
    <3>4. g = [by |-> p[j].by, tree |-> q[j], rest |-> p[j].rest]
      BY <2>1, <3>3
    <3> QED
      BY <3>4 DEF Items
  <2> QED
    BY <2>2, <2>3
<1>8. ASSUME NEW g \in {ItemOf(s[1], at[1])} \union Items(p, q)
      PROVE  g \in Items(s, at)
  <2>1. CASE g = ItemOf(s[1], at[1])
    BY <1>5, <2>1 DEF Items, ItemOf
  <2>2. CASE g \in Items(p, q)
    <3>1. PICK i \in 1..Len(p) :
              g = [by |-> p[i].by, tree |-> q[i], rest |-> p[i].rest]
      BY <2>2 DEF Items
    <3>2. i + 1 \in 1..Len(s) /\ p[i] = s[i + 1] /\ q[i] = at[i + 1]
      BY <1>1, <1>3, <1>4
    <3> QED
      BY <3>1, <3>2 DEF Items
  <2> QED
    BY <1>8, <2>1, <2>2
<1>9. ASSUME NEW g \in Items(p, q)
      PROVE  ~(g.by = s[1].by /\ g.tree = at[1])
  <2>1. PICK i \in 1..Len(p) : g.by = p[i].by /\ g.tree = q[i]
    BY <1>9 DEF Items
  <2>2. i + 1 \in 1..Len(s) /\ i + 1 # 1
    BY <1>4
  <2> QED
    BY <1>1, <1>3, <1>5, <2>1, <2>2 DEF Beside
<1> QED
  BY <1>1, <1>3, <1>6, <1>7, <1>8, <1>9 DEF p, q

-----------------------------------------------------------------------------
(* A tree is a place with its value.                                       *)
Below(t, k) == << <<t[1], k>>, t[2].of[k] >>
Keys(t) == DOMAIN t[2].of
Opens(t, k) ==
    Mf!IsTree(t[2].of[k]) /\ ~(Mf!IsObject(t[2]) /\ Mf!IsSection(t[2], k))
HasObject(t, k) ==
    Mf!IsObject(t[2]) /\ k \in Keys(t) /\ Mf!IsObject(t[2].of[k])
Named(t) == t[2].of["daemons"].of
EntryOf(t, n) == [at |-> t[1], name |-> n, says |-> Named(t)[n]]

(* Key k of tree t is still to be visited, by that function.               *)
Left(G, by, t, k) ==
    \E g \in G : g.by = by /\ g.tree = t /\ k \in DOMAIN g.rest
Waits(G, t, k) == Left(G, t[2].type, t, k)

PartOf(f, g) ==
    DOMAIN f \subseteq DOMAIN g /\ \A k \in DOMAIN f : f[k] = g[k]

Fits(g) ==
    \/ g.by = g.tree[2].type /\ PartOf(g.rest, g.tree[2].of)
    \/ /\ g.by = "daemons" /\ HasObject(g.tree, "daemons")
       /\ PartOf(g.rest, Named(g.tree))
    \/ /\ g.by = "mgmt_intf" /\ HasObject(g.tree, "mgmt_intf")
       /\ PartOf(g.rest, g.tree[2].of["mgmt_intf"].of)
       /\ PartOf(g.tree[2].of["mgmt_intf"].of, g.rest)

(* The trees that were met, V, are some of those of the manifest, each in a *)
(* place of its own that is no longer to be visited;                       *)
MetTrees(m, G, V) ==
    /\ << <<>>, m >> \in V
    /\ V \subseteq Mf!TreesOf(m)
    /\ \A t \in V : Mf!IsTree(t[2])
    /\ \A t, u \in V : t[1] = u[1] => t = u
    /\ \A c \in V : c[1] # <<>> =>
           \E t \in V : \E k \in Keys(t) : c[1] = <<t[1], k>> /\ ~Waits(G, t, k)

(* what is on the stack is about them, and a section that is on it was      *)
(* visited;                                                                *)
OnStack(G, V) ==
    \A g \in G :
        /\ g.tree \in V /\ Fits(g)
        /\ g.by \in {"daemons", "mgmt_intf"} => ~Waits(G, g.tree, g.by)

(* what they hold was met or is still to be visited;                       *)
AllMet(G, V) ==
    \A t \in V : \A k \in Keys(t) :
        Opens(t, k) => Below(t, k) \in V \/ Waits(G, t, k)

(* and R are the entries that were read.                                   *)
AllRead(G, V, R) ==
    /\ \A r \in R : \E t \in V :
           /\ HasObject(t, "daemons") /\ ~Waits(G, t, "daemons")
           /\ \E n \in DOMAIN Named(t) :
                  r = EntryOf(t, n) /\ ~Left(G, "daemons", t, n)
    /\ \A t \in V : HasObject(t, "daemons") =>
           \/ Waits(G, t, "daemons")
           \/ \A n \in DOMAIN Named(t) :
                  EntryOf(t, n) \in R \/ Left(G, "daemons", t, n)

(* The management interface has its name, or the section that has it is    *)
(* still to be visited, or on the stack.                                   *)
IntfMet(G, V, known) ==
    \A t \in V : HasObject(t, "mgmt_intf") =>
        \/ known
        \/ Waits(G, t, "mgmt_intf")
        \/ \E g \in G : g.by = "mgmt_intf"

Explored(m, G, V, R, known) ==
    /\ MetTrees(m, G, V) /\ OnStack(G, V) /\ AllMet(G, V)
    /\ AllRead(G, V, R) /\ IntfMet(G, V, known)

-----------------------------------------------------------------------------
Without(h, k) ==
    [by |-> h.by, tree |-> h.tree,
     rest |-> [j \in DOMAIN h.rest \ {k} |-> h.rest[j]]]
IsItem(h) == h = [by |-> h.by, tree |-> h.tree, rest |-> h.rest]
Alone(h, G) == \A g \in G : ~(g.by = h.by /\ g.tree = h.tree)

(* What is left when a key is taken from the top of the stack.             *)
LEMMA LeftWithout ==
  ASSUME NEW h, NEW k, NEW G, Alone(h, G), NEW by, NEW t, NEW j
  PROVE  Left({Without(h, k)} \union G, by, t, j)
             <=> /\ Left({h} \union G, by, t, j)
                 /\ ~(by = h.by /\ t = h.tree /\ j = k)
<1> DEFINE w == Without(h, k)
<1>1. w.by = h.by /\ w.tree = h.tree /\ DOMAIN w.rest = DOMAIN h.rest \ {k}
  BY DEF Without
<1> HIDE DEF w
<1>2. Left({w} \union G, by, t, j)
          <=> \/ Left(G, by, t, j)
              \/ h.by = by /\ h.tree = t /\ j \in DOMAIN h.rest \ {k}
  BY <1>1 DEF Left
<1>3. Left({h} \union G, by, t, j)
          <=> \/ Left(G, by, t, j)
              \/ h.by = by /\ h.tree = t /\ j \in DOMAIN h.rest
  BY DEF Left
<1>4. h.by = by /\ h.tree = t => ~Left(G, by, t, j)
  BY DEF Left, Alone
<1> QED
  BY <1>2, <1>3, <1>4 DEF w

(* What is left when an item is put there.                                 *)
LEMMA LeftMore ==
  ASSUME NEW h, NEW G, NEW by, NEW t, NEW j
  PROVE  Left({h} \union G, by, t, j)
             <=> \/ Left(G, by, t, j)
                 \/ h.by = by /\ h.tree = t /\ j \in DOMAIN h.rest
BY DEF Left

(* What fits, fits without a key.                                          *)
LEMMA FitsWithout ==
  ASSUME NEW h, NEW k, Fits(h), h.by # "mgmt_intf"
  PROVE  Fits(Without(h, k))
<1> DEFINE w == Without(h, k)
<1>1. /\ w.by = h.by /\ w.tree = h.tree /\ DOMAIN w.rest = DOMAIN h.rest \ {k}
      /\ \A j \in DOMAIN w.rest : w.rest[j] = h.rest[j]
  BY DEF Without
<1> HIDE DEF w
<1>2. ASSUME NEW f, PartOf(h.rest, f)
      PROVE  PartOf(w.rest, f)
  BY <1>1, <1>2 DEF PartOf
<1> QED
  BY <1>1, <1>2 DEF Fits, w

(* The top of the stack is what of the functions it may be.                *)
LEMMA TopIs ==
  ASSUME NEW m, NEW G, NEW V, NEW h \in G, MetTrees(m, G, V), OnStack(G, V)
  PROVE  /\ h.tree \in V /\ h.tree[2].type \in {"object", "array"}
         /\ h.by \in {"object", "array"} =>
                h.by = h.tree[2].type /\ PartOf(h.rest, h.tree[2].of)
         /\ h.by = "daemons" => /\ HasObject(h.tree, "daemons")
                                /\ h.tree[2].type = "object"
                                /\ PartOf(h.rest, Named(h.tree))
                                /\ ~Waits(G, h.tree, "daemons")
         /\ h.by = "mgmt_intf" => /\ HasObject(h.tree, "mgmt_intf")
                                  /\ h.tree[2].type = "object"
                                  /\ PartOf(h.rest, h.tree[2].of["mgmt_intf"].of)
                                  /\ PartOf(h.tree[2].of["mgmt_intf"].of, h.rest)
<1>1. h.tree \in V /\ Fits(h)
      /\ (h.by \in {"daemons", "mgmt_intf"} => ~Waits(G, h.tree, h.by))
  BY DEF OnStack
<1>2. h.tree[2].type \in {"object", "array"}
  BY <1>1 DEF MetTrees, Mf!IsTree
<1> QED
  BY <1>1, <1>2 DEF Fits, HasObject, Mf!IsObject

(* F without key k of item h is H, and else the same.                      *)
Shrinks(m, V, F, H, h, k) ==
    /\ MetTrees(m, H, V) /\ OnStack(H, V)
    /\ \A t, j : Waits(H, t, j) => Waits(F, t, j)
    /\ \A t, j : Waits(F, t, j) => Waits(H, t, j) \/ (t = h.tree /\ j = k)
    /\ Waits(F, h.tree, k) /\ ~Waits(H, h.tree, k)
    /\ \A t, j : Left(H, "daemons", t, j) <=> Left(F, "daemons", t, j)
    /\ (\E g \in H : g.by = "mgmt_intf") <=> (\E g \in F : g.by = "mgmt_intf")
    /\ h.tree \in V /\ k \in Keys(h.tree)
    /\ h.rest[k] = h.tree[2].of[k] /\ h.by = h.tree[2].type

(* A key of an object or an array is taken from the top of the stack.      *)
LEMMA Taken ==
  ASSUME NEW m, NEW G, NEW V, NEW R, NEW known, NEW h, Alone(h, G),
         Explored(m, {h} \union G, V, R, known),
         h.by \in {"object", "array"}, NEW k \in DOMAIN h.rest
  PROVE  Shrinks(m, V, {h} \union G, {Without(h, k)} \union G, h, k)
<1> DEFINE w == Without(h, k)
           H == {w} \union G
           F == {h} \union G
<1>1. /\ w.by = h.by /\ w.tree = h.tree /\ DOMAIN w.rest = DOMAIN h.rest \ {k}
  BY DEF Without
<1>2. MetTrees(m, F, V) /\ OnStack(F, V) /\ h \in F
  BY DEF Explored
<1>3. h.tree \in V /\ h.by = h.tree[2].type /\ PartOf(h.rest, h.tree[2].of)
  BY <1>2, TopIs
<1>4. k \in Keys(h.tree) /\ h.rest[k] = h.tree[2].of[k]
  BY <1>3 DEF PartOf, Keys
<1>5. \A by, t, j : Left(H, by, t, j)
          <=> Left(F, by, t, j) /\ ~(by = h.by /\ t = h.tree /\ j = k)
  BY LeftWithout
<1>6. Fits(w)
  <2>1. Fits(h) /\ h.by # "mgmt_intf"
    BY <1>2 DEF OnStack
  <2> QED
    BY <2>1, FitsWithout
<1>7. Waits(F, h.tree, k)
  BY <1>3 DEF Waits, Left
<1> HIDE DEF w
<1>8. (\E g \in H : g.by = "mgmt_intf") <=> (\E g \in F : g.by = "mgmt_intf")
  BY <1>1
<1>9. \A g \in H : g \in F \/ g = w
  OBVIOUS
<1> HIDE DEF H, F
<1>10. /\ \A t, j : Waits(H, t, j) => Waits(F, t, j)
       /\ \A t, j : Waits(F, t, j) => Waits(H, t, j) \/ (t = h.tree /\ j = k)
       /\ ~Waits(H, h.tree, k)
       /\ \A t, j : Left(H, "daemons", t, j) <=> Left(F, "daemons", t, j)
  BY <1>3, <1>5 DEF Waits
<1>11. MetTrees(m, H, V)
  BY <1>2, <1>10 DEF MetTrees
<1>12. OnStack(H, V)
  BY <1>1, <1>2, <1>3, <1>6, <1>9, <1>10 DEF OnStack
<1>13. Shrinks(m, V, F, H, h, k)
  BY <1>3, <1>4, <1>7, <1>8, <1>10, <1>11, <1>12 DEF Shrinks
<1> QED
  BY <1>13 DEF H, F, w

(* A member that is neither an object nor an array: nothing is lost.       *)
LEMMA Skipped ==
  ASSUME NEW m, NEW G, NEW V, NEW R, NEW known, NEW h, Alone(h, G),
         Explored(m, {h} \union G, V, R, known),
         h.by \in {"object", "array"}, NEW k \in DOMAIN h.rest,
         ~Mf!IsTree(h.rest[k])
  PROVE  Explored(m, {Without(h, k)} \union G, V, R, known)
<1> DEFINE H == {Without(h, k)} \union G
           F == {h} \union G
<1>0. Shrinks(m, V, F, H, h, k)
  BY Taken
<1>2. /\ AllMet(F, V) /\ AllRead(F, V, R) /\ IntfMet(F, V, known)
  BY DEF Explored
<1> HIDE DEF H, F
<1>1. /\ MetTrees(m, H, V) /\ OnStack(H, V)
      /\ \A t, j : Waits(H, t, j) => Waits(F, t, j)
      /\ \A t, j : Waits(F, t, j) => Waits(H, t, j) \/ (t = h.tree /\ j = k)
      /\ \A t, j : Left(H, "daemons", t, j) <=> Left(F, "daemons", t, j)
      /\ (\E g \in H : g.by = "mgmt_intf") <=> (\E g \in F : g.by = "mgmt_intf")
      /\ h.rest[k] = h.tree[2].of[k]
  BY <1>0 DEF Shrinks
<1>3. \A s : ~(HasObject(h.tree, s) /\ s = k)
  BY <1>1 DEF HasObject, Mf!IsObject, Mf!IsTree
<1>4. AllMet(H, V)
  <2>1. ~Opens(h.tree, k)
    BY <1>1 DEF Opens
  <2> QED
    BY <1>1, <1>2, <2>1 DEF AllMet
<1>5. AllRead(H, V, R)
  BY <1>1, <1>2, <1>3 DEF AllRead
<1>6. IntfMet(H, V, known)
  BY <1>1, <1>2, <1>3 DEF IntfMet
<1> QED
  BY <1>1, <1>4, <1>5, <1>6 DEF Explored, H

(* The place of what is below a tree is not that of a tree that was met.   *)
LEMMA NewPlace ==
  ASSUME NEW m, NEW G, NEW V, MetTrees(m, G, V), NEW t \in V, NEW k, Waits(G, t, k),
         NEW u \in V
  PROVE  u[1] # <<t[1], k>> /\ <<t[1], k>> # <<>>
<1>1. <<t[1], k>> # <<>>
  <2>1. Len(<<t[1], k>>) = 2 /\ Len(<<>>) = 0
    OBVIOUS
  <2> QED
    BY <2>1
<1>2. SUFFICES ASSUME u[1] = <<t[1], k>>
               PROVE  FALSE
  BY <1>1
<1>3. PICK p \in V : \E j \in Keys(p) : u[1] = <<p[1], j>> /\ ~Waits(G, p, j)
  BY <1>1, <1>2 DEF MetTrees
<1>4. PICK j : <<t[1], k>> = <<p[1], j>> /\ ~Waits(G, p, j)
  BY <1>2, <1>3
<1>5. p[1] = t[1] /\ j = k
  BY <1>4
<1>6. p = t
  BY <1>5 DEF MetTrees
<1> QED
  BY <1>4, <1>5, <1>6

-----------------------------------------------------------------------------
TreeItem(c) == [by |-> c[2].type, tree |-> c, rest |-> c[2].of]

(* An object or an array that is no section: a tree that was not yet met.  *)
LEMMA Entered ==
  ASSUME NEW m, NEW G, NEW V, NEW R, NEW known, NEW h, Alone(h, G),
         Explored(m, {h} \union G, V, R, known),
         h.by \in {"object", "array"}, NEW k \in DOMAIN h.rest,
         Opens(h.tree, k), Below(h.tree, k) \in Mf!TreesOf(m),
         "daemons" \in DaemonsKeys, "mgmt_intf" \in MgmtKeys
  PROVE  LET c == Below(h.tree, k)
         IN  /\ \A g \in {Without(h, k)} \union G : g.tree # c
             /\ Explored(m, {TreeItem(c)} \union ({Without(h, k)} \union G),
                       V \union {c}, R, known)
<1> DEFINE c == Below(h.tree, k)
           H == {Without(h, k)} \union G
           F == {h} \union G
           K == {TreeItem(c)} \union H
           U == V \union {c}
<1>1. Shrinks(m, V, F, H, h, k)
  BY Taken
<1>2. /\ MetTrees(m, F, V) /\ OnStack(F, V) /\ AllMet(F, V) /\ AllRead(F, V, R)
      /\ IntfMet(F, V, known)
  BY DEF Explored
<1>3. c[1] = <<h.tree[1], k>> /\ c[2] = h.tree[2].of[k]
  BY DEF Below
<1>4. /\ TreeItem(c).by = c[2].type /\ TreeItem(c).tree = c
      /\ TreeItem(c).rest = c[2].of
  BY DEF TreeItem
<1>5. Mf!IsTree(c[2]) /\ c[2].type \in {"object", "array"}
  BY <1>3 DEF Opens, Mf!IsTree
<1>6. \A by, t, j : Left(K, by, t, j)
          <=> Left(H, by, t, j) \/ (by = c[2].type /\ t = c /\ j \in Keys(c))
  <2> SUFFICES ASSUME NEW by, NEW t, NEW j
               PROVE  Left(K, by, t, j)
                          <=> \/ Left(H, by, t, j)
                              \/ by = c[2].type /\ t = c /\ j \in Keys(c)
    OBVIOUS
  <2> HIDE DEF H, c
  <2> QED
    BY <1>4, LeftMore DEF Keys
<1> HIDE DEF c, H, F, K, U
<1>7. \A u \in V : u[1] # c[1] /\ c[1] # <<>>
  <2>1. h.tree \in V /\ Waits(F, h.tree, k)
    BY <1>1 DEF Shrinks
  <2> QED
    BY <1>2, <1>3, <2>1, NewPlace
<1>8. c \notin V
  BY <1>7
<1>9. \A g \in H : g.tree # c
  BY <1>1, <1>8 DEF Shrinks, OnStack
<1>10. \A t \in V : \A j : Waits(K, t, j) <=> Waits(H, t, j)
  BY <1>6, <1>8 DEF Waits
<1>11. \A j \in Keys(c) : Waits(K, c, j)
  BY <1>6 DEF Waits
<1>12. \A t, j : Left(K, "daemons", t, j) <=> Left(F, "daemons", t, j)
  BY <1>1, <1>5, <1>6 DEF Shrinks
<1>13. h.tree \in V /\ k \in Keys(h.tree)
  BY <1>1 DEF Shrinks
<1>14. \A s \in {"daemons", "mgmt_intf"} : ~(HasObject(h.tree, s) /\ s = k)
  BY DEF HasObject, Opens, Mf!IsSection
<1>15. MetTrees(m, K, U)
  <2>1. MetTrees(m, H, V)
    BY <1>1 DEF Shrinks
  <2>2. /\ << <<>>, m >> \in U /\ U \subseteq Mf!TreesOf(m)
        /\ \A t \in U : Mf!IsTree(t[2])
    BY <1>5, <2>1 DEF MetTrees, U, c
  <2>3. \A t, u \in U : t[1] = u[1] => t = u
    BY <1>7, <2>1 DEF MetTrees, U
  <2>4. ASSUME NEW d \in U, d[1] # <<>>
        PROVE  \E t \in U : \E j \in Keys(t) :
                   d[1] = <<t[1], j>> /\ ~Waits(K, t, j)
    <3>1. CASE d = c
      <4>1. ~Waits(H, h.tree, k)
        BY <1>1 DEF Shrinks
      <4> QED
        BY <1>3, <1>10, <1>13, <3>1, <4>1 DEF U
    <3>2. CASE d \in V
      <4>1. PICK t \in V : \E j \in Keys(t) :
                d[1] = <<t[1], j>> /\ ~Waits(H, t, j)
        BY <2>1, <2>4, <3>2 DEF MetTrees
      <4> QED
        BY <1>10, <4>1 DEF U
    <3> QED
      BY <3>1, <3>2 DEF U
  <2> QED
    BY <2>2, <2>3, <2>4 DEF MetTrees
<1>16. OnStack(K, U)
  <2>1. OnStack(H, V)
    BY <1>1 DEF Shrinks
  <2>2. Fits(TreeItem(c))
    BY <1>4 DEF Fits, PartOf
  <2> QED
    BY <1>4, <1>5, <1>10, <2>1, <2>2 DEF OnStack, K, U
<1>17. AllMet(K, U)
  <2>1. ASSUME NEW t \in V, NEW j \in Keys(t), Opens(t, j)
        PROVE  Below(t, j) \in U \/ Waits(K, t, j)
    <3>1. Below(t, j) \in V \/ Waits(F, t, j)
      BY <1>2, <2>1 DEF AllMet
    <3>2. Waits(F, t, j) => Waits(H, t, j) \/ (t = h.tree /\ j = k)
      BY <1>1 DEF Shrinks
    <3> QED
      BY <1>10, <3>1, <3>2 DEF U, c
  <2> QED
    BY <1>11, <2>1 DEF AllMet, U
<1>18. AllRead(K, U, R)
  <2>1. ASSUME NEW r \in R
        PROVE  \E t \in U :
                   /\ HasObject(t, "daemons") /\ ~Waits(K, t, "daemons")
                   /\ \E n \in DOMAIN Named(t) :
                          r = EntryOf(t, n) /\ ~Left(K, "daemons", t, n)
    <3>1. PICK t \in V :
              /\ HasObject(t, "daemons") /\ ~Waits(F, t, "daemons")
              /\ \E n \in DOMAIN Named(t) :
                     r = EntryOf(t, n) /\ ~Left(F, "daemons", t, n)
      BY <1>2, <2>1 DEF AllRead
    <3>2. ~Waits(K, t, "daemons")
      BY <1>1, <1>10, <3>1 DEF Shrinks
    <3> QED
      BY <1>12, <3>1, <3>2 DEF U
  <2>2. ASSUME NEW t \in U, HasObject(t, "daemons")
        PROVE  \/ Waits(K, t, "daemons")
               \/ \A n \in DOMAIN Named(t) :
                      EntryOf(t, n) \in R \/ Left(K, "daemons", t, n)
    <3>1. CASE t = c
      BY <1>11, <2>2, <3>1 DEF HasObject
    <3>2. CASE t \in V
      <4>1. Waits(F, t, "daemons") => Waits(H, t, "daemons")
        BY <1>1, <1>14, <2>2 DEF Shrinks
      <4> QED
        BY <1>2, <1>10, <1>12, <2>2, <3>2, <4>1 DEF AllRead
    <3> QED
      BY <3>1, <3>2 DEF U
  <2> QED
    BY <2>1, <2>2 DEF AllRead
<1>19. IntfMet(K, U, known)
  <2>1. ASSUME NEW t \in U, HasObject(t, "mgmt_intf")
        PROVE  \/ known \/ Waits(K, t, "mgmt_intf")
               \/ \E g \in K : g.by = "mgmt_intf"
    <3>1. CASE t = c
      BY <1>11, <2>1, <3>1 DEF HasObject
    <3>2. CASE t \in V
      <4>1. Waits(F, t, "mgmt_intf") => Waits(H, t, "mgmt_intf")
        BY <1>1, <1>14, <2>1 DEF Shrinks
      <4>2. (\E g \in F : g.by = "mgmt_intf")
                => (\E g \in K : g.by = "mgmt_intf")
        BY <1>1 DEF Shrinks, K
      <4> QED
        BY <1>2, <1>10, <2>1, <3>2, <4>1, <4>2 DEF IntfMet
    <3> QED
      BY <3>1, <3>2 DEF U
  <2> QED
    BY <2>1 DEF IntfMet
<1>20. Explored(m, K, U, R, known)
  BY <1>15, <1>16, <1>17, <1>18, <1>19 DEF Explored
<1> QED
  BY <1>9, <1>20 DEF K, U, H, c

SectionItem(t, s) == [by |-> s, tree |-> t, rest |-> t[2].of[s].of]

(* A section is entered.                                                   *)
LEMMA Opened ==
  ASSUME NEW m, NEW G, NEW V, NEW R, NEW known, NEW h, Alone(h, G),
         Explored(m, {h} \union G, V, R, known),
         h.by \in {"object", "array"}, NEW k \in DOMAIN h.rest,
         HasObject(h.tree, k), k \in {"daemons", "mgmt_intf"},
         "daemons" \in DaemonsKeys, "mgmt_intf" \in MgmtKeys
  PROVE  /\ \A g \in {Without(h, k)} \union G : ~(g.by = k /\ g.tree = h.tree)
         /\ Explored(m, {SectionItem(h.tree, k)} \union ({Without(h, k)} \union G),
                    V, R, known)
<1> DEFINE H == {Without(h, k)} \union G
           F == {h} \union G
           N == SectionItem(h.tree, k)
           K == {N} \union H
<1>1. Shrinks(m, V, F, H, h, k)
  BY Taken
<1>2. /\ MetTrees(m, F, V) /\ OnStack(F, V) /\ AllMet(F, V) /\ AllRead(F, V, R)
      /\ IntfMet(F, V, known)
  BY DEF Explored
<1>3. N.by = k /\ N.tree = h.tree /\ N.rest = h.tree[2].of[k].of
  BY DEF SectionItem
<1> HIDE DEF N
<1>4. \A by, t, j : Left(K, by, t, j)
          <=> \/ Left(H, by, t, j)
              \/ by = k /\ t = h.tree /\ j \in DOMAIN h.tree[2].of[k].of
  <2> HIDE DEF H
  <2> QED
    BY <1>3, LeftMore
<1>5. \A g \in H : g \in F \/ (g.by = h.by /\ g.tree = h.tree)
  BY DEF Without
<1> HIDE DEF H, F, K
<1>6. h.tree \in V /\ k \in Keys(h.tree) /\ h.by = h.tree[2].type
      /\ Waits(F, h.tree, k) /\ ~Waits(H, h.tree, k)
  BY <1>1 DEF Shrinks
<1>7. \A g \in H : ~(g.by = k /\ g.tree = h.tree)
  BY <1>2, <1>5, <1>6 DEF OnStack
<1>8. \A t \in V : t[2].type \in {"object", "array"}
  BY <1>2 DEF MetTrees, Mf!IsTree
<1>9. \A t \in V : \A j : Waits(K, t, j) <=> Waits(H, t, j)
  BY <1>4, <1>8 DEF Waits
<1>10. \A t, j : Left(K, "daemons", t, j)
           <=> \/ Left(F, "daemons", t, j)
               \/ k = "daemons" /\ t = h.tree /\ j \in DOMAIN Named(t)
  BY <1>1, <1>4 DEF Shrinks, Named
<1>11. /\ \A t, j : Waits(H, t, j) => Waits(F, t, j)
       /\ \A t, j : Waits(F, t, j) => Waits(H, t, j) \/ (t = h.tree /\ j = k)
  BY <1>1 DEF Shrinks
<1>12. MetTrees(m, K, V)
  BY <1>1, <1>9 DEF Shrinks, MetTrees
<1>13. OnStack(K, V)
  <2>1. OnStack(H, V)
    BY <1>1 DEF Shrinks
  <2>2. Fits(N)
    BY <1>3 DEF Fits, PartOf, Named
  <2> QED
    BY <1>3, <1>6, <1>9, <2>1, <2>2 DEF OnStack, K
<1>14. AllMet(K, V)
  <2>1. ~Opens(h.tree, k)
    BY DEF HasObject, Opens, Mf!IsSection
  <2> QED
    BY <1>2, <1>9, <1>11, <2>1 DEF AllMet
<1>15. AllRead(K, V, R)
  <2>1. ASSUME NEW r \in R
        PROVE  \E t \in V :
                   /\ HasObject(t, "daemons") /\ ~Waits(K, t, "daemons")
                   /\ \E n \in DOMAIN Named(t) :
                          r = EntryOf(t, n) /\ ~Left(K, "daemons", t, n)
    <3>1. PICK t \in V :
              /\ HasObject(t, "daemons") /\ ~Waits(F, t, "daemons")
              /\ \E n \in DOMAIN Named(t) :
                     r = EntryOf(t, n) /\ ~Left(F, "daemons", t, n)
      BY <1>2, <2>1 DEF AllRead
    <3>2. ~Waits(K, t, "daemons")
      BY <1>9, <1>11, <3>1
    <3>3. ~(k = "daemons" /\ t = h.tree)
      BY <1>6, <3>1
    <3> QED
      BY <1>10, <3>1, <3>2, <3>3
  <2>2. ASSUME NEW t \in V, HasObject(t, "daemons")
        PROVE  \/ Waits(K, t, "daemons")
               \/ \A n \in DOMAIN Named(t) :
                      EntryOf(t, n) \in R \/ Left(K, "daemons", t, n)
    BY <1>2, <1>9, <1>10, <1>11, <2>2 DEF AllRead
  <2> QED
    BY <2>1, <2>2 DEF AllRead
<1>16. IntfMet(K, V, known)
  <2>1. (\E g \in F : g.by = "mgmt_intf") => (\E g \in K : g.by = "mgmt_intf")
    BY <1>1 DEF Shrinks, K
  <2>2. k = "mgmt_intf" => (\E g \in K : g.by = "mgmt_intf")
    BY <1>3 DEF K
  <2> QED
    BY <1>2, <1>9, <1>11, <2>1, <2>2 DEF IntfMet
<1>17. Explored(m, K, V, R, known)
  BY <1>12, <1>13, <1>14, <1>15, <1>16 DEF Explored
<1> QED
  BY <1>7, <1>17 DEF H, K, N

(* An object, an array or a daemons section of which nothing is left.      *)
LEMMA Emptied ==
  ASSUME NEW m, NEW G, NEW V, NEW R, NEW known, NEW h,
         Explored(m, {h} \union G, V, R, known),
         DOMAIN h.rest = {}, h.by # "mgmt_intf"
  PROVE  Explored(m, G, V, R, known)
<1> DEFINE F == {h} \union G
<1>1. \A by, t, j : Left(F, by, t, j) <=> Left(G, by, t, j)
  BY LeftMore
<1>2. \A t, j : Waits(F, t, j) <=> Waits(G, t, j)
  BY <1>1 DEF Waits
<1>3. /\ MetTrees(m, F, V) /\ OnStack(F, V) /\ AllMet(F, V) /\ AllRead(F, V, R)
      /\ IntfMet(F, V, known)
  BY DEF Explored
<1>4. (\E g \in F : g.by = "mgmt_intf") => (\E g \in G : g.by = "mgmt_intf")
  OBVIOUS
<1>5. \A g \in G : g \in F
  OBVIOUS
<1> HIDE DEF F
<1>6. MetTrees(m, G, V) /\ OnStack(G, V) /\ AllMet(G, V)
  BY <1>2, <1>3, <1>5 DEF MetTrees, OnStack, AllMet
<1>7. AllRead(G, V, R)
  BY <1>1, <1>2, <1>3 DEF AllRead
<1>8. IntfMet(G, V, known)
  BY <1>2, <1>3, <1>4 DEF IntfMet
<1> QED
  BY <1>6, <1>7, <1>8 DEF Explored

(* The section of the management interface, which has now its name.        *)
LEMMA IntfRead ==
  ASSUME NEW m, NEW G, NEW V, NEW R, NEW known, NEW h,
         Explored(m, {h} \union G, V, R, known), h.by = "mgmt_intf"
  PROVE  Explored(m, G, V, R, TRUE)
<1> DEFINE F == {h} \union G
<1>1. /\ MetTrees(m, F, V) /\ OnStack(F, V) /\ AllMet(F, V) /\ AllRead(F, V, R)
  BY DEF Explored
<1>2. \A t \in V : t[2].type \in {"object", "array"}
  BY <1>1 DEF MetTrees, Mf!IsTree
<1>3. \A by, t, j : by # "mgmt_intf" => (Left(F, by, t, j) <=> Left(G, by, t, j))
  BY LeftMore
<1>4. \A t \in V : \A j : Waits(F, t, j) <=> Waits(G, t, j)
  BY <1>2, <1>3 DEF Waits
<1>5. \A g \in G : g \in F
  OBVIOUS
<1> HIDE DEF F
<1>6. MetTrees(m, G, V) /\ AllMet(G, V)
  BY <1>1, <1>4 DEF MetTrees, AllMet
<1>7. OnStack(G, V)
  BY <1>1, <1>4, <1>5 DEF OnStack
<1>8. AllRead(G, V, R)
  BY <1>1, <1>3, <1>4 DEF AllRead
<1>9. IntfMet(G, V, TRUE)
  BY DEF IntfMet
<1> QED
  BY <1>6, <1>7, <1>8, <1>9 DEF Explored

(* An entry is read: it is new.                                            *)
LEMMA EntryRead ==
  ASSUME NEW m, NEW G, NEW V, NEW R, NEW known, NEW h, Alone(h, G),
         Explored(m, {h} \union G, V, R, known),
         h.by = "daemons", NEW k \in DOMAIN h.rest
  PROVE  LET e == EntryOf(h.tree, k)
         IN  /\ e \notin R
             /\ e.name = k /\ e.says = h.rest[k]
             /\ Explored(m, {Without(h, k)} \union G, V, R \union {e}, known)
<1> DEFINE w == Without(h, k)
           H == {w} \union G
           F == {h} \union G
           e == EntryOf(h.tree, k)
<1>1. w.by = h.by /\ w.tree = h.tree
  BY DEF Without
<1>2. /\ MetTrees(m, F, V) /\ OnStack(F, V) /\ AllMet(F, V) /\ AllRead(F, V, R)
      /\ IntfMet(F, V, known) /\ h \in F
  BY DEF Explored
<1>3. \A by, t, j : Left(H, by, t, j)
          <=> Left(F, by, t, j) /\ ~(by = "daemons" /\ t = h.tree /\ j = k)
  BY LeftWithout
<1>4. Left(F, "daemons", h.tree, k)
  BY DEF Left
<1>5. Fits(w)
  <2>1. Fits(h)
    BY <1>2 DEF OnStack
  <2> QED
    BY <2>1, FitsWithout
<1>6. \A g \in H : g \in F \/ g = w
  OBVIOUS
<1>7. (\E g \in F : g.by = "mgmt_intf") => (\E g \in H : g.by = "mgmt_intf")
  OBVIOUS
<1>8. /\ h.tree \in V /\ HasObject(h.tree, "daemons")
      /\ PartOf(h.rest, Named(h.tree)) /\ ~Waits(F, h.tree, "daemons")
  BY <1>2, TopIs
<1>9. k \in DOMAIN Named(h.tree) /\ h.rest[k] = Named(h.tree)[k]
  BY <1>8 DEF PartOf
<1>10. e.at = h.tree[1] /\ e.name = k /\ e.says = h.rest[k]
  BY <1>9 DEF EntryOf
<1> HIDE DEF w, H, F, e
<1>11. \A t \in V : \A j : Waits(F, t, j) <=> Waits(H, t, j)
  <2>1. \A t \in V : t[2].type # "daemons"
    BY <1>2 DEF MetTrees, Mf!IsTree
  <2> QED
    BY <1>3, <2>1 DEF Waits
<1>12. e \notin R
  <2>1. SUFFICES ASSUME e \in R
                 PROVE  FALSE
    OBVIOUS
  <2>2. PICK t \in V : \E n \in DOMAIN Named(t) :
            e = EntryOf(t, n) /\ ~Left(F, "daemons", t, n)
    BY <1>2, <2>1 DEF AllRead
  <2>3. PICK n : e = EntryOf(t, n) /\ ~Left(F, "daemons", t, n)
    BY <2>2
  <2>4. t[1] = h.tree[1] /\ n = k
    BY <1>10, <2>3 DEF EntryOf
  <2>5. t = h.tree
    BY <1>2, <1>8, <2>4 DEF MetTrees
  <2> QED
    BY <1>4, <2>3, <2>4, <2>5
<1>13. MetTrees(m, H, V) /\ AllMet(H, V)
  BY <1>2, <1>11 DEF MetTrees, AllMet
<1>14. OnStack(H, V)
  BY <1>1, <1>2, <1>5, <1>6, <1>8, <1>11 DEF OnStack
<1>15. AllRead(H, V, R \union {e})
  <2>1. ASSUME NEW r \in R \union {e}
        PROVE  \E t \in V :
                   /\ HasObject(t, "daemons") /\ ~Waits(H, t, "daemons")
                   /\ \E n \in DOMAIN Named(t) :
                          r = EntryOf(t, n) /\ ~Left(H, "daemons", t, n)
    <3>1. CASE r \in R
      BY <1>2, <1>3, <1>11, <3>1 DEF AllRead
    <3>2. CASE r = e
      BY <1>3, <1>8, <1>9, <1>11, <3>2 DEF e
    <3> QED
      BY <3>1, <3>2
  <2>2. ASSUME NEW t \in V, HasObject(t, "daemons")
        PROVE  \/ Waits(H, t, "daemons")
               \/ \A n \in DOMAIN Named(t) :
                      \/ EntryOf(t, n) \in R \union {e}
                      \/ Left(H, "daemons", t, n)
    BY <1>2, <1>3, <1>11, <2>2 DEF AllRead, e
  <2> QED
    BY <2>1, <2>2 DEF AllRead
<1>16. IntfMet(H, V, known)
  BY <1>2, <1>7, <1>11 DEF IntfMet
<1>17. Explored(m, H, V, R \union {e}, known)
  BY <1>13, <1>14, <1>15, <1>16 DEF Explored
<1> QED
  BY <1>10, <1>12, <1>17 DEF H, e, w

Wider(S) == S \union UNION {Mf!Inside(t) : t \in S}
Grows(F, v, n) ==
    F = [d \in 0..n |-> IF d = 0 THEN {<< <<>>, v >>} ELSE Wider(F[d - 1])]

(* The trees, depth by depth.                                              *)
LEMMA TreesGrow ==
  ASSUME NEW v
  PROVE  \E F : Grows(F, v, MaxDepth) /\ Mf!TreesOf(v) = F[MaxDepth]
<1>1. MaxDepth \in Nat
  BY BootAssumption
<1> DEFINE P == {n \in Nat : \E F : Grows(F, v, n)}
<1>2. 0 \in P
  <2> DEFINE F == [d \in 0..0 |-> {<< <<>>, v >>}]
  <2>1. Grows(F, v, 0)
    BY DEF Grows
  <2> HIDE DEF F
  <2> QED
    BY <2>1
<1>3. ASSUME NEW n \in Nat, n \in P
      PROVE  n + 1 \in P
  <2>1. PICK F : Grows(F, v, n)
    BY <1>3
  <2> DEFINE G == [d \in 0..(n + 1) |-> IF d = n + 1 THEN Wider(F[n]) ELSE F[d]]
  <2>2. ASSUME NEW d \in 0..(n + 1)
        PROVE  G[d] = IF d = 0 THEN {<< <<>>, v >>} ELSE Wider(G[d - 1])
    <3>1. CASE d = n + 1
      <4>1. d # 0 /\ d - 1 = n /\ n \in 0..(n + 1) /\ n # n + 1
        BY <3>1
      <4>2. G[d] = Wider(F[n]) /\ G[d - 1] = F[n]
        BY <3>1, <4>1
      <4> HIDE DEF G
      <4> QED
        BY <4>1, <4>2
    <3>2. CASE d # n + 1
      <4>1. d \in 0..n
        BY <3>2
      <4>2. d # 0 => d - 1 \in 0..n /\ d - 1 \in 0..(n + 1) /\ d - 1 # n + 1
        BY <4>1
      <4>3. G[d] = F[d] /\ (d # 0 => G[d - 1] = F[d - 1])
        BY <3>2, <4>2
      <4>4. F[d] = IF d = 0 THEN {<< <<>>, v >>} ELSE Wider(F[d - 1])
        BY <2>1, <4>1 DEF Grows
      <4> HIDE DEF G
      <4> QED
        BY <4>3, <4>4
    <3> QED
      BY <3>1, <3>2
  <2>3. G = [d \in 0..(n + 1) |-> G[d]]
    OBVIOUS
  <2> HIDE DEF G
  <2>4. Grows(G, v, n + 1)
    BY <2>2, <2>3 DEF Grows
  <2> QED
    BY <2>4
<1> HIDE DEF P
<1>4. MaxDepth \in P
  BY <1>1, <1>2, <1>3, Induction
<1>5. \E F : Grows(F, v, MaxDepth)
  BY <1>4 DEF P
<1> DEFINE F == CHOOSE f : Grows(f, v, MaxDepth)
<1>6. Grows(F, v, MaxDepth)
  BY <1>5, Zenon
<1>7. Mf!TreesOf(v) = F[MaxDepth]
  BY Zenon DEF Mf!TreesOf, Grows, Wider
<1> HIDE DEF F
<1> QED
  BY <1>6, <1>7

(* The value itself is one of them.                                        *)
LEMMA TreesHaveRoot ==
  ASSUME NEW v
  PROVE  << <<>>, v >> \in Mf!TreesOf(v)
<1>1. MaxDepth \in Nat
  BY BootAssumption
<1>2. PICK F : Grows(F, v, MaxDepth) /\ Mf!TreesOf(v) = F[MaxDepth]
  BY TreesGrow
<1> DEFINE P == {d \in Nat : d <= MaxDepth => << <<>>, v >> \in F[d]}
<1>3. 0 \in P
  BY <1>1, <1>2 DEF Grows
<1>4. ASSUME NEW n \in Nat, n \in P
      PROVE  n + 1 \in P
  <2>1. SUFFICES ASSUME n + 1 <= MaxDepth
                 PROVE  << <<>>, v >> \in F[n + 1]
    OBVIOUS
  <2>2. n + 1 \in 0..MaxDepth /\ n + 1 # 0 /\ (n + 1) - 1 = n
    BY <1>1, <2>1
  <2>3. F[n + 1] = Wider(F[n])
    BY <1>2, <2>2 DEF Grows
  <2> QED
    BY <1>1, <1>4, <2>1, <2>3 DEF Wider
<1> HIDE DEF P
<1>5. MaxDepth \in P
  BY <1>1, <1>3, <1>4, Induction
<1> QED
  BY <1>1, <1>2, <1>5 DEF P

(* A set that has the value and what is inside its elements has them all.  *)
LEMMA TreesWithin ==
  ASSUME NEW v, NEW V, << <<>>, v >> \in V, \A t \in V : Mf!Inside(t) \subseteq V
  PROVE  Mf!TreesOf(v) \subseteq V
<1>1. MaxDepth \in Nat
  BY BootAssumption
<1>2. PICK F : Grows(F, v, MaxDepth) /\ Mf!TreesOf(v) = F[MaxDepth]
  BY TreesGrow
<1> DEFINE P == {d \in Nat : d <= MaxDepth => F[d] \subseteq V}
<1>3. 0 \in P
  <2>1. F[0] = {<< <<>>, v >>}
    BY <1>1, <1>2 DEF Grows
  <2> QED
    BY <2>1
<1>4. ASSUME NEW n \in Nat, n \in P
      PROVE  n + 1 \in P
  <2>1. SUFFICES ASSUME n + 1 <= MaxDepth
                 PROVE  F[n + 1] \subseteq V
    OBVIOUS
  <2>2. n + 1 \in 0..MaxDepth /\ n + 1 # 0 /\ (n + 1) - 1 = n
    BY <1>1, <2>1
  <2>3. F[n + 1] = Wider(F[n])
    BY <1>2, <2>2 DEF Grows
  <2>4. F[n] \subseteq V
    BY <1>1, <1>4, <2>1
  <2> QED
    BY <2>3, <2>4 DEF Wider
<1> HIDE DEF P
<1>5. MaxDepth \in P
  BY <1>1, <1>3, <1>4, Induction
<1> QED
  BY <1>1, <1>2, <1>5 DEF P

(* What is inside a tree, by key.                                          *)
LEMMA InsideIs ==
  ASSUME NEW t
  PROVE  /\ \A k \in Keys(t) : Opens(t, k) => Below(t, k) \in Mf!Inside(t)
         /\ \A c \in Mf!Inside(t) : \E k \in Keys(t) :
                Opens(t, k) /\ c = Below(t, k)
BY DEF Keys, Opens, Below, Mf!Inside

(* At first there is only the value itself.                                *)
LEMMA BegunWith ==
  ASSUME NEW m, Mf!IsTree(m)
  PROVE  LET t == << <<>>, m >>
         IN  Explored(m, {TreeItem(t)}, {t}, {}, FALSE)
<1> DEFINE t == << <<>>, m >>
           G == {TreeItem(t)}
<1>1. /\ TreeItem(t).by = t[2].type /\ TreeItem(t).tree = t
      /\ TreeItem(t).rest = t[2].of
  BY DEF TreeItem
<1>2. t[1] = <<>> /\ t[2] = m /\ m.type \in {"object", "array"}
  BY DEF Mf!IsTree
<1>3. t \in Mf!TreesOf(m)
  BY TreesHaveRoot
<1> HIDE DEF t
<1>4. \A j \in Keys(t) : Waits(G, t, j)
  BY <1>1 DEF Waits, Left, Keys
<1>5. MetTrees(m, G, {t})
  BY <1>2, <1>3 DEF MetTrees, t
<1>6. Fits(TreeItem(t))
  BY <1>1 DEF Fits, PartOf
<1>7. OnStack(G, {t})
  BY <1>1, <1>2, <1>6 DEF OnStack
<1>8. AllMet(G, {t})
  BY <1>4 DEF AllMet
<1>9. AllRead(G, {t}, {}) /\ IntfMet(G, {t}, FALSE)
  BY <1>4 DEF AllRead, IntfMet, HasObject
<1> QED
  BY <1>5, <1>7, <1>8, <1>9 DEF Explored, t

(* In the end there is nothing that was not met and read.                  *)
LEMMA EndedWith ==
  ASSUME NEW m, NEW V, NEW R, NEW known, Explored(m, {}, V, R, known)
  PROVE  /\ V = Mf!TreesOf(m)
         /\ \A r \in R : \E t \in V : HasObject(t, "daemons")
                /\ \E n \in DOMAIN Named(t) : r = EntryOf(t, n)
         /\ \A t \in V : HasObject(t, "daemons") =>
                \A n \in DOMAIN Named(t) : EntryOf(t, n) \in R
         /\ \A t \in V : HasObject(t, "mgmt_intf") => known
<1>1. /\ MetTrees(m, {}, V) /\ AllMet({}, V) /\ AllRead({}, V, R)
      /\ IntfMet({}, V, known)
  BY DEF Explored
<1>2. \A by, t, k : ~Left({}, by, t, k)
  BY DEF Left
<1>3. \A t, k : ~Waits({}, t, k)
  BY <1>2 DEF Waits
<1>4. \A t \in V : Mf!Inside(t) \subseteq V
  BY <1>1, <1>3, InsideIs DEF AllMet
<1>5. Mf!TreesOf(m) \subseteq V
  BY <1>1, <1>4, TreesWithin DEF MetTrees
<1> QED
  BY <1>1, <1>2, <1>3, <1>5 DEF MetTrees, AllRead, IntfMet

-----------------------------------------------------------------------------
(* What a documented manifest says of its trees.                           *)
LEMMA DocumentedSays ==
  ASSUME system \in Systems, Mf!Documented
  PROVE  /\ Mf!IsTree(system.manifest)
         /\ \A t \in Mf!Trees : \A k \in Keys(t) :
                Opens(t, k) => Below(t, k) \in Mf!Trees
         /\ \A t \in Mf!Trees : Mf!IsObject(t[2]) =>
                /\ \A k \in Keys(t) \intersect DaemonsKeys : k = "daemons"
                /\ \A k \in Keys(t) \intersect MgmtKeys : k = "mgmt_intf"
         /\ \A t \in Mf!Trees : HasObject(t, "daemons") =>
                \A n \in DOMAIN Named(t) : EntryOf(t, n) \in Mf!Entries
         /\ \A e \in Mf!Entries : \E t \in Mf!Trees :
                /\ HasObject(t, "daemons")
                /\ \E n \in DOMAIN Named(t) : e = EntryOf(t, n)
         /\ \A e \in Mf!Entries :
                /\ Mf!IsObject(e.says)
                /\ Mf!HandlerFlags(e.says) = {Mf!SaysHandler(e)}
         /\ \A t \in Mf!Trees : HasObject(t, "mgmt_intf") =>
                t[2].of["mgmt_intf"].of \in Mf!MgmtIntfs
         /\ \A i \in Mf!MgmtIntfs :
                /\ DOMAIN i \intersect IntfKeys = {"intf"}
                /\ Mf!IsString(i["intf"])
                /\ \E t \in Mf!Trees : HasObject(t, "mgmt_intf")
<1>1. Mf!IsTree(system.manifest)
  BY DEF Mf!Documented
<1>2. \A t \in Mf!Trees : Mf!Inside(t) \subseteq Mf!Trees
  BY <1>1, ManifestAssumption DEF Mf!Trees
<1>3. \A t \in Mf!Trees : \A k \in Keys(t) :
          Opens(t, k) => Below(t, k) \in Mf!Trees
  BY <1>2, InsideIs
<1>4. ASSUME NEW t \in Mf!Trees, Mf!IsObject(t[2])
      PROVE  /\ \A k \in Keys(t) \intersect DaemonsKeys : k = "daemons"
             /\ \A k \in Keys(t) \intersect MgmtKeys : k = "mgmt_intf"
  <2>1. Keys(t) \intersect (DaemonsKeys \union MgmtKeys)
            \subseteq {"daemons", "mgmt_intf"}
    BY <1>4 DEF Mf!Documented, Keys
  <2> QED
    BY <2>1, ManifestAssumption
<1>5. \A t, k : t \in Mf!With(k) <=> t \in Mf!Trees /\ HasObject(t, k)
  BY DEF Mf!With, HasObject, Keys
<1>6. \A t \in Mf!Trees : HasObject(t, "daemons") =>
          \A n \in DOMAIN Named(t) : EntryOf(t, n) \in Mf!Entries
  BY <1>5 DEF Mf!Entries, Named, EntryOf
<1>7. \A e \in Mf!Entries : \E t \in Mf!Trees :
          /\ HasObject(t, "daemons")
          /\ \E n \in DOMAIN Named(t) : e = EntryOf(t, n)
  BY <1>5 DEF Mf!Entries, Named, EntryOf
<1>8. ASSUME NEW e \in Mf!Entries
      PROVE  /\ Mf!IsObject(e.says)
             /\ Mf!HandlerFlags(e.says) = {Mf!SaysHandler(e)}
  <2>1. /\ Mf!IsObject(e.says)
        /\ DOMAIN e.says.of \intersect HandlerKeys \subseteq {"is_hw_handler"}
    BY DEF Mf!Documented
  <2>2. CASE DOMAIN e.says.of \intersect HandlerKeys = {}
    <3>1. "is_hw_handler" \notin DOMAIN e.says.of
      BY <2>2, ManifestAssumption
    <3> QED
      BY <2>1, <2>2, <3>1 DEF Mf!HandlerFlags, Mf!SaysHandler
  <2>3. CASE DOMAIN e.says.of \intersect HandlerKeys # {}
    <3>1. /\ DOMAIN e.says.of \intersect HandlerKeys = {"is_hw_handler"}
          /\ "is_hw_handler" \in DOMAIN e.says.of
      BY <2>1, <2>3
    <3>2. Mf!HandlerFlags(e.says) = {e.says.of["is_hw_handler"].type = "true"}
      BY <3>1 DEF Mf!HandlerFlags
    <3>3. Mf!SaysHandler(e) = (e.says.of["is_hw_handler"].type = "true")
      BY <3>1 DEF Mf!SaysHandler
    <3> QED
      BY <2>1, <3>2, <3>3
  <2> QED
    BY <2>2, <2>3
<1>9. \A t \in Mf!Trees : HasObject(t, "mgmt_intf") =>
          t[2].of["mgmt_intf"].of \in Mf!MgmtIntfs
  BY <1>5 DEF Mf!MgmtIntfs
<1>10. \A i \in Mf!MgmtIntfs :
           /\ DOMAIN i \intersect IntfKeys = {"intf"}
           /\ Mf!IsString(i["intf"])
           /\ \E t \in Mf!Trees : HasObject(t, "mgmt_intf")
  BY <1>5 DEF Mf!Documented, Mf!MgmtIntfs
<1> QED
  BY <1>1, <1>3, <1>4, <1>6, <1>7, <1>8, <1>9, <1>10

-----------------------------------------------------------------------------
(* The entries that were read, in their order.                             *)
DaemonOf(d, e) == d.name = e.name /\ d.isHwHandler = Mf!SaysHandler(e)
Listed(read) ==
    /\ read \in Seq(Mf!Entries)
    /\ IsList(daemons) /\ Len(daemons) = Len(read)
    /\ \A i, j \in 1..Len(read) : read[i] = read[j] => i = j
    /\ \A i \in 1..Len(read) : DaemonOf(daemons[i], read[i])
Elements(s) == {s[i] : i \in 1..Len(s)}

(* A mgmt_intf has the name a section gives it, and its end if malloc's     *)
(* memory is zero.                                                         *)
Reads(intf, i, zeroed) ==
    /\ intf.name = i["intf"].of
    /\ zeroed => intf.ends

Walking(at, V, read, known) ==
    /\ Beside(stack, at)
    /\ Explored(system.manifest, Items(stack, at), V, Elements(read), known)
    /\ Listed(read)
    /\ IF known THEN \E i \in Mf!MgmtIntfs : Reads(mgmtIntf, i, system.zeroed)
                ELSE mgmtIntf = NoIntf

ReadAll(list, intf, zeroed, entries, intfs) ==
    /\ \A n \in {e.name : e \in entries}, h \in BOOLEAN :
           Cardinality({i \in DOMAIN list :
                            /\ list[i].name = n
                            /\ list[i].isHwHandler = h})
         = Cardinality({e \in entries : /\ e.name = n
                                       /\ Mf!SaysHandler(e) = h})
    /\ Len(list) = Cardinality(entries)
    /\ IF intfs = {} THEN intf = NoIntf
       ELSE \E i \in intfs : Reads(intf, i, zeroed)
AllIsRead ==
    ReadAll(daemons, mgmtIntf, system.zeroed, Mf!Entries, Mf!MgmtIntfs)

ManifestInv ==
    Mf!Documented =>
        \/ reading = "start" /\ stack = <<>> /\ daemons = <<>> /\ mgmtIntf = NoIntf
        \/ /\ reading = "walk"
           /\ \E at, V, read : \E known \in BOOLEAN :
                  Walking(at, V, read, known)
        \/ reading = "done" /\ AllIsRead

(* One more is listed.                                                     *)
LEMMA ListedMore ==
  ASSUME system' = system, NEW read, Listed(read), NEW e \in Mf!Entries,
         e \notin Elements(read), NEW d, DaemonOf(d, e),
         daemons' = Append(daemons, d)
  PROVE  /\ Listed(Append(read, e))'
         /\ Elements(Append(read, e)) = Elements(read) \union {e}
<1> DEFINE more == Append(read, e)
<1>1. /\ read \in Seq(Mf!Entries) /\ Len(read) \in Nat
      /\ more \in Seq(Mf!Entries) /\ Len(more) = Len(read) + 1
      /\ \A i \in 1..Len(read) : more[i] = read[i]
      /\ more[Len(read) + 1] = e
  BY DEF Listed
<1>2. PICK S : daemons \in Seq(S)
  BY DEF Listed, IsList
<1>3. daemons \in Seq(S \union {d})
  <2> DEFINE U == S \union {d}
  <2>1. S \subseteq U
    OBVIOUS
  <2> HIDE DEF U
  <2>2. daemons \in Seq(U)
    BY <1>2, <2>1
  <2> QED
    BY <2>2 DEF U
<1>4. /\ IsList(daemons') /\ Len(daemons') = Len(daemons) + 1
      /\ \A i \in 1..Len(daemons) : daemons'[i] = daemons[i]
      /\ daemons'[Len(daemons) + 1] = d
  <2> DEFINE U == S \union {d}
  <2>1. daemons \in Seq(U) /\ d \in U
    BY <1>3
  <2> HIDE DEF U
  <2> QED
    BY <2>1 DEF IsList
<1> HIDE DEF more
<1>5. Mf!Entries' = Mf!Entries
  BY DEF Mf!Entries, Mf!With, Mf!Trees
<1>6. \A i \in 1..Len(more) : i \in 1..Len(read) \/ i = Len(read) + 1
  BY <1>1
<1>7. \A i \in 1..Len(read) : read[i] # e
  BY DEF Elements
<1>8. Len(daemons) = Len(read)
  BY DEF Listed
<1>9. \A i, j \in 1..Len(more) : more[i] = more[j] => i = j
  BY <1>1, <1>6, <1>7 DEF Listed
<1>10. \A i \in 1..Len(more) : DaemonOf(daemons'[i], more[i])
  BY <1>1, <1>4, <1>6, <1>8 DEF Listed
<1>11. (\A i \in 1..Len(more) : DaemonOf(daemons[i], more[i]))'
  BY <1>10 DEF DaemonOf, Mf!SaysHandler
<1>12. Listed(more)'
  BY <1>1, <1>4, <1>5, <1>8, <1>9, <1>11 DEF Listed
<1>13. Elements(more) = Elements(read) \union {e}
  BY <1>1, <1>6 DEF Elements
<1> QED
  BY <1>12, <1>13 DEF more

(* What is listed without repetition is as much as its elements.           *)
LEMMA ListedAll ==
  ASSUME NEW read, Listed(read), Elements(read) = Mf!Entries
  PROVE  /\ \A n \in {e.name : e \in Mf!Entries}, h \in BOOLEAN :
                Cardinality({i \in DOMAIN daemons :
                                 /\ daemons[i].name = n
                                 /\ daemons[i].isHwHandler = h})
              = Cardinality({e \in Mf!Entries :
                                 e.name = n /\ Mf!SaysHandler(e) = h})
         /\ Len(daemons) = Cardinality(Mf!Entries)
<1>1. Len(read) \in Nat /\ DOMAIN daemons = 1..Len(read)
  <2>1. PICK S : daemons \in Seq(S)
    BY DEF Listed, IsList
  <2> QED
    BY <2>1 DEF Listed
<1>2. ASSUME NEW I \in SUBSET (1..Len(read)), NEW J,
             J = {read[i] : i \in I}
      PROVE  Cardinality(I) = Cardinality(J)
  <2> DEFINE f == [i \in I |-> read[i]]
  <2>1. f \in Bijection(I, J)
    <3>1. f \in [I -> J] /\ \A i \in I : f[i] = read[i]
      BY <1>2
    <3>2. \A i, j \in I : f[i] = f[j] => i = j
      BY <3>1 DEF Listed
    <3>3. \A y \in J : \E i \in I : f[i] = y
      BY <1>2, <3>1
    <3> HIDE DEF f
    <3> QED
      BY <3>1, <3>2, <3>3 DEF Bijection, Injection, IsInjective, Surjection
  <2>2. IsFiniteSet(I)
    <3>1. IsFiniteSet(1..Len(read))
      BY <1>1, FS_Interval
    <3> QED
      BY <3>1, FS_Subset
  <2>3. ExistsBijection(I, J)
    <3> HIDE DEF f
    <3> QED
      BY <2>1 DEF ExistsBijection
  <2> QED
    BY <2>2, <2>3, FS_Bijection
<1>3. Len(daemons) = Cardinality(Mf!Entries)
  <2>1. Cardinality(1..Len(read)) = Cardinality(Mf!Entries)
    BY <1>2 DEF Elements
  <2>2. Cardinality(1..Len(read)) = Len(read)
    BY <1>1, FS_Interval
  <2> QED
    BY <2>1, <2>2 DEF Listed
<1> DEFINE Same(n, h) ==
             Cardinality({i \in DOMAIN daemons :
                              /\ daemons[i].name = n
                              /\ daemons[i].isHwHandler = h})
           = Cardinality({e \in Mf!Entries :
                              e.name = n /\ Mf!SaysHandler(e) = h})
<1>4. ASSUME NEW n, NEW h
      PROVE  Same(n, h)
  <2> DEFINE I == {i \in 1..Len(read) : daemons[i].name = n
                                           /\ daemons[i].isHwHandler = h}
             J == {e \in Mf!Entries : e.name = n /\ Mf!SaysHandler(e) = h}
  <2>1. J = {read[i] : i \in I}
    <3>1. \A i \in 1..Len(read) :
              /\ daemons[i].name = read[i].name
              /\ daemons[i].isHwHandler = Mf!SaysHandler(read[i])
      BY DEF Listed, DaemonOf
    <3>2. ASSUME NEW e \in J
          PROVE  e \in {read[i] : i \in I}
      <4>1. PICK i \in 1..Len(read) : e = read[i]
        BY DEF Elements
      <4>2. i \in I
        BY <3>1, <4>1
      <4> QED
        BY <4>1, <4>2
    <3>3. ASSUME NEW i \in I
          PROVE  read[i] \in J
      BY <3>1 DEF Elements
    <3> QED
      BY <3>2, <3>3
  <2> HIDE DEF J
  <2>2. Cardinality(I) = Cardinality(J)
    BY <1>2, <2>1
  <2> QED
    BY <1>1, <2>2 DEF J
<1>6. \A n \in {e.name : e \in Mf!Entries}, h \in BOOLEAN : Same(n, h)
  <2> HIDE DEF Same
  <2> QED
    BY <1>4
<1> QED
  BY <1>3, <1>6, Zenon

-----------------------------------------------------------------------------
Top(at) == ItemOf(Head(stack), Head(at))
Rest(at) == Items(Tail(stack), Tail(at))

(* What is on the stack is its top and the rest.                           *)
LEMMA TopSplits ==
  ASSUME NEW at, Beside(stack, at), stack # <<>>
  PROVE  /\ Items(stack, at) = {Top(at)} \union Rest(at)
         /\ Alone(Top(at), Rest(at))
         /\ Beside(Tail(stack), Tail(at))
         /\ Top(at).by = Head(stack).by /\ Top(at).tree = Head(at)
         /\ DOMAIN Top(at).rest = Mf!Members
         /\ \A k : Top(at).rest[k] = Mf!Member(k)
         /\ Top(at).rest = Head(stack).rest
<1>1. Top(at) = ItemOf(Head(stack), Head(at))
      /\ Rest(at) = Items(Tail(stack), Tail(at))
  BY DEF Top, Rest
<1>2. Top(at).by = Head(stack).by /\ Top(at).tree = Head(at)
      /\ Top(at).rest = Head(stack).rest
  BY DEF Top, ItemOf
<1>3. Items(stack, at) = {Top(at)} \union Rest(at)
      /\ Beside(Tail(stack), Tail(at))
  BY <1>1, Popped
<1>4. Alone(Top(at), Rest(at))
  BY <1>1, <1>2, Popped DEF Alone
<1> QED
  BY <1>2, <1>3, <1>4 DEF Mf!Members, Mf!Member

(* The stack without a member of its top.                                  *)
LEMMA AfterIs ==
  ASSUME NEW at, Beside(stack, at), stack # <<>>, NEW k
  PROVE  LET here == <<Head(at)>> \o Tail(at)
         IN  /\ Beside(Mf!After(k), here)
             /\ Items(Mf!After(k), here) = {Without(Top(at), k)} \union Rest(at)
<1> DEFINE f == Mf!Frame(Head(stack).by,
                         [j \in Mf!Members \ {k} |-> Mf!Member(j)])
           t == Head(at)
<1>1. f.by = Head(stack).by /\ f.rest = [j \in Mf!Members \ {k} |-> Mf!Member(j)]
  BY DEF Mf!Frame
<1>2. Mf!After(k) = <<f>> \o Tail(stack)
  BY DEF Mf!After
<1>3. /\ Beside(Tail(stack), Tail(at)) /\ Alone(Top(at), Rest(at))
      /\ Top(at).by = Head(stack).by /\ Top(at).tree = t
      /\ DOMAIN Top(at).rest = Mf!Members
      /\ \A j : Top(at).rest[j] = Mf!Member(j)
  BY TopSplits
<1> HIDE DEF f, t
<1>4. ItemOf(f, t) = Without(Top(at), k)
  BY <1>1, <1>3 DEF ItemOf, Without
<1>5. \A g \in Items(Tail(stack), Tail(at)) : ~(g.by = f.by /\ g.tree = t)
  BY <1>1, <1>3 DEF Alone, Rest
<1>6. /\ Beside(<<f>> \o Tail(stack), <<t>> \o Tail(at))
      /\ Items(<<f>> \o Tail(stack), <<t>> \o Tail(at))
             = {ItemOf(f, t)} \union Items(Tail(stack), Tail(at))
  <2> DEFINE p == Tail(stack)
             q == Tail(at)
  <2>1. Beside(p, q) /\ \A g \in Items(p, q) : ~(g.by = f.by /\ g.tree = t)
    BY <1>3, <1>5
  <2> HIDE DEF p, q
  <2>2. /\ Beside(<<f>> \o p, <<t>> \o q)
        /\ Items(<<f>> \o p, <<t>> \o q) = {ItemOf(f, t)} \union Items(p, q)
    BY <2>1, Pushed
  <2> QED
    BY <2>2 DEF p, q
<1> QED
  BY <1>2, <1>4, <1>6 DEF t, Rest

(* The walk goes on, with what it has read so far.                         *)
LEMMA GoesOn ==
  ASSUME system' = system, daemons' = daemons, mgmtIntf' = mgmtIntf,
         NEW read, NEW known, NEW at, NEW V, Walking(at, V, read, known),
         NEW there, NEW U, Beside(stack', there),
         Explored(system.manifest, Items(stack', there), U, Elements(read), known)
  PROVE  Walking(there, U, read, known)'
<1>1. Mf!Entries' = Mf!Entries /\ Mf!MgmtIntfs' = Mf!MgmtIntfs
  BY DEF Mf!Entries, Mf!MgmtIntfs, Mf!With, Mf!Trees
<1>2. Listed(read)'
  BY <1>1 DEF Walking, Listed, DaemonOf, Mf!SaysHandler
<1>3. (IF known THEN \E i \in Mf!MgmtIntfs : Reads(mgmtIntf, i, system.zeroed)
                ELSE mgmtIntf = NoIntf)'
  BY <1>1 DEF Walking
<1>4. Explored(system.manifest, Items(stack, there), U, Elements(read), known)'
  OBVIOUS
<1>5. Beside(stack, there)'
  OBVIOUS
<1> QED
  BY <1>2, <1>3, <1>4, <1>5 DEF Walking

(* A member or an element that is an object or an array.                   *)
LEMMA EnterStep ==
  ASSUME system \in Systems, Mf!Documented, system' = system,
         daemons' = daemons, mgmtIntf' = mgmtIntf,
         NEW read, NEW known, NEW at, NEW V, Walking(at, V, read, known),
         stack # <<>>, Head(stack).by \in {"object", "array"},
         NEW k \in Mf!Members, Opens(Head(at), k),
         stack' = <<Mf!Walk(Mf!Member(k))>> \o Mf!After(k)
  PROVE  \E there, U : Walking(there, U, read, known)'
<1> DEFINE h == Top(at)
           G == Rest(at)
           m == system.manifest
           c == Below(Head(at), k)
           here == <<Head(at)>> \o Tail(at)
<1>0. "daemons" \in DaemonsKeys /\ "mgmt_intf" \in MgmtKeys
  BY ManifestAssumption
<1>1. Beside(stack, at) /\ Explored(m, Items(stack, at), V, Elements(read), known)
  BY DEF Walking
<1>2. /\ Items(stack, at) = {h} \union G /\ Alone(h, G)
      /\ h.by = Head(stack).by /\ h.tree = Head(at)
      /\ DOMAIN h.rest = Mf!Members /\ h.rest[k] = Mf!Member(k)
  BY <1>1, TopSplits
<1>3. /\ Beside(Mf!After(k), here)
      /\ Items(Mf!After(k), here) = {Without(h, k)} \union G
  BY <1>1, AfterIs
<1> HIDE DEF h, G, here
<1>4. Explored(m, {h} \union G, V, Elements(read), known)
  BY <1>1, <1>2
<1>5. /\ h.tree \in V /\ k \in Keys(h.tree) /\ V \subseteq Mf!Trees
      /\ h.rest[k] = h.tree[2].of[k]
  <2>1. Shrinks(m, V, {h} \union G, {Without(h, k)} \union G, h, k)
    BY <1>2, <1>4, Taken
  <2>2. MetTrees(m, {h} \union G, V)
    BY <1>4 DEF Explored
  <2> QED
    BY <2>1, <2>2 DEF Shrinks, MetTrees, Mf!Trees
<1>6. c \in Mf!TreesOf(m)
  BY <1>2, <1>5, DocumentedSays DEF Mf!Trees
<1>7. /\ \A g \in {Without(h, k)} \union G : g.tree # c
      /\ Explored(m, {TreeItem(c)} \union ({Without(h, k)} \union G),
                 V \union {c}, Elements(read), known)
  <2>1. c = Below(h.tree, k)
    BY <1>2
  <2> HIDE DEF c
  <2>2. /\ \A g \in {Without(h, k)} \union G : g.tree # Below(h.tree, k)
        /\ Explored(m, {TreeItem(Below(h.tree, k))}
                          \union ({Without(h, k)} \union G),
                   V \union {Below(h.tree, k)}, Elements(read), known)
    BY <1>0, <1>2, <1>4, <1>6, <2>1, Entered
  <2> QED
    BY <2>1, <2>2
<1> DEFINE f == Mf!Walk(Mf!Member(k))
<1>8. ItemOf(f, c) = TreeItem(c)
  BY <1>2, <1>5 DEF Mf!Walk, Mf!Frame, ItemOf, TreeItem, Below
<1> HIDE DEF c, f
<1>9. \A g \in Items(Mf!After(k), here) : ~(g.by = f.by /\ g.tree = c)
  BY <1>3, <1>7
<1>10. /\ Beside(<<f>> \o Mf!After(k), <<c>> \o here)
       /\ Items(<<f>> \o Mf!After(k), <<c>> \o here)
              = {ItemOf(f, c)} \union Items(Mf!After(k), here)
  BY <1>3, <1>9, Pushed
<1>11. stack' = <<f>> \o Mf!After(k)
  BY DEF f
<1>12. Explored(m, Items(stack', <<c>> \o here), V \union {c}, Elements(read),
               known)
  BY <1>3, <1>7, <1>8, <1>10, <1>11
<1>13. Walking(<<c>> \o here, V \union {c}, read, known)'
  BY <1>10, <1>11, <1>12, GoesOn
<1> QED
  BY <1>13

(* A section.                                                              *)
LEMMA OpenStep ==
  ASSUME system \in Systems, Mf!Documented, system' = system,
         daemons' = daemons, mgmtIntf' = mgmtIntf,
         NEW read, NEW known, NEW at, NEW V, Walking(at, V, read, known),
         stack # <<>>, Head(stack).by \in {"object", "array"},
         NEW k \in Mf!Members, k \in {"daemons", "mgmt_intf"},
         HasObject(Head(at), k),
         stack' = <<Mf!Frame(k, Mf!Member(k).of)>> \o Mf!After(k)
  PROVE  \E there, U : Walking(there, U, read, known)'
<1> DEFINE h == Top(at)
           G == Rest(at)
           m == system.manifest
           t == Head(at)
           here == <<Head(at)>> \o Tail(at)
<1>0. "daemons" \in DaemonsKeys /\ "mgmt_intf" \in MgmtKeys
  BY ManifestAssumption
<1>1. Beside(stack, at) /\ Explored(m, Items(stack, at), V, Elements(read), known)
  BY DEF Walking
<1>2. /\ Items(stack, at) = {h} \union G /\ Alone(h, G)
      /\ h.by = Head(stack).by /\ h.tree = t
      /\ DOMAIN h.rest = Mf!Members /\ h.rest[k] = Mf!Member(k)
  BY <1>1, TopSplits
<1>3. /\ Beside(Mf!After(k), here)
      /\ Items(Mf!After(k), here) = {Without(h, k)} \union G
  BY <1>1, AfterIs
<1> HIDE DEF h, G, here
<1>4. Explored(m, {h} \union G, V, Elements(read), known)
  BY <1>1, <1>2
<1>5. h.rest[k] = h.tree[2].of[k]
  <2>1. Shrinks(m, V, {h} \union G, {Without(h, k)} \union G, h, k)
    BY <1>2, <1>4, Taken
  <2> QED
    BY <2>1 DEF Shrinks
<1>6. /\ \A g \in {Without(h, k)} \union G : ~(g.by = k /\ g.tree = h.tree)
      /\ Explored(m, {SectionItem(h.tree, k)} \union ({Without(h, k)} \union G),
                 V, Elements(read), known)
  <2>1. HasObject(h.tree, k)
    BY <1>2
  <2> QED
    BY <1>0, <1>2, <1>4, <2>1, Opened
<1> DEFINE f == Mf!Frame(k, Mf!Member(k).of)
<1>7. ItemOf(f, t) = SectionItem(h.tree, k) /\ f.by = k
  BY <1>2, <1>5 DEF Mf!Frame, ItemOf, SectionItem
<1> HIDE DEF t, f
<1>8. \A g \in Items(Mf!After(k), here) : ~(g.by = f.by /\ g.tree = t)
  BY <1>2, <1>3, <1>6, <1>7
<1>9. /\ Beside(<<f>> \o Mf!After(k), <<t>> \o here)
      /\ Items(<<f>> \o Mf!After(k), <<t>> \o here)
             = {ItemOf(f, t)} \union Items(Mf!After(k), here)
  BY <1>3, <1>8, Pushed
<1>10. stack' = <<f>> \o Mf!After(k)
  BY DEF f
<1>11. Explored(m, Items(stack', <<t>> \o here), V, Elements(read), known)
  BY <1>3, <1>6, <1>7, <1>9, <1>10
<1>12. Walking(<<t>> \o here, V, read, known)'
  BY <1>9, <1>10, <1>11, GoesOn
<1> QED
  BY <1>12

(* A member or an element that is neither an object nor an array.          *)
LEMMA SkipStep ==
  ASSUME system' = system, daemons' = daemons, mgmtIntf' = mgmtIntf,
         NEW read, NEW known, NEW at, NEW V, Walking(at, V, read, known),
         stack # <<>>, Head(stack).by \in {"object", "array"},
         NEW k \in Mf!Members, ~Mf!IsTree(Mf!Member(k)),
         stack' = Mf!After(k)
  PROVE  \E there, U : Walking(there, U, read, known)'
<1> DEFINE h == Top(at)
           G == Rest(at)
           m == system.manifest
           here == <<Head(at)>> \o Tail(at)
<1>1. Beside(stack, at) /\ Explored(m, Items(stack, at), V, Elements(read), known)
  BY DEF Walking
<1>2. /\ Items(stack, at) = {h} \union G /\ Alone(h, G)
      /\ h.by = Head(stack).by
      /\ DOMAIN h.rest = Mf!Members /\ h.rest[k] = Mf!Member(k)
  BY <1>1, TopSplits
<1>3. /\ Beside(Mf!After(k), here)
      /\ Items(Mf!After(k), here) = {Without(h, k)} \union G
  BY <1>1, AfterIs
<1> HIDE DEF h, G, here
<1>4. Explored(m, {h} \union G, V, Elements(read), known)
  BY <1>1, <1>2
<1>5. Explored(m, {Without(h, k)} \union G, V, Elements(read), known)
  BY <1>2, <1>4, Skipped
<1>6. Walking(here, V, read, known)'
  BY <1>3, <1>5, GoesOn
<1> QED
  BY <1>6

-----------------------------------------------------------------------------
(* The top of the stack is about a tree of the manifest.                   *)
LEMMA TopFacts ==
  ASSUME NEW read, NEW known, NEW at, NEW V, Walking(at, V, read, known),
         stack # <<>>
  PROVE  LET t == Head(at)
         IN  /\ t \in Mf!Trees
             /\ Head(stack).by \in {"object", "array"} =>
                    /\ Head(stack).by = t[2].type
                    /\ \A k \in Mf!Members :
                           k \in Keys(t) /\ Mf!Member(k) = t[2].of[k]
             /\ Head(stack).by = "daemons" =>
                    /\ HasObject(t, "daemons")
                    /\ \A k \in Mf!Members :
                           k \in DOMAIN Named(t) /\ Mf!Member(k) = Named(t)[k]
             /\ Head(stack).by = "mgmt_intf" =>
                    /\ HasObject(t, "mgmt_intf")
                    /\ Mf!Members = DOMAIN t[2].of["mgmt_intf"].of
                    /\ \A k \in Mf!Members :
                           Mf!Member(k) = t[2].of["mgmt_intf"].of[k]
<1> DEFINE h == Top(at)
           F == Items(stack, at)
           t == Head(at)
<1>1. Beside(stack, at) /\ Explored(system.manifest, F, V, Elements(read), known)
  BY DEF Walking
<1>2. /\ h \in F /\ h.by = Head(stack).by /\ h.tree = t
      /\ DOMAIN h.rest = Mf!Members
      /\ \A k : h.rest[k] = Mf!Member(k)
  BY <1>1, TopSplits
<1> HIDE DEF h, F, t
<1>3. MetTrees(system.manifest, F, V) /\ OnStack(F, V)
  BY <1>1 DEF Explored
<1>4. /\ h.tree \in V /\ V \subseteq Mf!Trees
      /\ h.by \in {"object", "array"} =>
             h.by = h.tree[2].type /\ PartOf(h.rest, h.tree[2].of)
      /\ h.by = "daemons" => /\ HasObject(h.tree, "daemons")
                             /\ PartOf(h.rest, Named(h.tree))
      /\ h.by = "mgmt_intf" => /\ HasObject(h.tree, "mgmt_intf")
                               /\ PartOf(h.rest, h.tree[2].of["mgmt_intf"].of)
                               /\ PartOf(h.tree[2].of["mgmt_intf"].of, h.rest)
  BY <1>2, <1>3, TopIs DEF MetTrees, Mf!Trees
<1> QED
  BY <1>2, <1>4 DEF PartOf, Keys, t

Goes == reading = "walk"
            /\ \E at, V, read : \E known \in BOOLEAN : Walking(at, V, read, known)

(* The members of an object.                                               *)
LEMMA MemberStep ==
  ASSUME system \in Systems, Mf!Documented, system' = system,
         NEW read, NEW known \in BOOLEAN, NEW at, NEW V,
         Walking(at, V, read, known), Mf!VisitMember
  PROVE  Goes'
<1>1. /\ reading' = "walk" /\ daemons' = daemons /\ mgmtIntf' = mgmtIntf
      /\ stack # <<>> /\ Head(stack).by = "object"
  BY DEF Mf!VisitMember, Mf!In, Mf!results
<1>2. PICK k \in Mf!Members :
          stack' =
              CASE ~Mf!IsTree(Mf!Member(k)) -> Mf!After(k)
                [] Mf!IsObject(Mf!Member(k)) /\ k \in DaemonsKeys ->
                       <<Mf!Frame("daemons", Mf!Member(k).of)>> \o Mf!After(k)
                [] Mf!IsObject(Mf!Member(k)) /\ k \in MgmtKeys ->
                       <<Mf!Frame("mgmt_intf", Mf!Member(k).of)>> \o Mf!After(k)
                [] OTHER -> <<Mf!Walk(Mf!Member(k))>> \o Mf!After(k)
  BY DEF Mf!VisitMember
<1> DEFINE t == Head(at)
<1>3. /\ t \in Mf!Trees /\ Mf!IsObject(t[2])
      /\ k \in Keys(t) /\ Mf!Member(k) = t[2].of[k]
  BY <1>1, TopFacts DEF Mf!IsObject
<1>4. /\ k \in DaemonsKeys => k = "daemons"
      /\ k \in MgmtKeys => k = "mgmt_intf"
      /\ k \in DaemonsKeys => k \notin MgmtKeys
  <2>1. /\ \A j \in Keys(t) \intersect DaemonsKeys : j = "daemons"
        /\ \A j \in Keys(t) \intersect MgmtKeys : j = "mgmt_intf"
    BY <1>3, DocumentedSays
  <2>2. "daemons" \notin MgmtKeys
    BY ManifestAssumption
  <2> QED
    BY <1>3, <2>1, <2>2
<1>5. Mf!IsObject(Mf!Member(k)) => Mf!IsTree(Mf!Member(k))
  BY DEF Mf!IsObject, Mf!IsTree
<1> HIDE DEF t
<1>6. CASE ~Mf!IsTree(Mf!Member(k))
  <2>1. stack' = Mf!After(k)
    BY <1>2, <1>5, <1>6
  <2> QED
    BY <1>1, <1>6, <2>1, SkipStep DEF Goes
<1>7. CASE Mf!IsObject(Mf!Member(k)) /\ k \in DaemonsKeys
  <2>1. stack' = <<Mf!Frame(k, Mf!Member(k).of)>> \o Mf!After(k)
    BY <1>2, <1>4, <1>5, <1>7
  <2>2. HasObject(Head(at), k)
    BY <1>3, <1>7 DEF HasObject, t
  <2> QED
    BY <1>1, <1>4, <1>7, <2>1, <2>2, OpenStep DEF Goes
<1>8. CASE Mf!IsObject(Mf!Member(k)) /\ k \in MgmtKeys
  <2>1. stack' = <<Mf!Frame(k, Mf!Member(k).of)>> \o Mf!After(k)
    BY <1>2, <1>4, <1>5, <1>8
  <2>2. HasObject(Head(at), k)
    BY <1>3, <1>8 DEF HasObject, t
  <2> QED
    BY <1>1, <1>4, <1>8, <2>1, <2>2, OpenStep DEF Goes
<1>9. CASE /\ Mf!IsTree(Mf!Member(k))
           /\ ~(Mf!IsObject(Mf!Member(k)) /\ k \in DaemonsKeys \union MgmtKeys)
  <2>1. stack' = <<Mf!Walk(Mf!Member(k))>> \o Mf!After(k)
    BY <1>2, <1>9
  <2>2. Opens(Head(at), k)
    BY <1>3, <1>9 DEF Opens, Mf!IsSection, t
  <2> QED
    BY <1>1, <2>1, <2>2, EnterStep DEF Goes
<1> QED
  BY <1>6, <1>7, <1>8, <1>9

(* The elements of an array.                                               *)
LEMMA ElementStep ==
  ASSUME system \in Systems, Mf!Documented, system' = system,
         NEW read, NEW known \in BOOLEAN, NEW at, NEW V,
         Walking(at, V, read, known), Mf!VisitElement
  PROVE  Goes'
<1>1. /\ reading' = "walk" /\ daemons' = daemons /\ mgmtIntf' = mgmtIntf
      /\ stack # <<>> /\ Head(stack).by = "array"
  BY DEF Mf!VisitElement, Mf!In, Mf!results
<1>2. PICK k \in Mf!Members :
          stack' = IF Mf!IsTree(Mf!Member(k))
                   THEN <<Mf!Walk(Mf!Member(k))>> \o Mf!After(k)
                   ELSE Mf!After(k)
  BY DEF Mf!VisitElement
<1>3. Mf!IsTree(Mf!Member(k)) => Opens(Head(at), k)
  BY <1>1, TopFacts DEF Opens, Mf!IsObject
<1>4. CASE Mf!IsTree(Mf!Member(k))
  BY <1>1, <1>2, <1>3, <1>4, EnterStep DEF Goes
<1>5. CASE ~Mf!IsTree(Mf!Member(k))
  BY <1>1, <1>2, <1>5, SkipStep DEF Goes
<1> QED
  BY <1>4, <1>5

(* An entry of daemons.                                                    *)
LEMMA DaemonStep ==
  ASSUME system \in Systems, Mf!Documented, system' = system,
         NEW read, NEW known \in BOOLEAN, NEW at, NEW V,
         Walking(at, V, read, known), Mf!ReadDaemon
  PROVE  Goes'
<1> DEFINE h == Top(at)
           G == Rest(at)
           t == Head(at)
           m == system.manifest
           here == <<Head(at)>> \o Tail(at)
<1>1. reading = "walk" /\ stack # <<>> /\ Head(stack).by = "daemons"
      /\ mgmtIntf' = mgmtIntf
  BY DEF Mf!ReadDaemon, Mf!In
<1>2. PICK k \in Mf!Members :
          IF Mf!IsObject(Mf!Member(k))
          THEN /\ \E flag \in Mf!HandlerFlags(Mf!Member(k)) :
                      daemons' = Append(daemons, [name |-> k, isHwHandler |-> flag,
                                                  curHw |-> Mf!CurHw(k)])
               /\ stack' = Mf!After(k)
               /\ UNCHANGED reading
          ELSE reading' = "abort" /\ UNCHANGED <<daemons, stack>>
  BY DEF Mf!ReadDaemon
<1>3. /\ Beside(stack, at) /\ Listed(read)
      /\ Explored(m, Items(stack, at), V, Elements(read), known)
  BY DEF Walking
<1>4. /\ Items(stack, at) = {h} \union G /\ Alone(h, G)
      /\ h.by = Head(stack).by /\ h.tree = t
      /\ DOMAIN h.rest = Mf!Members /\ h.rest[k] = Mf!Member(k)
  BY <1>1, <1>3, TopSplits
<1>5. /\ t \in Mf!Trees /\ HasObject(t, "daemons")
      /\ k \in DOMAIN Named(t) /\ Mf!Member(k) = Named(t)[k]
  BY <1>1, TopFacts
<1>6. /\ Beside(Mf!After(k), here)
      /\ Items(Mf!After(k), here) = {Without(h, k)} \union G
  BY <1>1, <1>3, AfterIs
<1> DEFINE e == EntryOf(t, k)
<1> HIDE DEF h, G, t, here
<1>7. e \in Mf!Entries /\ e.name = k /\ e.says = Mf!Member(k)
  BY <1>5, DocumentedSays DEF EntryOf
<1> HIDE DEF e
<1>8. /\ Mf!IsObject(Mf!Member(k))
      /\ Mf!HandlerFlags(Mf!Member(k)) = {Mf!SaysHandler(e)}
  BY <1>7, DocumentedSays
<1> DEFINE d == [name |-> k, isHwHandler |-> Mf!SaysHandler(e),
                 curHw |-> Mf!CurHw(k)]
<1>9. daemons' = Append(daemons, d) /\ stack' = Mf!After(k) /\ reading' = "walk"
  BY <1>1, <1>2, <1>8
<1>10. DaemonOf(d, e)
  BY <1>7 DEF DaemonOf
<1> HIDE DEF d
<1>11. /\ e \notin Elements(read)
       /\ Explored(m, {Without(h, k)} \union G, V, Elements(read) \union {e}, known)
  <2>1. Explored(m, {h} \union G, V, Elements(read), known)
    BY <1>3, <1>4
  <2>2. h.by = "daemons" /\ k \in DOMAIN h.rest /\ EntryOf(h.tree, k) = e
    BY <1>1, <1>4 DEF e
  <2>3. /\ EntryOf(h.tree, k) \notin Elements(read)
        /\ Explored(m, {Without(h, k)} \union G, V,
                   Elements(read) \union {EntryOf(h.tree, k)}, known)
    BY <1>4, <2>1, <2>2, EntryRead
  <2> QED
    BY <2>2, <2>3
<1>12. /\ Listed(Append(read, e))'
       /\ Elements(Append(read, e)) = Elements(read) \union {e}
  BY <1>3, <1>7, <1>9, <1>10, <1>11, ListedMore
<1>13. Beside(stack', here)
       /\ Explored(m, Items(stack', here), V, Elements(Append(read, e)), known)
  BY <1>6, <1>9, <1>11, <1>12
<1>14. (IF known THEN \E i \in Mf!MgmtIntfs : Reads(mgmtIntf, i, system.zeroed)
                 ELSE mgmtIntf = NoIntf)'
  <2>1. Mf!MgmtIntfs' = Mf!MgmtIntfs
    BY DEF Mf!MgmtIntfs, Mf!With, Mf!Trees
  <2> QED
    BY <1>1, <2>1 DEF Walking
<1>15. Walking(here, V, Append(read, e), known)'
  BY <1>12, <1>13, <1>14 DEF Walking
<1> QED
  BY <1>9, <1>15 DEF Goes

(* The section of the management interface: it has the name.               *)
LEMMA IntfStep ==
  ASSUME system \in Systems, Mf!Documented, system' = system,
         NEW read, NEW known \in BOOLEAN, NEW at, NEW V,
         Walking(at, V, read, known), Mf!ReadMgmtIntf \/ Mf!NoMgmtIntf
  PROVE  Goes'
<1> DEFINE h == Top(at)
           G == Rest(at)
           t == Head(at)
           m == system.manifest
           i == t[2].of["mgmt_intf"].of
<1>1. reading = "walk" /\ stack # <<>> /\ Head(stack).by = "mgmt_intf"
  BY DEF Mf!ReadMgmtIntf, Mf!NoMgmtIntf, Mf!In
<1>2. /\ Beside(stack, at) /\ Listed(read)
      /\ Explored(m, Items(stack, at), V, Elements(read), known)
  BY DEF Walking
<1>3. /\ Items(stack, at) = {h} \union G /\ h.by = Head(stack).by
      /\ Beside(Tail(stack), Tail(at)) /\ G = Items(Tail(stack), Tail(at))
  BY <1>1, <1>2, TopSplits DEF Rest
<1>4. /\ t \in Mf!Trees /\ HasObject(t, "mgmt_intf")
      /\ Mf!Members = DOMAIN i
      /\ \A k \in Mf!Members : Mf!Member(k) = i[k]
  BY <1>1, TopFacts
<1>5. i \in Mf!MgmtIntfs
  BY <1>4, DocumentedSays
<1> HIDE DEF h, G, t, i
<1>6. DOMAIN i \intersect IntfKeys = {"intf"} /\ Mf!IsString(i["intf"])
  BY <1>5, DocumentedSays
<1>7. /\ Mf!Tagged = {"intf"} /\ Mf!Member("intf") = i["intf"]
      /\ Mf!IsString(Mf!Member("intf"))
  BY <1>4, <1>6 DEF Mf!Tagged
<1>8. /\ mgmtIntf' \in [name : {Mf!Member("intf").of}, ends : BOOLEAN]
      /\ system.zeroed => mgmtIntf'.ends
      /\ stack' = Tail(stack) /\ reading' = reading /\ daemons' = daemons
  BY <1>7 DEF Mf!ReadMgmtIntf, Mf!NoMgmtIntf
<1>9. mgmtIntf'.name = i["intf"].of
  BY <1>7, <1>8
<1>10. /\ Mf!MgmtIntfs' = Mf!MgmtIntfs /\ Mf!Entries' = Mf!Entries
  BY DEF Mf!MgmtIntfs, Mf!Entries, Mf!With, Mf!Trees
<1>11. (\E j \in Mf!MgmtIntfs : Reads(mgmtIntf, j, system.zeroed))'
  BY <1>5, <1>8, <1>9, <1>10 DEF Reads
<1>12. Listed(read)'
  BY <1>2, <1>8, <1>10 DEF Listed, DaemonOf, Mf!SaysHandler
<1>13. Explored(m, Items(stack', Tail(at)), V, Elements(read), TRUE)
  <2>1. Explored(m, {h} \union G, V, Elements(read), known) /\ h.by = "mgmt_intf"
    BY <1>1, <1>2, <1>3
  <2>2. Explored(m, G, V, Elements(read), TRUE)
    BY <2>1, IntfRead
  <2> QED
    BY <1>3, <1>8, <2>2
<1>14. Beside(stack', Tail(at))
  BY <1>3, <1>8
<1>15. Walking(Tail(at), V, read, TRUE)'
  BY <1>11, <1>12, <1>13, <1>14 DEF Walking
<1> QED
  BY <1>1, <1>8, <1>15 DEF Goes

(* A function returns.                                                     *)
LEMMA ReturnStep ==
  ASSUME system' = system, NEW read, NEW known \in BOOLEAN, NEW at, NEW V,
         Walking(at, V, read, known), Mf!Return
  PROVE  Goes'
<1> DEFINE h == Top(at)
           G == Rest(at)
<1>1. /\ reading' = "walk" /\ daemons' = daemons /\ mgmtIntf' = mgmtIntf
      /\ stack # <<>> /\ Head(stack).by # "mgmt_intf" /\ Mf!Members = {}
      /\ stack' = Tail(stack)
  BY DEF Mf!Return, Mf!In, Mf!results
<1>2. /\ Beside(stack, at)
      /\ Explored(system.manifest, Items(stack, at), V, Elements(read), known)
  BY DEF Walking
<1>3. /\ Items(stack, at) = {h} \union G /\ h.by = Head(stack).by
      /\ Beside(Tail(stack), Tail(at)) /\ G = Items(Tail(stack), Tail(at))
      /\ DOMAIN h.rest = Mf!Members
  BY <1>1, <1>2, TopSplits DEF Rest
<1> HIDE DEF h, G
<1>4. Explored(system.manifest, {h} \union G, V, Elements(read), known)
  BY <1>2, <1>3
<1>5. Explored(system.manifest, G, V, Elements(read), known)
  BY <1>1, <1>3, <1>4, Emptied
<1>6. Beside(stack', Tail(at))
      /\ Explored(system.manifest, Items(stack', Tail(at)), V, Elements(read), known)
  BY <1>1, <1>3, <1>5
<1>7. Walking(Tail(at), V, read, known)'
  BY <1>1, <1>6, GoesOn
<1> QED
  BY <1>1, <1>7 DEF Goes

(* The file is opened.                                                     *)
LEMMA BeginStep ==
  ASSUME Mf!Documented, system' = system, reading = "start", stack = <<>>,
         daemons = <<>>, mgmtIntf = NoIntf, Mf!ReadFile
  PROVE  Goes'
<1> DEFINE m == system.manifest
<1>0. PICK t, f : t = << <<>>, m >> /\ f = Mf!Walk(m)
  OBVIOUS
<1>1. Mf!IsTree(m)
  BY DEF Mf!Documented
<1>2. /\ reading' = "walk" /\ stack' = <<f>>
      /\ daemons' = <<>> /\ mgmtIntf' = NoIntf
  BY <1>0, <1>1 DEF Mf!ReadFile, Mf!results
<1>3. ItemOf(f, t) = TreeItem(t)
  BY <1>0 DEF ItemOf, TreeItem, Mf!Walk, Mf!Frame
<1>4. Explored(m, {TreeItem(t)}, {t}, {}, FALSE)
  BY <1>0, <1>1, BegunWith
<1>5. Beside(<<>>, <<>>) /\ Items(<<>>, <<>>) = {}
  <2>1. <<>> \in Seq({}) /\ Len(<<>>) = 0 /\ 1..0 = {}
    OBVIOUS
  <2> QED
    BY <2>1 DEF Beside, IsList, Items
<1>6. /\ Beside(<<f>> \o <<>>, <<t>> \o <<>>)
      /\ Items(<<f>> \o <<>>, <<t>> \o <<>>) = {ItemOf(f, t)} \union Items(<<>>, <<>>)
  BY <1>5, Pushed
<1>7. <<f>> \o <<>> = <<f>> /\ <<t>> \o <<>> = <<t>>
  <2>1. <<f>> \in Seq({f}) /\ <<t>> \in Seq({t})
    OBVIOUS
  <2> QED
    BY <2>1
<1>8. Beside(stack', <<t>>) /\ Items(stack', <<t>>) = {TreeItem(t)}
  BY <1>2, <1>3, <1>5, <1>6, <1>7
<1>9. Listed(<<>>)' /\ Elements(<<>>) = {}
  <2>1. (daemons = <<>>)'
    BY <1>2
  <2>2. IsList(daemons')
    <3>1. <<>> \in Seq({})
      OBVIOUS
    <3> QED
      BY <2>1, <3>1 DEF IsList
  <2>3. Len(<<>>) = 0 /\ 1..0 = {}
    OBVIOUS
  <2> QED
    BY <2>1, <2>2, <2>3 DEF Listed, Elements
<1>10. Explored(m, Items(stack', <<t>>), {t}, Elements(<<>>), FALSE)
  BY <1>4, <1>8, <1>9
<1>11. Walking(<<t>>, {t}, <<>>, FALSE)'
  <2>1. Explored(system'.manifest, Items(stack', <<t>>), {t}, Elements(<<>>), FALSE)
    BY <1>10
  <2>2. (IF FALSE THEN \E i \in Mf!MgmtIntfs : Reads(mgmtIntf, i, system.zeroed)
                  ELSE mgmtIntf = NoIntf)'
    BY <1>2
  <2>3. Beside(stack, <<t>>)' /\ Listed(<<>>)'
    BY <1>8, <1>9
  <2> QED
    BY <2>1, <2>2, <2>3, Zenon DEF Walking
<1> QED
  BY <1>2, <1>11 DEF Goes

(* The walk has come to its end.                                           *)
LEMMA EndStep ==
  ASSUME system \in Systems, Mf!Documented, system' = system,
         NEW read, NEW known \in BOOLEAN, NEW at, NEW V,
         Walking(at, V, read, known), Mf!CountHwDaemons
  PROVE  reading' = "done" /\ AllIsRead'
<1>1. /\ reading' = "done" /\ daemons' = daemons /\ mgmtIntf' = mgmtIntf
      /\ stack = <<>>
  BY DEF Mf!CountHwDaemons
<1>2. Items(stack, at) = {}
  <2>1. Len(<<>>) = 0 /\ 1..0 = {}
    OBVIOUS
  <2> QED
    BY <1>1, <2>1 DEF Items
<1>3. Explored(system.manifest, {}, V, Elements(read), known) /\ Listed(read)
  BY <1>2 DEF Walking
<1>4. /\ V = Mf!Trees
      /\ \A r \in Elements(read) : \E t \in V : HasObject(t, "daemons")
             /\ \E n \in DOMAIN Named(t) : r = EntryOf(t, n)
      /\ \A t \in V : HasObject(t, "daemons") =>
             \A n \in DOMAIN Named(t) : EntryOf(t, n) \in Elements(read)
      /\ \A t \in V : HasObject(t, "mgmt_intf") => known
  BY <1>3, EndedWith DEF Mf!Trees
<1>5. Elements(read) = Mf!Entries
  <2>1. \A e \in Elements(read) : e \in Mf!Entries
    BY <1>4, DocumentedSays
  <2>2. \A e \in Mf!Entries : e \in Elements(read)
    BY <1>4, DocumentedSays
  <2> QED
    BY <2>1, <2>2
<1>6. IF Mf!MgmtIntfs = {} THEN mgmtIntf = NoIntf
      ELSE \E i \in Mf!MgmtIntfs : Reads(mgmtIntf, i, system.zeroed)
  <2>1. Mf!MgmtIntfs # {} => known
    BY <1>4, DocumentedSays
  <2> QED
    BY <2>1 DEF Walking
<1>7. AllIsRead
  BY <1>3, <1>5, <1>6, ListedAll, Zenon DEF AllIsRead, ReadAll
<1>8. Mf!MgmtIntfs' = Mf!MgmtIntfs /\ Mf!Entries' = Mf!Entries
  BY DEF Mf!MgmtIntfs, Mf!Entries, Mf!With, Mf!Trees
<1>9. AllIsRead'
  BY <1>1, <1>7, <1>8 DEF AllIsRead
<1> QED
  BY <1>1, <1>9

(* At first nothing is read.                                               *)
LEMMA ManifestInit ==
  ASSUME Init
  PROVE  ManifestInv
BY DEF Init, ManifestInv

(* Every step keeps the invariant.                                         *)
LEMMA ManifestInvStep ==
  ASSUME BootInv, ManifestInv, [Next]_vars
  PROVE  ManifestInv'
<1>1. system' = system /\ system \in Systems
  BY DEF BootInv, Next, Step, vars, Start, ReadManifest, ManifestRead,
         SkipLine, TakeLine, OutputEnds, StatDir, RemoveLink, MakePath,
         MakeLink, YamlInit, ReadFruYaml, ReadEeprom, EepromRead, AssignMacs,
         GetInterfaces, SetLed, Fail, Exit, StartAgain, Crash
<1>2. /\ Mf!Documented' <=> Mf!Documented
      /\ Mf!MgmtIntfs' = Mf!MgmtIntfs /\ Mf!Entries' = Mf!Entries
  BY <1>1 DEF Mf!Documented, Mf!MgmtIntfs, Mf!Entries, Mf!With, Mf!Trees
<1>3. SUFFICES ASSUME Mf!Documented
               PROVE  ManifestInv'
  BY <1>2 DEF ManifestInv
<1>4. CASE Start
  BY <1>4 DEF Start, ManifestInv
<1>5. CASE ReadManifest
  <2>1. Mf!Next
    BY <1>5 DEF ReadManifest
  <2>2. CASE reading = "start"
    <3>1. /\ stack = <<>> /\ daemons = <<>> /\ mgmtIntf = NoIntf
          /\ Mf!ReadFile
      BY <1>3, <2>1, <2>2
         DEF ManifestInv, Mf!Next, Mf!VisitMember, Mf!VisitElement, Mf!Return,
             Mf!ReadDaemon, Mf!ReadMgmtIntf, Mf!NoMgmtIntf, Mf!CountHwDaemons,
             Mf!In
    <3>2. Goes'
      BY <1>1, <1>3, <2>2, <3>1, BeginStep
    <3> QED
      BY <3>2 DEF Goes, ManifestInv
  <2>3. CASE reading = "walk"
    <3>1. PICK at, V, read : \E known \in BOOLEAN : Walking(at, V, read, known)
      BY <1>3, <2>3 DEF ManifestInv
    <3>2. PICK known \in BOOLEAN : Walking(at, V, read, known)
      BY <3>1
    <3>3. Goes' \/ (reading' = "done" /\ AllIsRead')
      <4>1. CASE Mf!ReadFile
        BY <2>3, <4>1 DEF Mf!ReadFile
      <4>2. CASE Mf!VisitMember
        BY <1>1, <1>3, <3>2, <4>2, MemberStep
      <4>3. CASE Mf!VisitElement
        BY <1>1, <1>3, <3>2, <4>3, ElementStep
      <4>4. CASE Mf!Return
        BY <1>1, <3>2, <4>4, ReturnStep
      <4>5. CASE Mf!ReadDaemon
        BY <1>1, <1>3, <3>2, <4>5, DaemonStep
      <4>6. CASE Mf!ReadMgmtIntf \/ Mf!NoMgmtIntf
        BY <1>1, <1>3, <3>2, <4>6, IntfStep
      <4>7. CASE Mf!CountHwDaemons
        BY <1>1, <1>3, <3>2, <4>7, EndStep
      <4> QED
        BY <2>1, <4>1, <4>2, <4>3, <4>4, <4>5, <4>6, <4>7 DEF Mf!Next
    <3> QED
      BY <3>3 DEF Goes, ManifestInv
  <2>4. CASE reading \notin {"start", "walk"}
    BY <2>1, <2>4 DEF Mf!Next, Mf!ReadFile, Mf!VisitMember, Mf!VisitElement,
       Mf!Return, Mf!ReadDaemon, Mf!ReadMgmtIntf, Mf!NoMgmtIntf,
       Mf!CountHwDaemons, Mf!In
  <2> QED
    BY <2>2, <2>3, <2>4
<1>6. ASSUME UNCHANGED parse
      PROVE  ManifestInv'
  <2>1. /\ stack' = stack /\ reading' = reading /\ daemons' = daemons
        /\ mgmtIntf' = mgmtIntf
    BY <1>6 DEF parse
  <2>2. \A read : Listed(read)' <=> Listed(read)
    BY <1>2, <2>1 DEF Listed, DaemonOf, Mf!SaysHandler
  <2>3. \A at, V, read : \A known \in BOOLEAN :
            Walking(at, V, read, known) => Walking(at, V, read, known)'
    BY <1>1, <1>2, <2>1, <2>2 DEF Walking
  <2>4. AllIsRead => AllIsRead'
    BY <1>1, <1>2, <2>1 DEF AllIsRead
  <2> QED
    BY <1>3, <2>1, <2>3, <2>4 DEF ManifestInv
<1>7. CASE ~Start /\ ~ReadManifest
  <2>1. UNCHANGED parse
    BY <1>7 DEF Next, Step, vars, process, ManifestRead,
         SkipLine, TakeLine, OutputEnds, StatDir, RemoveLink, MakePath,
         MakeLink, YamlInit, ReadFruYaml, ReadEeprom, EepromRead, AssignMacs,
         GetInterfaces, SetLed, Fail, Exit, StartAgain, Crash
  <2> QED
    BY <1>6, <2>1
<1> QED
  BY <1>4, <1>5, <1>7

(* What is read is always part of what a documented manifest says.         *)
THEOREM ManifestInvariance == Spec => []ManifestInv
<1>1. BootInv /\ ManifestInv /\ [Next]_vars => ManifestInv'
  BY ManifestInvStep
<1>2. Init => ManifestInv
  BY ManifestInit
<1> QED
  BY <1>1, <1>2, BootInvariance, PTL DEF Spec

(* Both modules count alike.                                               *)
LEMMA SameCount ==
  ASSUME NEW S
  PROVE  Mf!Cardinality(S) = Cardinality(S)
BY DEF Mf!Cardinality, Cardinality

(* sysd_read_manifest_file: a documented manifest is read, every entry of   *)
(* it once, in whatever order its members come.                            *)
THEOREM DocumentedIsRead == Spec => []ManifestIsRead
<1>1. ManifestInv => ManifestIsRead
  <2>1. ASSUME ManifestInv, Mf!Documented
        PROVE  /\ reading \notin {"failed", "abort"}
               /\ reading = "done" => AllIsRead
    BY <2>1 DEF ManifestInv
  <2> DEFINE Count(n, h) == {i \in DOMAIN daemons :
                                 /\ daemons[i].name = n
                                 /\ daemons[i].isHwHandler = h}
             Says(n, h) == {e \in Mf!Entries : /\ e.name = n
                                              /\ Mf!SaysHandler(e) = h}
  <2>2. ASSUME AllIsRead
        PROVE  /\ \A n \in {e.name : e \in Mf!Entries}, h \in BOOLEAN :
                      Mf!Cardinality(Count(n, h)) = Mf!Cardinality(Says(n, h))
               /\ Len(daemons) = Mf!Cardinality(Mf!Entries)
               /\ IF Mf!MgmtIntfs = {} THEN mgmtIntf = NoIntf
                  ELSE /\ \E i \in Mf!MgmtIntfs : mgmtIntf.name = i["intf"].of
                       /\ system.zeroed => mgmtIntf.ends
    <3>1. /\ \A n \in {e.name : e \in Mf!Entries}, h \in BOOLEAN :
                 Cardinality(Count(n, h)) = Cardinality(Says(n, h))
          /\ Len(daemons) = Cardinality(Mf!Entries)
          /\ IF Mf!MgmtIntfs = {} THEN mgmtIntf = NoIntf
             ELSE \E i \in Mf!MgmtIntfs : Reads(mgmtIntf, i, system.zeroed)
      BY <2>2, Zenon DEF AllIsRead, ReadAll
    <3>2. Mf!MgmtIntfs # {} =>
              /\ \E i \in Mf!MgmtIntfs : mgmtIntf.name = i["intf"].of
              /\ system.zeroed => mgmtIntf.ends
      BY <3>1, Zenon DEF Reads
    <3> HIDE DEF Count, Says
    <3> QED
      BY <3>1, <3>2, SameCount
  <2> QED
    BY <2>1, <2>2, Zenon DEF ManifestIsRead, Mf!ManifestIsRead
<1> QED
  BY <1>1, ManifestInvariance, PTL
=============================================================================
