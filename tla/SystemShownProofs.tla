------------------------- MODULE SystemShownProofs -------------------------
(***************************************************************************)
(* Proofs about what a user is shown of the first configuration and of the *)
(* passes behind it: the version of the image that the last pass has seen  *)
(* (sysd_update_sw_info), and an output of "show system" that is whole     *)
(* unless the process ends in it (cli_system_get_all).                     *)
(***************************************************************************)
EXTENDS InitialConfigureProofs, FiniteSetTheorems

-----------------------------------------------------------------------------
(* Texts: what is read is cut off, joined and cut off again.               *)

(* Every set of numbers has a least one: {1..n : n \in S} has an element    *)
(* that none of the others is a proper subset of.                           *)
LEMMA LeastNatural ==
  ASSUME NEW S, S \subseteq Nat, S # {}
  PROVE  \E n \in S : \A m \in S : n <= m
<1> DEFINE T == {1..n : n \in S}
           R == StrictSubsetOrdering(Nat)
<1>1. T \subseteq FiniteSubsetsOf(Nat)
  <2> SUFFICES ASSUME NEW n \in S
               PROVE  1..n \in FiniteSubsetsOf(Nat)
    OBVIOUS
  <2>1. IsFiniteSet(1..n)
    BY FS_Interval
  <2> QED
    BY <2>1 DEF FiniteSubsetsOf
<1>2. T # {}
  OBVIOUS
<1> HIDE DEF T, R
<1>3. \E x \in T : \A y \in T : ~(<<y, x>> \in R)
  BY <1>1, <1>2, FS_StrictSubsetOrderingWellFounded, WFMin DEF R
<1>4. PICK n \in S : \A m \in S : ~(<<1..m, 1..n>> \in R)
  BY <1>3 DEF T
<1>5. ASSUME NEW m \in S, ~(n <= m)
      PROVE  FALSE
  <2>1. n \in Nat /\ m \in Nat /\ m < n
    BY <1>5
  <2>2. 1..m \subseteq 1..n /\ n \in 1..n /\ n \notin 1..m
    BY <2>1
  <2>3. <<1..m, 1..n>> \in R
    BY <2>1, <2>2 DEF R, StrictSubsetOrdering
  <2> QED
    BY <1>4, <2>3
<1> QED
  BY <1>5

(* The length of a text, whatever the characters in it.                     *)
LEMMA LengthIs ==
  ASSUME NEW text \in Texts
  PROVE  Len(text) \in Nat
BY DEF Texts

(* A text has an end without white space, and Trimmed finds it: the         *)
(* shortest beginning behind which there is only white space.               *)
LEMMA TrimmedType ==
  ASSUME NEW text \in Texts
  PROVE  Rel!Trimmed(text) \in Texts
<1> DEFINE Space(c) == c = " "
           IsEnd(i) == /\ \A m \in (i + 1)..Len(text) : Space(text[m])
                       /\ i > 0 => ~Space(text[i])
           e == CHOOSE i \in 0..Len(text) : IsEnd(i)
<1>0. Rel!Trimmed(text) = SubSeq(text, 1, e)
  BY Zenon DEF Rel!Trimmed
<1> HIDE DEF Space, IsEnd, e
<1>1. PICK len \in Nat : len = Len(text) /\ text \in Seq(STRING)
  BY DEF Texts
<1> DEFINE S == {n \in 0..len : \A m \in (n + 1)..len : Space(text[m])}
<1>2. len \in S
  BY <1>1
<1>3. PICK n \in S : \A m \in S : n <= m
  <2>1. S \subseteq Nat /\ S # {}
    BY <1>1, <1>2
  <2> HIDE DEF S
  <2> QED
    BY <2>1, LeastNatural
<1>4. /\ n \in 0..len
      /\ \A m \in (n + 1)..len : Space(text[m])
      /\ n > 0 => ~Space(text[n])
  <2>1. SUFFICES ASSUME n > 0, Space(text[n])
                 PROVE  FALSE
    BY <1>3
  <2>2. n - 1 \in 0..len
    BY <1>1, <1>3, <2>1
  <2>3. ASSUME NEW m \in ((n - 1) + 1)..len
        PROVE  Space(text[m])
    <3>1. m = n \/ m \in (n + 1)..len
      BY <1>1, <1>3, <2>1, <2>3
    <3> QED
      BY <1>3, <2>1, <3>1
  <2>4. n - 1 \in S
    BY <2>2, <2>3
  <2>5. n \in Nat
    BY <1>1
  <2> HIDE DEF S
  <2>6. n <= n - 1
    BY <1>3, <2>4
  <2> QED
    BY <2>5, <2>6
<1>5. e \in 0..Len(text)
  <2>1. IsEnd(n) /\ n \in 0..Len(text)
    BY <1>1, <1>4 DEF IsEnd
  <2> QED
    BY <2>1 DEF e
<1>7. SubSeq(text, 1, e) \in Seq(STRING)
  BY <1>1, <1>5
<1> QED
  BY <1>0, <1>7 DEF Texts

(* What strncpy and snprintf leave of a text.                               *)
LEMMA TruncatedIs ==
  ASSUME NEW text \in Texts
  PROVE  /\ Rel!Truncated(text) \in Texts
         /\ Len(text) < NStr => Rel!Truncated(text) = text
         /\ Len(text) >= NStr =>
               /\ Len(Rel!Truncated(text)) = NStr - 1
               /\ \A i \in 1..(NStr - 1) : Rel!Truncated(text)[i] = text[i]
         /\ Rel!Truncated(text) = <<>> <=> text = <<>>
<1> DEFINE t == Rel!Truncated(text)
<1>1. Len(text) \in Nat /\ text \in Seq(STRING) /\ NStr \in Nat /\ NStr > 1
  BY ReleaseAssumption DEF Texts
<1>2. CASE Len(text) < NStr
  <2>1. t = SubSeq(text, 1, Len(text))
    BY <1>2 DEF Rel!Truncated
  <2>2. t = text
    BY <1>1, <2>1
  <2> QED
    BY <1>1, <1>2, <2>2 DEF Texts
<1>3. CASE ~(Len(text) < NStr)
  <2>1. t = SubSeq(text, 1, NStr - 1)
    BY <1>3 DEF Rel!Truncated
  <2>2. /\ t \in Seq(STRING)
        /\ Len(t) = NStr - 1
        /\ \A i \in 1..(NStr - 1) : t[i] = text[i]
    BY <1>1, <1>3, <2>1
  <2>3. t # <<>> /\ text # <<>>
    BY <1>1, <1>3, <2>2
  <2> QED
    BY <1>1, <1>3, <2>2, <2>3 DEF Texts
<1> QED
  BY <1>2, <1>3

(* Texts that agree as far as the array goes are cut to the same.          *)
LEMMA TruncatedAgree ==
  ASSUME NEW s \in Texts, NEW t \in Texts,
         Len(s) >= NStr - 1, Len(t) >= NStr - 1,
         \A i \in 1..(NStr - 1) : s[i] = t[i]
  PROVE  Rel!Truncated(s) = Rel!Truncated(t)
<1>0. /\ NStr \in Nat /\ NStr > 1 /\ Len(s) \in Nat /\ Len(t) \in Nat
      /\ s \in Seq(STRING) /\ t \in Seq(STRING)
  BY ReleaseAssumption DEF Texts
<1>1. ASSUME NEW u \in Texts, Len(u) >= NStr - 1
      PROVE  /\ Rel!Truncated(u) \in Seq(STRING)
             /\ Len(Rel!Truncated(u)) = NStr - 1
             /\ \A i \in 1..(NStr - 1) : Rel!Truncated(u)[i] = u[i]
  <2>1. CASE Len(u) >= NStr
    BY <2>1, TruncatedIs DEF Texts
  <2>2. CASE ~(Len(u) >= NStr)
    <3>1. Len(u) = NStr - 1 /\ Len(u) < NStr
      BY <1>0, <1>1, <2>2 DEF Texts
    <3> QED
      BY <3>1, TruncatedIs DEF Texts
  <2> QED
    BY <2>1, <2>2
<1> DEFINE x == Rel!Truncated(s)
           y == Rel!Truncated(t)
<1>2. /\ x \in Seq(STRING) /\ Len(x) = NStr - 1
      /\ \A i \in 1..(NStr - 1) : x[i] = s[i]
  BY <1>1
<1>3. /\ y \in Seq(STRING) /\ Len(y) = NStr - 1
      /\ \A i \in 1..(NStr - 1) : y[i] = t[i]
  BY <1>1
<1> HIDE DEF x, y
<1>4. x = y
  BY <1>0, <1>2, <1>3
<1> QED
  BY <1>4 DEF x, y

(* A text with another one behind it.                                      *)
Appended(p, q) == p \o q

(* Where the characters of the two are.                                     *)
LEMMA AppendedIs ==
  ASSUME NEW p \in Texts, NEW q \in Texts,
         NEW n \in Nat, NEW m \in Nat, Len(p) = n, Len(q) = m
  PROVE  /\ Appended(p, q) \in Texts
         /\ Len(Appended(p, q)) = n + m
         /\ \A i \in 1..n : Appended(p, q)[i] = p[i]
         /\ \A i \in 1..m : Appended(p, q)[n + i] = q[i]
BY DEF Appended, Texts

(* The text of the column, before it is cut off.                           *)
Joined(p, q) == Appended(Appended(Appended(p, Between), q), Behind)

Gap == Len(Between)
Rest == Len(Behind)

(* Between and Behind are texts.                                            *)
LEMMA GapIs == Gap \in Nat /\ Rest \in Nat
BY ReleaseAssumption DEF Gap, Rest, Texts

(* Where the characters of the column's text come from.                     *)
LEMMA JoinedIs ==
  ASSUME NEW p \in Texts, NEW q \in Texts,
         NEW lp \in Nat, NEW lq \in Nat, Len(p) = lp, Len(q) = lq
  PROVE  /\ Joined(p, q) \in Texts
         /\ Len(Joined(p, q)) = lp + Gap + lq + Rest
         /\ \A i \in 1..lp : Joined(p, q)[i] = p[i]
         /\ \A i \in 1..Gap : Joined(p, q)[lp + i] = Between[i]
         /\ \A i \in 1..lq : Joined(p, q)[lp + Gap + i] = q[i]
<1>0. Between \in Texts /\ Behind \in Texts
  BY ReleaseAssumption
<1>a. PICK lu \in Nat, lv \in Nat :
         /\ lu = Gap /\ Len(Between) = lu
         /\ lv = Rest /\ Len(Behind) = lv
  BY GapIs DEF Gap, Rest
<1>1. PICK u : u = Appended(p, Between)
  OBVIOUS
<1>2. PICK v : v = Appended(u, q)
  OBVIOUS
<1>3. PICK w : w = Appended(v, Behind)
  OBVIOUS
<1>4. PICK lpu \in Nat, lpuq \in Nat : lpu = lp + lu /\ lpuq = lpu + lq
  OBVIOUS
<1>5. /\ u \in Texts /\ Len(u) = lpu
      /\ \A i \in 1..lp : u[i] = p[i]
      /\ \A i \in 1..lu : u[lp + i] = Between[i]
  BY <1>0, <1>a, <1>1, <1>4, AppendedIs
<1>6. /\ v \in Texts /\ Len(v) = lpuq
      /\ \A i \in 1..lpu : v[i] = u[i]
      /\ \A i \in 1..lq : v[lpu + i] = q[i]
  BY <1>2, <1>4, <1>5, AppendedIs
<1>7. /\ w \in Texts /\ Len(w) = lpuq + lv
      /\ \A i \in 1..lpuq : w[i] = v[i]
  BY <1>0, <1>a, <1>3, <1>6, AppendedIs
<1>8. w = Joined(p, q)
  BY <1>1, <1>2, <1>3 DEF Joined
<1>9. /\ \A i \in 1..lp : i \in 1..lpu /\ i \in 1..lpuq
      /\ \A i \in 1..lu : lp + i \in 1..lpu /\ lp + i \in 1..lpuq
      /\ \A i \in 1..lq : lpu + i \in 1..lpuq
  BY <1>4
<1>10. /\ \A i \in 1..lp : w[i] = p[i]
       /\ \A i \in 1..lu : w[lp + i] = Between[i]
       /\ \A i \in 1..lq : w[lpu + i] = q[i]
  BY <1>5, <1>6, <1>7, <1>9
<1> QED
  BY <1>a, <1>4, <1>7, <1>8, <1>10

(* Identifiers that were cut off when they were read give the same text.   *)
LEMMA CutTwice ==
  ASSUME NEW a \in Texts, NEW b \in Texts
  PROVE  Rel!Truncated(Joined(Rel!Truncated(a), Rel!Truncated(b)))
            = Rel!Truncated(Joined(a, b))
<1> DEFINE x == Rel!Truncated(a)
           y == Rel!Truncated(b)
           s == Joined(x, y)
           t == Joined(a, b)
<1>0. /\ NStr \in Nat /\ NStr > 1
      /\ Between \in Texts /\ Behind \in Texts
      /\ x \in Texts /\ y \in Texts
  BY ReleaseAssumption, TruncatedIs
<1>1. PICK la \in Nat, lb \in Nat, lu \in Nat, lv \in Nat, lx \in Nat,
           ly \in Nat :
         /\ la = Len(a) /\ lb = Len(b) /\ lu = Gap /\ lv = Rest
         /\ lx = Len(x) /\ ly = Len(y)
  <2> HIDE DEF x, y
  <2> QED
    BY <1>0, GapIs, LengthIs
<1>2. /\ la < NStr => x = a
      /\ la >= NStr => lx = NStr - 1 /\ \A i \in 1..(NStr - 1) : x[i] = a[i]
      /\ lb < NStr => y = b
      /\ lb >= NStr => ly = NStr - 1 /\ \A i \in 1..(NStr - 1) : y[i] = b[i]
  BY <1>1, TruncatedIs
<1> HIDE DEF x, y
<1>3. /\ Len(a) = la /\ Len(b) = lb /\ lu = Gap /\ lv = Rest
      /\ Len(x) = lx /\ Len(y) = ly
  BY <1>1
<1>4. /\ s \in Texts /\ Len(s) = lx + lu + ly + lv
      /\ \A i \in 1..lx : s[i] = x[i]
      /\ \A i \in 1..lu : s[lx + i] = Between[i]
      /\ \A i \in 1..ly : s[lx + lu + i] = y[i]
  BY <1>0, <1>3, JoinedIs
<1>5. /\ t \in Texts /\ Len(t) = la + lu + lb + lv
      /\ \A i \in 1..la : t[i] = a[i]
      /\ \A i \in 1..lu : t[la + i] = Between[i]
      /\ \A i \in 1..lb : t[la + lu + i] = b[i]
  BY <1>0, <1>3, JoinedIs
<1>6. CASE la < NStr /\ lb < NStr
  <2>1. x = a /\ y = b
    BY <1>2, <1>6
  <2> QED
    BY <2>1 DEF x, y
<1>7. CASE la >= NStr
  <2> HIDE DEF s, t
  <2>1. /\ Len(s) >= NStr - 1 /\ Len(t) >= NStr - 1
        /\ \A i \in 1..(NStr - 1) : s[i] = t[i]
    <3>1. lx = NStr - 1 /\ \A i \in 1..(NStr - 1) : x[i] = a[i]
      BY <1>2, <1>7
    <3>2. Len(s) >= NStr - 1 /\ Len(t) >= NStr - 1
      BY <1>0, <1>4, <1>5, <1>7, <3>1
    <3>3. \A i \in 1..(NStr - 1) : i \in 1..la
      BY <1>0, <1>7
    <3> QED
      BY <1>4, <1>5, <3>1, <3>2, <3>3
  <2>2. Rel!Truncated(s) = Rel!Truncated(t)
    BY <1>4, <1>5, <2>1, TruncatedAgree
  <2> QED
    BY <2>2 DEF s, t, x, y
<1>8. CASE la < NStr /\ lb >= NStr
  <2>1. lx = la /\ \A i \in 1..la : x[i] = a[i]
    BY <1>1, <1>2, <1>8
  <2> HIDE DEF s, t
  <2>2. Len(s) >= NStr - 1 /\ Len(t) >= NStr - 1
    BY <1>0, <1>1, <1>2, <1>4, <1>5, <1>8
  <2>3. ASSUME NEW i \in 1..(NStr - 1)
        PROVE  s[i] = t[i]
    <3>1. CASE i <= la
      BY <1>0, <1>1, <1>4, <1>5, <2>1, <3>1
    <3>2. CASE i > la /\ i <= la + lu
      <4>1. PICK n \in 1..lu : i = la + n
        <5>1. i - la \in 1..lu /\ i = la + (i - la)
          BY <1>0, <1>1, <3>2
        <5> QED
          BY <5>1
      <4> QED
        BY <1>4, <1>5, <2>1, <4>1
    <3>3. CASE i > la + lu
      <4>1. PICK n \in 1..(NStr - 1) : i = la + lu + n
        <5>1. i - (la + lu) \in 1..(NStr - 1) /\ i = la + lu + (i - (la + lu))
          BY <1>0, <1>1, <3>3
        <5> QED
          BY <5>1
      <4>2. n \in 1..ly /\ n \in 1..lb /\ y[n] = b[n]
        BY <1>0, <1>1, <1>2, <1>8, <4>1
      <4>3. s[i] = y[n] /\ t[i] = b[n]
        BY <1>4, <1>5, <2>1, <4>1, <4>2
      <4> QED
        BY <4>2, <4>3
    <3> QED
      BY <1>0, <1>1, <3>1, <3>2, <3>3
  <2>4. Rel!Truncated(s) = Rel!Truncated(t)
    BY <1>4, <1>5, <2>2, <2>3, TruncatedAgree
  <2> QED
    BY <2>4 DEF s, t, x, y
<1> QED
  BY <1>0, <1>1, <1>6, <1>7, <1>8 DEF s, t, x, y

-----------------------------------------------------------------------------
(* The reading of /etc/os-release.                                         *)

(* Every set of numbers up to n has a greatest one.                         *)
LEMMA GreatestNatural ==
  ASSUME NEW S, NEW n \in Nat, S \subseteq 0..n, S # {}
  PROVE  \E m \in S : \A i \in S : i <= m
<1> DEFINE T == {n - m : m \in S}
<1>1. T \subseteq Nat /\ T # {}
  <2>1. \A m \in S : n - m \in Nat
    OBVIOUS
  <2> QED
    BY <2>1
<1>2. PICK t \in T : \A i \in T : t <= i
  <2> HIDE DEF T
  <2> QED
    BY <1>1, LeastNatural
<1>3. PICK m \in S : t = n - m
  OBVIOUS
<1>4. ASSUME NEW i \in S
      PROVE  i <= m
  <2>1. n - m <= n - i
    BY <1>2, <1>3, <1>4
  <2>2. i \in Int /\ m \in Int
    BY <1>3, <1>4
  <2> QED
    BY <2>1, <2>2
<1> QED
  BY <1>4

(* A file that may be found: see ReleaseAssumption.                        *)
IsFile(f) ==
    f # NoFile => /\ Len(f) \in Nat
                  /\ \A n \in 1..Len(f) : f[n].value \in Texts

(* The os-release file of an image is one of them.                          *)
LEMMA ImagesAreFiles ==
  ASSUME NEW c \in Inputs, NEW m \in 1..Len(c.images)
  PROVE  IsFile(c.images[m])
<1> DEFINE f == c.images[m]
<1>1. SUFFICES ASSUME f # NoFile
               PROVE  /\ Len(f) \in Nat
                      /\ \A n \in 1..Len(f) : f[n].value \in Texts
  BY DEF IsFile
<1>2. IsSequence(f) /\ \A n \in 1..Len(f) : f[n].value \in Texts
  BY <1>1, ReleaseAssumption
<1> HIDE DEF f
<1>3. Len(f) \in Nat
  BY <1>2 DEF IsSequence
<1> QED
  BY <1>2, <1>3

(* What the first n lines of a file say, and what has been found by then.  *)
SaysTo(f, n, name) ==
    LET mine == {m \in 1..n : f[m].name = name}
    IN  IF mine = {} THEN <<>> ELSE Rel!Trimmed(f[LastOf(mine)].value)

NamesTo(f, n) ==
    {Rel!Trimmed(f[m].value) : m \in {i \in 1..n : f[i].name = "NAME"}}
        \ {<<>>}

FoundTo(f, n) ==
    [names     |-> NamesTo(f, n),
     versionId |-> Rel!Truncated(SaysTo(f, n, "VERSION_ID")),
     buildId   |-> Rel!Truncated(SaysTo(f, n, "BUILD_ID"))]

(* The last line of a name, with one more line.                             *)
LEMMA SaysNext ==
  ASSUME NEW f, NEW n \in Nat, NEW name
  PROVE  SaysTo(f, n + 1, name) = IF f[n + 1].name = name
                                  THEN Rel!Trimmed(f[n + 1].value)
                                  ELSE SaysTo(f, n, name)
<1> DEFINE mine(j) == {m \in 1..j : f[m].name = name}
<1>1. CASE f[n + 1].name = name
  <2>1. n + 1 \in mine(n + 1) /\ mine(n + 1) \subseteq Int
    BY <1>1
  <2>2. \A m \in mine(n + 1) : m <= n + 1
    OBVIOUS
  <2> HIDE DEF mine
  <2>3. LastOf(mine(n + 1)) = n + 1 /\ mine(n + 1) # {}
    BY <2>1, <2>2, LastIs
  <2> QED
    BY <1>1, <2>3 DEF SaysTo, mine
<1>2. CASE f[n + 1].name # name
  <2>1. mine(n + 1) = mine(n)
    BY <1>2
  <2> QED
    BY <1>2, <2>1 DEF SaysTo
<1> QED
  BY <1>1, <1>2

(* The first no lines say nothing.                                          *)
LEMMA SaysNothing ==
  ASSUME NEW f, NEW name
  PROVE  SaysTo(f, 0, name) = <<>> /\ NamesTo(f, 0) = {}
BY DEF SaysTo, NamesTo

(* What is said is a text.                                                  *)
LEMMA SaysType ==
  ASSUME NEW f, IsFile(f), f # NoFile, NEW n \in 0..Len(f), NEW name
  PROVE  SaysTo(f, n, name) \in Texts
<1> DEFINE mine == {m \in 1..n : f[m].name = name}
<1>1. Len(f) \in Nat /\ n \in Nat
  BY DEF IsFile
<1>2. CASE mine = {}
  BY <1>2 DEF SaysTo, Texts
<1>3. CASE mine # {}
  <2>1. mine \subseteq 0..n
    BY <1>1
  <2>2. mine \subseteq 1..Len(f)
    BY <1>1
  <2> HIDE DEF mine
  <2>3. PICK m \in mine : \A i \in mine : i <= m
    BY <1>1, <1>3, <2>1, GreatestNatural
  <2>4. mine \subseteq Int
    BY <2>1
  <2>5. LastOf(mine) = m
    BY <2>3, <2>4, LastIs
  <2>6. f[m].value \in Texts
    BY <2>2, <2>3 DEF IsFile
  <2>7. Rel!Trimmed(f[LastOf(mine)].value) \in Texts
    BY <2>5, <2>6, TrimmedType
  <2> QED
    BY <1>3, <2>7 DEF SaysTo, mine
<1> QED
  BY <1>2, <1>3

(* One more line.                                                          *)
LEMMA FoundNext ==
  ASSUME NEW f, NEW n \in Nat
  PROVE  LET l == f[n + 1]
             value == Rel!Trimmed(l.value)
             fd == FoundTo(f, n)
         IN  FoundTo(f, n + 1) =
               CASE l.name = "NAME" /\ value # <<>> ->
                      [fd EXCEPT !.names = @ \union {value}]
                 [] l.name = "VERSION_ID" ->
                      [fd EXCEPT !.versionId = Rel!Truncated(value)]
                 [] l.name = "BUILD_ID" ->
                      [fd EXCEPT !.buildId = Rel!Truncated(value)]
                 [] OTHER -> fd
<1> DEFINE l == f[n + 1]
           value == Rel!Trimmed(l.value)
           v(j) == SaysTo(f, j, "VERSION_ID")
           b(j) == SaysTo(f, j, "BUILD_ID")
<1>1. /\ v(n + 1) = IF l.name = "VERSION_ID" THEN value ELSE v(n)
      /\ b(n + 1) = IF l.name = "BUILD_ID" THEN value ELSE b(n)
  BY SaysNext
<1>2. NamesTo(f, n + 1) = IF l.name = "NAME" /\ value # <<>>
                          THEN NamesTo(f, n) \union {value}
                          ELSE NamesTo(f, n)
  <2>1. 1..(n + 1) = (1..n) \union {n + 1}
    OBVIOUS
  <2> QED
    BY <2>1 DEF NamesTo
<1> DEFINE ns == NamesTo(f, n)
<1>3. FoundTo(f, n) = [names |-> ns, versionId |-> Rel!Truncated(v(n)),
                       buildId |-> Rel!Truncated(b(n))]
  BY DEF FoundTo
<1>4. FoundTo(f, n + 1) = [names |-> NamesTo(f, n + 1),
                           versionId |-> Rel!Truncated(v(n + 1)),
                           buildId |-> Rel!Truncated(b(n + 1))]
  BY DEF FoundTo
<1> HIDE DEF l, value, v, b, ns
<1>5. CASE l.name = "NAME" /\ value # <<>>
  <2>1. FoundTo(f, n + 1) = [names |-> ns \union {value},
                             versionId |-> Rel!Truncated(v(n)),
                             buildId |-> Rel!Truncated(b(n))]
    BY <1>1, <1>2, <1>4, <1>5 DEF ns
  <2>2. [FoundTo(f, n) EXCEPT !.names = @ \union {value}] =
           [names |-> ns \union {value}, versionId |-> Rel!Truncated(v(n)),
            buildId |-> Rel!Truncated(b(n))]
    BY <1>3
  <2>3. FoundTo(f, n + 1) = [FoundTo(f, n) EXCEPT !.names = @ \union {value}]
    BY <2>1, <2>2
  <2> QED
    BY <1>5, <2>3 DEF l, value
<1>9. CASE l.name = "NAME" /\ value = <<>>
  <2>1. FoundTo(f, n + 1) = FoundTo(f, n)
    BY <1>1, <1>2, <1>3, <1>4, <1>9 DEF ns
  <2> QED
    BY <1>9, <2>1 DEF l, value
<1>6. CASE l.name = "VERSION_ID"
  BY <1>1, <1>2, <1>3, <1>4, <1>6 DEF ns, l, value
<1>7. CASE l.name = "BUILD_ID"
  BY <1>1, <1>2, <1>3, <1>4, <1>7 DEF ns, l, value
<1>8. CASE l.name \notin {"NAME", "VERSION_ID", "BUILD_ID"}
  BY <1>1, <1>2, <1>3, <1>4, <1>8 DEF ns, l, value
<1> QED
  BY <1>5, <1>6, <1>7, <1>8, <1>9

(* The file that is read now: that of the installed image.                  *)
File == cfg.images[image]

(* sysd_update_sw_info has found what the lines before this one say.        *)
ReadInv ==
    /\ pc \notin {"release", "existing", "nullTxn"} => line = 0
    /\ line \in Nat /\ 1..line \subseteq Rel!LinesOf(File)
    /\ found = FoundTo(File, line)

(* Of no lines, nothing is found.                                           *)
LEMMA FoundNothing ==
  ASSUME NEW f
  PROVE  FoundTo(f, 0) = Rel!NothingFound
<1>1. /\ SaysTo(f, 0, "VERSION_ID") = <<>> /\ SaysTo(f, 0, "BUILD_ID") = <<>>
      /\ NamesTo(f, 0) = {}
  BY SaysNothing
<1>2. Rel!Truncated(<<>>) = <<>>
  <2>1. <<>> \in Texts
    BY DEF Texts
  <2> QED
    BY <2>1, TruncatedIs
<1> QED
  BY <1>1, <1>2 DEF FoundTo, Rel!NothingFound

(* The steps that have nothing to do with os-release.                      *)
Quiet ==
    ~(\/ ReadRelease \/ WriteRelease \/ CommitFails \/ ReplaceImage
      \/ BeginPass \/ PassSurvives \/ PassFault)

BeforeRelease == {"system", "subsystem", "links", "daemons"}
Reading == {"release", "existing", "nullTxn"}
BeforeCommit == {"trust", "dscp", "cos", "acl"} \union ProfileSteps

(* What those steps do to the variables of interest here.                   *)
LEMMA QuietStep ==
  ASSUME [Next]_vars, Quiet
  PROVE  /\ UNCHANGED <<image, pass, line, found, software>>
         /\ \/ UNCHANGED <<pc, short>>
            \/ /\ pc \in BeforeRelease
               /\ pc' \in BeforeRelease \union {"release", "fault"}
               /\ short \subseteq short'
            \/ pc \in BeforeRelease /\ pc' = "commit" /\ Early'
            \/ /\ pc \in BeforeCommit
               /\ pc' \in BeforeCommit \union {"commit", "fault"}
               /\ short' = short
            \/ pc = "commit" /\ pc' = "done" /\ short' = short
<1> USE DEF BeforeRelease, BeforeCommit, ProfileSteps, txn, release, images
<1>1. CASE UNCHANGED vars
  BY <1>1 DEF vars
<1>2. CASE AddSystem \/ AddSystemFault \/ AddSubsystem \/ LinkPorts
             \/ LinkPortsFault \/ AddDaemons
  BY <1>2, AfterIs DEF AddSystem, AddSystemFault, AddSubsystem, LinkPorts,
                       LinkPortsFault, AddDaemons, Step
<1>3. CASE NoSubsystem \/ NoDaemons
  BY <1>3 DEF NoSubsystem, NoDaemons, NoMemory, Early
<1>4. CASE InitTrust \/ InitMaps \/ AclLimits \/ AclFault
  BY <1>4, AfterIs DEF InitTrust, InitMaps, InitMap, InitMapFault, AclLimits,
                       AclFault, Step
<1>5. CASE SkipProfiles \/ UseDefault \/ MarkFactory
  <2>1. pc \in ProfileSteps
    BY <1>5 DEF SkipProfiles, UseDefault, MarkFactory, IsDefault
  <2>2. /\ After(pc) \in ProfileSteps \union {"acl"}
        /\ IsDefault(pc) => After(After(pc)) \in ProfileSteps \union {"acl"}
    BY <2>1, AfterIs DEF IsDefault
  <2>3. /\ pc' \in ProfileSteps \union {"acl"}
        /\ UNCHANGED <<image, pass, line, found, software, short>>
    BY <1>5, <2>2 DEF SkipProfiles, UseDefault, MarkFactory, IsDefault
  <2> QED
    BY <2>1, <2>3
<1>6. CASE BeginProfile \/ AddEntry \/ ShowSystem
  BY <1>6 DEF BeginProfile, AddEntry, ShowSystem
<1>7. CASE Commit
  BY <1>7 DEF Commit
<1> QED
  BY <1>1, <1>2, <1>3, <1>4, <1>5, <1>6, <1>7 DEF Next, Quiet

(* ReadInv is kept: by a line that is read, and by an image that is         *)
(* replaced while no file is open.                                          *)
LEMMA ReadInvStep ==
  ASSUME TypeInv, ReadInv, [Next]_vars
  PROVE  ReadInv'
<1>1. cfg' = cfg
  BY InputKept
<1>2. CASE ReadRelease
  <2>1. /\ pc' = pc /\ image' = image /\ line' = line + 1
        /\ pc \in {"release", "existing"}
        /\ line + 1 \in Rel!LinesOf(File)
    BY <1>2 DEF ReadRelease, Rel!ReadLine, images, File
  <2>2. File' = File
    BY <1>1, <2>1 DEF File
  <2>3. found' = FoundTo(File, line + 1)
    <3> DEFINE f == File
    <3>1. found = FoundTo(f, line) /\ line \in Nat
      BY DEF ReadInv
    <3>2. FoundTo(f, line + 1) =
            LET l == f[line + 1]
                value == Rel!Trimmed(l.value)
            IN  CASE l.name = "NAME" /\ value # <<>> ->
                       [found EXCEPT !.names = @ \union {value}]
                  [] l.name = "VERSION_ID" ->
                       [found EXCEPT !.versionId = Rel!Truncated(value)]
                  [] l.name = "BUILD_ID" ->
                       [found EXCEPT !.buildId = Rel!Truncated(value)]
                  [] OTHER -> found
      BY <3>1, FoundNext
    <3> QED
      BY <1>2, <3>2 DEF ReadRelease, Rel!ReadLine, File
  <2>4. 1..(line + 1) \subseteq Rel!LinesOf(File)
    BY <2>1 DEF ReadInv
  <2>5. line + 1 \in Nat
    BY DEF ReadInv
  <2> QED
    BY <2>1, <2>2, <2>3, <2>4, <2>5 DEF ReadInv, Rel!LinesOf
<1>3. CASE WriteRelease \/ PassSurvives
  <2>1. line' = 0 /\ found' = Rel!NothingFound
    BY <1>3 DEF WriteRelease, PassSurvives
  <2> QED
    BY <2>1, FoundNothing DEF ReadInv, Rel!LinesOf
<1>4. CASE ReplaceImage
  <2>1. line' = 0 /\ found' = Rel!NothingFound
    <3>1. line = 0 /\ found = FoundTo(File, 0)
      BY <1>4 DEF ReplaceImage, ReadInv
    <3> QED
      BY <1>4, <3>1, FoundNothing DEF ReplaceImage, txn, release
  <2> QED
    BY <2>1, FoundNothing DEF ReadInv, Rel!LinesOf
<1>5. CASE UNCHANGED <<image, line, found>> /\
           (pc' \notin {"release", "existing", "nullTxn"} => line = 0)
  <2>1. File' = File
    BY <1>1, <1>5 DEF File
  <2> QED
    BY <1>5, <2>1 DEF ReadInv, Rel!LinesOf
<1>6. CASE CommitFails \/ BeginPass \/ PassFault
  BY <1>5, <1>6 DEF CommitFails, BeginPass, PassFault, images, txn, release,
                    ReadInv
<1>7. CASE Quiet
  BY <1>5, <1>7, QuietStep DEF BeforeRelease, BeforeCommit, ProfileSteps,
                               ReadInv
<1> QED
  BY <1>2, <1>3, <1>4, <1>6, <1>7 DEF Quiet

(* At the end of the file: what it says.                                   *)
LEMMA ReadIs ==
  ASSUME TypeInv, ReadInv, Rel!Read
  PROVE  /\ found.names = Rel!NamesOf(File)
         /\ found.versionId = Rel!Truncated(Rel!Says(File, "VERSION_ID"))
         /\ found.buildId = Rel!Truncated(Rel!Says(File, "BUILD_ID"))
         /\ Rel!Says(File, "VERSION_ID") \in Texts
         /\ Rel!Says(File, "BUILD_ID") \in Texts
<1> DEFINE f == File
<1>1. IsFile(f)
  BY ImagesAreFiles DEF TypeInv, File
<1>2. line \in Nat /\ 1..line \subseteq Rel!LinesOf(f)
      /\ line + 1 \notin Rel!LinesOf(f)
  BY DEF ReadInv, Rel!Read, File
<1> HIDE DEF f
<1>3. Rel!LinesOf(f) = 1..line
  <2>1. CASE f = NoFile
    BY <1>2, <2>1 DEF Rel!LinesOf
  <2>2. CASE f # NoFile
    <3>1. Rel!LinesOf(f) = 1..Len(f) /\ Len(f) \in Nat
      BY <1>1, <2>2 DEF Rel!LinesOf, IsFile
    <3> HIDE DEF f
    <3>2. line = Len(f)
      <4>1. ~(line + 1 \in 1..Len(f))
        BY <1>2, <3>1
      <4>2. line > 0 => line \in 1..Len(f)
        BY <1>2, <3>1
      <4> QED
        BY <1>2, <3>1, <4>1, <4>2
    <3> QED
      BY <3>1, <3>2
  <2> QED
    BY <2>1, <2>2
<1>4. ASSUME NEW name
      PROVE  SaysTo(f, line, name) = Rel!Says(f, name)
  BY <1>3 DEF SaysTo, Rel!Says, LastOf
<1>5. NamesTo(f, line) = Rel!NamesOf(f)
  BY <1>3 DEF NamesTo, Rel!NamesOf
<1>6. ASSUME NEW name
      PROVE  SaysTo(f, line, name) \in Texts
  <2>1. CASE f = NoFile
    <3>1. line = 0
      BY <1>2, <1>3, <2>1 DEF Rel!LinesOf
    <3>2. <<>> \in Texts
      BY DEF Texts
    <3> QED
      BY <3>1, <3>2, SaysNothing
  <2>2. CASE f # NoFile
    <3>1. Rel!LinesOf(f) = 1..Len(f) /\ Len(f) \in Nat
      BY <1>1, <2>2 DEF Rel!LinesOf, IsFile
    <3>2. line \in 0..Len(f)
      BY <1>2, <3>1
    <3> QED
      BY <1>1, <2>2, <3>2, SaysType
  <2> QED
    BY <2>1, <2>2
<1>7. found = FoundTo(f, line)
  BY DEF ReadInv, f
<1> QED
  BY <1>4, <1>5, <1>6, <1>7 DEF FoundTo, f

(* What the function asks for: the name and the version the file gives,    *)
(* and what was there for the one it does not give.                        *)
LEMMA SetSoftwareIs ==
  ASSUME TypeInv, ReadInv, Rel!Read
  PROVE  Rel!SetSoftware =
           [osName  |-> IF Rel!NamesOf(File) = {} THEN software.osName
                        ELSE Rel!Kept(Rel!NamesOf(File)),
            version |-> IF Rel!VersionOf(File) = Unset THEN software.version
                        ELSE Rel!VersionOf(File)]
<1> DEFINE a == Rel!Says(File, "VERSION_ID")
           b == Rel!Says(File, "BUILD_ID")
           given == a # <<>> /\ b # <<>>
<1>1. /\ a \in Texts /\ b \in Texts
      /\ found.names = Rel!NamesOf(File)
      /\ found.versionId = Rel!Truncated(a)
      /\ found.buildId = Rel!Truncated(b)
  BY ReadIs
<1>2. Rel!VersionOf(File) = IF given THEN Rel!Truncated(Joined(a, b))
                            ELSE Unset
  BY DEF Rel!VersionOf, Rel!Truncated, Joined, Appended
<1>3. Rel!SetSoftware =
        [osName  |-> IF found.names = {} THEN software.osName
                     ELSE Rel!Kept(found.names),
         version |-> IF found.versionId = <<>> \/ found.buildId = <<>>
                     THEN software.version
                     ELSE Rel!Truncated(Joined(found.versionId,
                                               found.buildId))]
  BY DEF Rel!SetSoftware, Joined, Appended
<1> HIDE DEF a, b
<1>4. /\ found.versionId = <<>> <=> a = <<>>
      /\ found.buildId = <<>> <=> b = <<>>
  BY <1>1, TruncatedIs
<1>5. Rel!Truncated(Joined(found.versionId, found.buildId)) =
        Rel!Truncated(Joined(a, b))
  BY <1>1, CutTwice
<1>6. Rel!Truncated(Joined(a, b)) # Unset
  <2>1. Joined(a, b) \in Texts
    <3>1. PICK la \in Nat, lb \in Nat : Len(a) = la /\ Len(b) = lb
      BY <1>1, LengthIs
    <3> QED
      BY <1>1, <3>1, JoinedIs
  <2> QED
    BY <2>1, TruncatedIs, ReleaseAssumption
<1>7. CASE given
  BY <1>1, <1>2, <1>3, <1>4, <1>5, <1>6, <1>7
<1>8. CASE ~given
  BY <1>1, <1>2, <1>3, <1>4, <1>8
<1> QED
  BY <1>7, <1>8

(* The row and the images it has seen.                                     *)
Image(m) == cfg.images[m]

SoftwareInv ==
    /\ pc \notin Over => image = 1 /\ pass = 1
    /\ pc \notin PastRelease \union {"fault"} => software = Rel!UnsetRow
    /\ pc \in PastRelease /\ ~Early =>
          /\ software = [osName |-> software.osName,
                         version |-> software.version]
          /\ Rel!VersionOf(Image(pass)) # Unset =>
                software.version = Rel!VersionOf(Image(pass))
          /\ \/ software.version = Unset
             \/ \E m \in 1..pass : software.version = Rel!VersionOf(Image(m))
          /\ Rel!NamesOf(Image(pass)) # {} =>
                software.osName = Rel!Kept(Rel!NamesOf(Image(pass)))

(* A row without news keeps its columns; a pass that finds news does not    *)
(* come to its end.                                                         *)
LEMMA SoftwareStep ==
  ASSUME TypeInv, ReadInv, SoftwareInv, [Next]_vars
  PROVE  SoftwareInv'
<1> USE DEF Over, PastAcl, PastProfiles, PastDefaultSchedule, PastQueues,
            PastDefaultQueue, PastCos, PastDscp, PastTrust, PastRelease
<1>1. cfg' = cfg
  BY InputKept
<1>2. \A m : Image(m)' = Image(m)
  BY <1>1 DEF Image
<1>3. image \in Nat /\ pass \in 1..image
  BY DEF TypeInv
<1>4. ASSUME UNCHANGED <<image, pass, software>>,
             pc' \notin Over => pc \notin Over,
             pc' \notin PastRelease \union {"fault"} =>
                pc \notin PastRelease \union {"fault"},
             pc' \in PastRelease /\ ~Early' => pc \in PastRelease /\ ~Early
      PROVE  SoftwareInv'
  BY <1>2, <1>4 DEF SoftwareInv, Rel!UnsetRow
<1>5. CASE Quiet
  <2>1. UNCHANGED <<image, pass, software>>
    BY <1>5, QuietStep
  <2>2. /\ pc' \notin Over => pc \notin Over
        /\ pc' \notin PastRelease \union {"fault"} =>
              pc \notin PastRelease \union {"fault"}
    BY <1>5, QuietStep DEF BeforeRelease, BeforeCommit, ProfileSteps
  <2>3. pc' \in PastRelease /\ ~Early' => pc \in PastRelease /\ ~Early
    BY <1>5, QuietStep DEF BeforeRelease, BeforeCommit, ProfileSteps, Early
  <2> QED
    BY <1>4, <2>1, <2>2, <2>3
<1>6. CASE ReadRelease
  BY <1>4, <1>6 DEF ReadRelease, Rel!ReadLine, images, Early
<1>7. CASE CommitFails
  BY <1>7 DEF CommitFails, images, SoftwareInv, Rel!UnsetRow
<1>8. CASE BeginPass \/ PassFault
  BY <1>4, <1>8 DEF BeginPass, PassFault, images, txn, release, Early
<1>9. CASE ReplaceImage
  <2>1. /\ pc = "done" /\ pc' = "done"
        /\ UNCHANGED <<pass, software, short>>
    BY <1>9 DEF ReplaceImage, txn, release
  <2> QED
    BY <1>2, <2>1 DEF SoftwareInv, Early
<1>10. CASE WriteRelease
  <2>1. /\ pc = "release" /\ pc' = "trust"
        /\ UNCHANGED <<image, pass, short>>
        /\ software' = Rel!SetSoftware
        /\ Rel!Read
    BY <1>10, AfterIs DEF WriteRelease, Step, images
  <2>2. /\ image = 1 /\ pass = 1 /\ File = Image(1)
        /\ software = Rel!UnsetRow
    BY <2>1 DEF SoftwareInv, File, Image
  <2>3. software' =
           [osName  |-> IF Rel!NamesOf(Image(1)) = {} THEN Unset
                        ELSE Rel!Kept(Rel!NamesOf(Image(1))),
            version |-> IF Rel!VersionOf(Image(1)) = Unset THEN Unset
                        ELSE Rel!VersionOf(Image(1))]
    BY <2>1, <2>2, SetSoftwareIs DEF Rel!UnsetRow
  <2> QED
    BY <1>2, <2>1, <2>2, <2>3 DEF SoftwareInv
<1>11. CASE PassSurvives
  <2>1. /\ pc = "existing" /\ pc' = "done"
        /\ UNCHANGED <<image, software, short>>
        /\ pass' = image
        /\ software = Rel!SetSoftware
        /\ Rel!Read
    BY <1>11 DEF PassSurvives
  <2>2. File = Image(image)
    BY DEF File, Image
  <2>3. SUFFICES ASSUME ~Early
                 PROVE  SoftwareInv'
    BY <2>1 DEF SoftwareInv, Early
  <2>4. software =
           [osName  |-> IF Rel!NamesOf(Image(image)) = {} THEN software.osName
                        ELSE Rel!Kept(Rel!NamesOf(Image(image))),
            version |-> IF Rel!VersionOf(Image(image)) = Unset
                        THEN software.version
                        ELSE Rel!VersionOf(Image(image))]
    BY <2>1, <2>2, SetSoftwareIs
  <2>5. /\ Rel!VersionOf(Image(image)) # Unset =>
              software.version = Rel!VersionOf(Image(image))
        /\ Rel!NamesOf(Image(image)) # {} =>
              software.osName = Rel!Kept(Rel!NamesOf(Image(image)))
    BY <2>4
  <2>6. \/ software.version = Unset
        \/ \E m \in 1..image : software.version = Rel!VersionOf(Image(m))
    BY <1>3, <2>1, <2>3 DEF SoftwareInv
  <2>7. software = [osName |-> software.osName, version |-> software.version]
    BY <2>1, <2>3 DEF SoftwareInv
  <2> QED
    BY <1>2, <2>1, <2>5, <2>6, <2>7 DEF SoftwareInv
<1> QED
  BY <1>5, <1>6, <1>7, <1>8, <1>9, <1>10, <1>11 DEF Quiet

ShownInv == ReadInv /\ SoftwareInv

(* Reading os-release in the first configuration and in each later pass.   *)
THEOREM ShownInvariance == Spec => []ShownInv
<1>1. Init => ShownInv
  <2> SUFFICES ASSUME Init PROVE ShownInv
    OBVIOUS
  <2>1. /\ line = 0 /\ found = FoundTo(File, 0)
        /\ 1..0 \subseteq Rel!LinesOf(File)
    BY FoundNothing DEF Init
  <2>2. ReadInv
    BY <2>1 DEF ReadInv
  <2>3. SoftwareInv
    BY DEF Init, SoftwareInv, Over, PastAcl, PastProfiles,
           PastDefaultSchedule, PastQueues, PastDefaultQueue, PastCos,
           PastDscp, PastTrust, PastRelease
  <2> QED
    BY <2>2, <2>3 DEF ShownInv
<1>2. IInv /\ ShownInv /\ [Next]_vars => ShownInv'
  BY ReadInvStep, SoftwareStep DEF ShownInv, IInv
<1> QED
  BY <1>1, <1>2, IInvInvariance, PTL DEF Spec

(* The row shows the version of the image the last pass has seen, and       *)
(* never one made up of two images: VersionIsAnImages, which is about       *)
(* sysd_update_sw_info, for every file and every size of its arrays.        *)
THEOREM VersionShown == Spec => []VersionIsAnImages
<1>1. ShownInv => VersionIsAnImages
  BY DEF ShownInv, SoftwareInv, VersionIsAnImages, Image, Early, Over,
         PastAcl, PastProfiles, PastDefaultSchedule, PastQueues,
         PastDefaultQueue, PastCos, PastDscp, PastTrust, PastRelease
<1> QED
  BY <1>1, ShownInvariance, PTL

(* A pass dereferences the NULL transaction only if sysd_update_sw_info     *)
(* has news for the row: PassBreaksOnlyOnNews.                              *)
THEOREM PassBreaks == Spec => []PassBreaksOnlyOnNews
<1>1. Init => PassBreaksOnlyOnNews
  BY DEF Init, PassBreaksOnlyOnNews
<1>2. ASSUME IInv, ShownInv, PassBreaksOnlyOnNews, [Next]_vars
      PROVE  PassBreaksOnlyOnNews'
  <2>1. cfg' = cfg
    BY <1>2, InputKept DEF IInv
  <2>2. CASE PassFault
    <3>1. /\ pc = "existing" /\ pc' = "nullTxn"
          /\ UNCHANGED <<image, pass, software, short>>
          /\ Rel!Read
          /\ Rel!SetSoftware # software
      BY <2>2 DEF PassFault, images, txn, release
    <3>2. SUFFICES ASSUME ~Early,
                          Rel!VersionOf(File) \in {Unset, software.version},
                          \/ Rel!NamesOf(File) = {}
                          \/ Rel!NamesOf(File) = Rel!NamesOf(Image(pass))
                   PROVE  FALSE
      BY <2>1, <3>1 DEF PassBreaksOnlyOnNews, Early, File, Image
    <3>3. /\ software = [osName |-> software.osName,
                         version |-> software.version]
          /\ Rel!NamesOf(Image(pass)) # {} =>
                software.osName = Rel!Kept(Rel!NamesOf(Image(pass)))
      BY <1>2, <3>1, <3>2 DEF ShownInv, SoftwareInv, Over,
         PastAcl, PastProfiles, PastDefaultSchedule, PastQueues,
         PastDefaultQueue, PastCos, PastDscp, PastTrust, PastRelease
    <3>4. Rel!SetSoftware = [osName |-> software.osName,
                             version |-> software.version]
      BY <1>2, <3>1, <3>2, <3>3, SetSoftwareIs DEF ShownInv, IInv
    <3> QED
      BY <3>1, <3>3, <3>4
  <2>3. CASE pc' # "nullTxn"
    BY <2>3 DEF PassBreaksOnlyOnNews
  <2>4. CASE pc' = "nullTxn" /\ ~PassFault
    <3>1. pc = "nullTxn" /\ UNCHANGED <<short, image, pass, software>>
      <4>1. CASE Quiet
        BY <1>2, <2>4, <4>1, QuietStep DEF BeforeRelease, BeforeCommit,
                                           ProfileSteps
      <4>2. CASE ReadRelease \/ WriteRelease \/ CommitFails \/ ReplaceImage
                   \/ BeginPass \/ PassSurvives
        BY <2>4, <4>2, AfterIs DEF ReadRelease, WriteRelease, CommitFails,
           ReplaceImage, BeginPass, PassSurvives, Step
      <4> QED
        BY <2>4, <4>1, <4>2 DEF Quiet
    <3> QED
      BY <1>2, <2>1, <3>1 DEF PassBreaksOnlyOnNews
  <2> QED
    BY <2>2, <2>3, <2>4
<1> QED
  BY <1>1, <1>2, IInvInvariance, ShownInvariance, PTL DEF Spec

-----------------------------------------------------------------------------
(* "show system".                                                          *)

(* Every sequence of numbers can be sorted: by the number of elements that  *)
(* come before each, where equal ones come in the order they have.          *)
LEMMA SortingExists ==
  ASSUME NEW s \in Seq(Int), NEW n \in Nat, n = Len(s)
  PROVE  \E p \in Bijection(1..n, 1..n) :
            \A i, j \in 1..n : i < j => s[p[i]] <= s[p[j]]
<1> DEFINE Before(a, b) == s[a] < s[b] \/ (s[a] = s[b] /\ a <= b)
           Below(a) == {b \in 1..n : Before(b, a)}
           r == [a \in 1..n |-> Cardinality(Below(a))]
<1>1. \A a \in 1..n : s[a] \in Int
  OBVIOUS
<1>2. IsFiniteSet(1..n) /\ Cardinality(1..n) = n
  <2>1. /\ IsFiniteSet(1..n)
        /\ Cardinality(1..n) = IF 1 > n THEN 0 ELSE n - 1 + 1
    <3>1. 1 \in Int /\ n \in Int
      OBVIOUS
    <3> QED
      BY <3>1, FS_Interval
  <2> QED
    BY <2>1
<1>3. \A a, b, c \in 1..n : /\ Before(a, a)
                            /\ Before(a, b) \/ Before(b, a)
                            /\ Before(a, b) /\ Before(b, c) => Before(a, c)
                            /\ Before(a, b) /\ Before(b, a) => a = b
  BY <1>1
<1>4. \A a, b \in 1..n : s[b] < s[a] => Before(b, a)
  OBVIOUS
<1>5. \A a, b \in 1..n : ~(s[b] < s[a]) => s[a] <= s[b]
  BY <1>1
<1> HIDE DEF Before
<1>6. ASSUME NEW a \in 1..n
      PROVE  /\ IsFiniteSet(Below(a))
             /\ Cardinality(Below(a)) \in 1..n
             /\ a \in Below(a)
  <2>1. Below(a) \in SUBSET (1..n) /\ a \in Below(a)
    BY <1>3
  <2> HIDE DEF Below
  <2>2. /\ IsFiniteSet(Below(a)) /\ Cardinality(Below(a)) <= n
    BY <1>2, <2>1, FS_Subset
  <2>3. Cardinality(Below(a)) \in Nat
    BY <2>2, FS_CardinalityType
  <2>4. Cardinality(Below(a)) # 0
    BY <2>1, <2>2, FS_EmptySet
  <2> QED
    BY <2>1, <2>2, <2>3, <2>4
<1>7. ASSUME NEW a \in 1..n, NEW b \in 1..n, Before(a, b), a # b
      PROVE  Cardinality(Below(a)) < Cardinality(Below(b))
  <2>1. Below(a) \in SUBSET Below(b) /\ b \notin Below(a) /\ b \in Below(b)
    BY <1>3, <1>7
  <2> HIDE DEF Below
  <2>2. /\ Cardinality(Below(a)) <= Cardinality(Below(b))
        /\ Cardinality(Below(a)) # Cardinality(Below(b))
    BY <1>6, <2>1, FS_Subset
  <2> QED
    BY <1>6, <2>2
<1>8. /\ r \in [1..n -> 1..n]
      /\ \A a, b \in 1..n : Before(a, b) /\ a # b => r[a] < r[b]
  <2> HIDE DEF Below
  <2> QED
    BY <1>6, <1>7
<1> HIDE DEF r
<1>9. \A a, b \in 1..n : r[a] = r[b] => a = b
  <2> SUFFICES ASSUME NEW a \in 1..n, NEW b \in 1..n, r[a] = r[b], a # b
               PROVE  FALSE
    OBVIOUS
  <2>1. r[a] \in 1..n /\ r[b] \in 1..n
    BY <1>8
  <2>2. r[a] < r[b] \/ r[b] < r[a]
    BY <1>3, <1>8
  <2> QED
    BY <2>1, <2>2
<1>10. r \in Surjection(1..n, 1..n)
  <2>1. r \in Injection(1..n, 1..n)
    BY <1>8, <1>9 DEF Injection, IsInjective
  <2> QED
    BY <1>2, <2>1, FS_Injection
<1>11. \A i \in 1..n : \E a \in 1..n : r[a] = i
  BY <1>10 DEF Surjection
<1> DEFINE p == [i \in 1..n |-> CHOOSE a \in 1..n : r[a] = i]
<1>12. p \in [1..n -> 1..n] /\ \A i \in 1..n : r[p[i]] = i
  BY <1>11
<1> HIDE DEF p
<1>13. ASSUME NEW w \in 1..n
       PROVE  \E v \in 1..n : p[v] = w
  BY <1>8, <1>9, <1>12
<1>14. ASSUME NEW i \in 1..n, NEW j \in 1..n, i < j
       PROVE  s[p[i]] <= s[p[j]]
  <2>1. p[i] \in 1..n /\ p[j] \in 1..n /\ r[p[i]] = i /\ r[p[j]] = j
    BY <1>12
  <2>2. ~Before(p[j], p[i])
    BY <1>8, <1>14, <2>1
  <2> QED
    BY <1>4, <1>5, <2>1, <2>2
<1>15. p \in Bijection(1..n, 1..n)
  <2>1. \A i, j \in 1..n : p[i] = p[j] => i = j
    BY <1>12
  <2> QED
    BY <1>12, <1>13, <2>1
       DEF Bijection, Injection, IsInjective, Surjection
<1> QED
  BY <1>14, <1>15

(* qsort: the same rows in another order.                                   *)
LEMMA ByNameIs ==
  ASSUME NEW s \in Seq(Int)
  PROVE  Cli!ByName(s) \in Seq(Int) /\ ToSet(Cli!ByName(s)) = ToSet(s)
<1>1. PICK n \in Nat : n = Len(s)
  OBVIOUS
<1>2. DOMAIN s = 1..n
  BY <1>1
<1> DEFINE places == DOMAIN s
           Sorts(p) == \A i, j \in places : i < j => s[p[i]] <= s[p[j]]
           perm == CHOOSE p \in Cli!Bijection(places, places) : Sorts(p)
           sorted == [i \in places |-> s[perm[i]]]
<1>3. Cli!ByName(s) = sorted
  BY DEF Cli!ByName
<1> HIDE DEF sorted
<1>4. \E p \in Bijection(places, places) : Sorts(p)
  BY <1>1, <1>2, SortingExists
<1> HIDE DEF Sorts
<1>a. Cli!Bijection(places, places) = Bijection(places, places)
  BY DEF Bijection, Injection, IsInjective, Surjection,
         Cli!Bijection, Cli!Injection, Cli!IsInjective, Cli!Surjection
<1>5. perm \in Bijection(places, places)
  <2>1. \E p \in Cli!Bijection(places, places) : Sorts(p)
    BY <1>4, <1>a
  <2>2. perm \in Cli!Bijection(places, places)
    BY <2>1, Zenon
  <2> QED
    BY <1>a, <2>2
<1> HIDE DEF perm
<1>6. perm \in [1..n -> 1..n] /\ \A w \in 1..n : \E v \in 1..n : perm[v] = w
  <2>1. perm \in Bijection(1..n, 1..n)
    BY <1>2, <1>5
  <2> QED
    BY <2>1 DEF Bijection, Injection, Surjection
<1>7. sorted = [i \in 1..n |-> s[perm[i]]] /\ DOMAIN sorted = 1..n
  BY <1>2 DEF sorted
<1>8. ASSUME NEW i \in 1..n
      PROVE  s[perm[i]] \in Int
  <2>1. perm[i] \in 1..n
    BY <1>6
  <2>2. PICK j \in 1..n : j = perm[i]
    BY <2>1
  <2>3. s[j] \in Int
    BY <1>1
  <2> QED
    BY <2>2, <2>3
<1>9. sorted \in Seq(Int)
  BY <1>7, <1>8
<1>10. ToSet(sorted) = ToSet(s)
  <2>1. ASSUME NEW i \in 1..n
        PROVE  sorted[i] \in ToSet(s)
    <3>1. perm[i] \in DOMAIN s /\ sorted[i] = s[perm[i]]
      BY <1>2, <1>6, <1>7
    <3> QED
      BY <3>1 DEF ToSet
  <2>2. ASSUME NEW w \in 1..n
        PROVE  s[w] \in ToSet(sorted)
    <3>1. PICK v \in 1..n : perm[v] = w
      BY <1>6
    <3>2. v \in DOMAIN sorted /\ sorted[v] = s[w]
      BY <1>7, <3>1
    <3> QED
      BY <3>2 DEF ToSet
  <2>3. /\ \A x \in ToSet(sorted) : \E i \in 1..n : x = sorted[i]
        /\ \A x \in ToSet(s) : \E i \in 1..n : x = s[i]
    BY <1>2, <1>7 DEF ToSet
  <2>4. ToSet(sorted) \subseteq ToSet(s) /\ ToSet(s) \subseteq ToSet(sorted)
    BY <2>1, <2>2, <2>3
  <2> QED
    BY <2>4
<1> QED
  BY <1>3, <1>9, <1>10

(* cli_system_get_all over the replica: the process ends at pSys->n_fans    *)
(* without a Subsystem row, and with one shows all that is registered.      *)
LEMMA OutputIs ==
  ASSUME TypeInv, NEW committed \in BOOLEAN
  PROVE  LET output == Cli!Output(View(committed))
         IN  IF committed /\ "subsystems" \in system
             THEN /\ output # Died
                  /\ output.overview
                  /\ \A kind \in {"fans", "leds", "psus", "temps"} :
                        ToSet(output[kind]) =
                            IF kind \in Registered
                            THEN ToSet(cfg.inventory[kind]) ELSE {}
             ELSE output = Died
<1>1. CASE ~(committed /\ "subsystems" \in system)
  BY <1>1 DEF Cli!Output, View
<1>2. CASE committed /\ "subsystems" \in system
  <2> DEFINE inv == [kind \in {"fans", "leds", "psus", "temps"} |->
                        IF kind \in Registered THEN cfg.inventory[kind]
                        ELSE <<>>]
             out == [overview |-> TRUE,
                     fans     |-> Cli!ByName(inv["fans"]),
                     leds     |-> inv["leds"],
                     psus     |-> Cli!ByName(inv["psus"]),
                     temps    |-> inv["temps"]]
  <2>1. Cli!Output(View(committed)) = out
    BY <1>2 DEF Cli!Output, View
  <2>2. \A kind \in {"fans", "leds", "psus", "temps"} :
           /\ inv[kind] \in Seq(Int)
           /\ ToSet(inv[kind]) =
                IF kind \in Registered THEN ToSet(cfg.inventory[kind]) ELSE {}
    BY ShowAssumption DEF TypeInv, ToSet
  <2> HIDE DEF inv
  <2>3. \A kind \in {"fans", "psus"} :
           /\ Cli!ByName(inv[kind]) \in Seq(Int)
           /\ ToSet(Cli!ByName(inv[kind])) = ToSet(inv[kind])
    BY <2>2, ByNameIs
  <2>4. out \in Outputs
    BY <2>2, <2>3 DEF Outputs
  <2>5. \A kind \in {"fans", "leds", "psus", "temps"} :
           ToSet(out[kind]) = ToSet(inv[kind])
    BY <2>3
  <2> HIDE DEF out
  <2>6. out # Died
    BY <2>4, ShowAssumption
  <2>7. out.overview = TRUE
    BY DEF out
  <2> QED
    BY <1>2, <2>1, <2>2, <2>5, <2>6, <2>7
<1> QED
  BY <1>1, <1>2

(* The subsystem is in the transaction, unless there was no memory for it,  *)
(* and the user saw a row only behind the commit.                           *)
UserInv ==
    /\ pc \in PastSubsystem /\ "subsystems" \notin short =>
          "subsystems" \in system
    /\ shown.committed => pc \in Over
    /\ ShowEndsUnlessConfigured

(* Which steps add a Subsystem, and what none of them takes away.          *)
LEMMA SubsystemKept ==
  ASSUME TypeInv, [Next]_vars, "subsystems" \notin short',
         pc' \in PastSubsystem,
         pc \in PastSubsystem /\ "subsystems" \notin short =>
            "subsystems" \in system
  PROVE  "subsystems" \in system'
<1> USE DEF Over, PastAcl, PastProfiles, PastDefaultSchedule, PastQueues,
            PastDefaultQueue, PastCos, PastDscp, PastTrust, PastRelease,
            PastDaemons, PastLinks, PastSubsystem
<1>1. CASE AddSystem \/ AddSystemFault \/ CommitFails
  BY <1>1, AfterIs DEF AddSystem, AddSystemFault, CommitFails, Step
<1>2. CASE AddSubsystem \/ NoSubsystem
  BY <1>2 DEF AddSubsystem, NoSubsystem, NoMemory
<1>3. CASE NoDaemons
  BY <1>3 DEF NoDaemons, NoMemory
<1>4. CASE InitMaps
  BY <1>4 DEF InitMaps, InitMap, InitMapFault, Step, txn
<1>5. CASE LinkPorts \/ LinkPortsFault \/ AddDaemons \/ ReadRelease
             \/ WriteRelease \/ InitTrust \/ AclLimits \/ AclFault
  BY <1>5 DEF LinkPorts, LinkPortsFault, AddDaemons, ReadRelease,
     WriteRelease, InitTrust, AclLimits, AclFault, Step, txn
<1>6. CASE SkipProfiles \/ BeginProfile \/ AddEntry \/ UseDefault
             \/ MarkFactory
  <2>1. pc \in ProfileSteps /\ UNCHANGED <<system, short>>
    BY <1>6 DEF SkipProfiles, BeginProfile, AddEntry, UseDefault, MarkFactory,
                IsDefault, ProfileSteps, txn
  <2> QED
    BY <2>1 DEF ProfileSteps
<1>7. CASE Commit \/ ReplaceImage \/ BeginPass \/ PassSurvives \/ PassFault
             \/ ShowSystem \/ UNCHANGED vars
  BY <1>7 DEF Commit, ReplaceImage, BeginPass, PassSurvives, PassFault,
              ShowSystem, txn, vars
<1> QED
  BY <1>1, <1>2, <1>3, <1>4, <1>5, <1>6, <1>7 DEF Next

(* Once committed, the rows stay.                                          *)
LEMMA CommittedKept ==
  ASSUME TypeInv, [Next]_vars, pc \in Over
  PROVE  pc' \in Over /\ short' = short
<1>1. CASE Quiet
  BY <1>1, QuietStep DEF BeforeRelease, BeforeCommit, ProfileSteps, Over
<1>2. CASE ReadRelease \/ WriteRelease \/ CommitFails \/ ReplaceImage
             \/ BeginPass \/ PassSurvives \/ PassFault
  BY <1>2 DEF ReadRelease, WriteRelease, CommitFails, ReplaceImage, BeginPass,
              PassSurvives, PassFault, Step, txn, Over
<1> QED
  BY <1>1, <1>2 DEF Quiet

(* Nothing else changes what the user has seen.                             *)
LEMMA ShownKept ==
  ASSUME [Next]_vars, ~ShowSystem
  PROVE  shown' = shown
BY DEF Next, vars, images, txn, AddSystem, AddSystemFault,
   AddSubsystem, NoSubsystem, LinkPorts, LinkPortsFault, AddDaemons,
   NoDaemons, ReadRelease, WriteRelease, InitTrust, InitMaps, InitMap,
   InitMapFault, SkipProfiles, BeginProfile, AddEntry, UseDefault,
   MarkFactory, AclLimits, AclFault, Commit, CommitFails, ReplaceImage,
   BeginPass, PassSurvives, PassFault

(* UserInv is kept.                                                         *)
LEMMA UserStep ==
  ASSUME TypeInv, UserInv, [Next]_vars
  PROVE  UserInv'
<1>1. cfg' = cfg
  BY InputKept
<1>2. pc' \in PastSubsystem /\ "subsystems" \notin short' =>
          "subsystems" \in system'
  BY SubsystemKept DEF UserInv
<1>3. CASE ShowSystem
  <2>1. /\ pc' = pc /\ short' = short /\ system' = system
        /\ pc \in {"system", "done"}
    BY <1>3 DEF ShowSystem, txn
  <2>2. PICK committed \in {FALSE, pc = "done"} :
           shown' = [committed |-> committed,
                     output    |-> Cli!Output(View(committed))]
    BY <1>3 DEF ShowSystem
  <2> DEFINE output == Cli!Output(View(committed))
  <2>3. /\ committed \in BOOLEAN
        /\ committed => pc = "done"
        /\ shown'.committed = committed /\ shown'.output = output
    BY <2>2
  <2>4. IF committed /\ "subsystems" \in system
        THEN /\ output # Died
             /\ output.overview
             /\ \A kind \in {"fans", "leds", "psus", "temps"} :
                   ToSet(output[kind]) =
                       IF kind \in Registered
                       THEN ToSet(cfg.inventory[kind]) ELSE {}
        ELSE output = Died
    BY <2>3, OutputIs
  <2> HIDE DEF output
  <2>5. pc = "done" => pc \in Over /\ pc \in PastSubsystem
    BY DEF Over, PastAcl, PastProfiles, PastDefaultSchedule, PastQueues,
           PastDefaultQueue, PastCos, PastDscp, PastTrust, PastRelease,
           PastDaemons, PastLinks, PastSubsystem
  <2>6. committed /\ "subsystems" \notin short => output # Died
    BY <2>3, <2>4, <2>5 DEF UserInv
  <2>7. ShowEndsUnlessConfigured'
    BY <1>1, <2>1, <2>3, <2>4, <2>6 DEF ShowEndsUnlessConfigured, Registered
  <2>8. (shown.committed => pc \in Over)'
    BY <2>1, <2>3, <2>5
  <2> QED
    BY <1>2, <2>7, <2>8 DEF UserInv
<1>4. CASE ~ShowSystem
  <2>1. shown' = shown
    BY <1>4, ShownKept
  <2>2. shown.committed => pc' \in Over /\ short' = short
    BY CommittedKept DEF UserInv
  <2>3. ShowEndsUnlessConfigured'
    BY <1>1, <2>1, <2>2 DEF UserInv, ShowEndsUnlessConfigured, Registered
  <2>4. (shown.committed => pc \in Over)'
    BY <2>1, <2>2
  <2> QED
    BY <1>2, <2>3, <2>4 DEF UserInv
<1> QED
  BY <1>3, <1>4

(* "show system" ends the user's process only before the commit or after    *)
(* an allocation failed, and shows every fan, LED, power supply and sensor  *)
(* otherwise: ShowEndsUnlessConfigured, about cli_system_get_all.           *)
THEOREM ShowEnds == Spec => []ShowEndsUnlessConfigured
<1>1. Init => UserInv
  <2> SUFFICES ASSUME Init PROVE UserInv
    OBVIOUS
  <2>1. pc = "system" /\ shown = [committed |-> FALSE, output |-> <<>>]
    BY DEF Init, Cli!NothingShown, Cli!Nothing
  <2>2. pc \notin PastSubsystem
    BY <2>1 DEF Over, PastAcl, PastProfiles, PastDefaultSchedule, PastQueues,
           PastDefaultQueue, PastCos, PastDscp, PastTrust, PastRelease,
           PastDaemons, PastLinks, PastSubsystem
  <2>3. ShowEndsUnlessConfigured
    BY <2>1 DEF ShowEndsUnlessConfigured, Cli!Nothing
  <2> QED
    BY <2>1, <2>2, <2>3 DEF UserInv
<1>2. IInv /\ UserInv /\ [Next]_vars => UserInv'
  BY UserStep DEF IInv
<1>3. UserInv => ShowEndsUnlessConfigured
  BY DEF UserInv
<1> QED
  BY <1>1, <1>2, <1>3, IInvInvariance, PTL DEF Spec
=============================================================================
