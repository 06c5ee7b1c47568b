------------------------------- MODULE IpaProofs -------------------------------
(***************************************************************************)
(* Theorems about validate_ipa (src/ios_rehydrate/ipa.py), for every set   *)
(* of archives and every value of the limits: what it accepts is exactly   *)
(* what the reference WellFormed describes, and what it expands before it  *)
(* knows is bounded.                                                       *)
(***************************************************************************)
EXTENDS IpaArchive, FiniteSetTheorems, SequenceTheorems, WellFoundedInduction, TLAPS

Declared == archive.declared

\* What the reference asks of a record by itself.
RecordsRead(n) ==
  \A k \in 1..n :
    /\ Supported(Entries[k]) /\ Zip64Agrees(Entries[k]) /\ LocalAgrees(Entries[k])
DirectoryRead ==
  /\ archive.coherent /\ archive.adjacent
  /\ archive.directory_size <= MAX_CENTRAL_DIRECTORY_BYTES
  /\ Declared = archive.size
  /\ Declared <= MAX_ZIP_ENTRIES /\ Declared <= Len(Entries)
  /\ RecordsRead(Declared)

\* The stages up to the end of the directory.
DirectoryInv ==
  /\ stage \notin {"read", "done"} => FileRead
  /\ stage \notin {"read", "end", "done"} => EndFound
  /\ stage = "directory" =>
       /\ archive.coherent /\ archive.adjacent
       /\ archive.directory_size <= MAX_CENTRAL_DIRECTORY_BYTES
       /\ Declared <= MAX_ZIP_ENTRIES
       /\ index <= archive.size /\ index <= Len(Entries) /\ RecordsRead(index)
  /\ stage \in {"ranges", "sizes", "payloads", "shape", "members"} => DirectoryRead

\* Nothing is expanded that is not known to be bounded.
BoundsInv ==
  /\ stage \in {"sizes", "payloads", "shape", "members"} \/ found # "none"
       => Disjoint
  /\ stage \in {"payloads", "shape", "members"} \/ found # "none"
       => SizesValid(Members)

\* The payloads that were checked, and the one that is being inflated.
PayloadsRead(n) == \A k \in 1..n : Payload(Entries[k])
PayloadInv ==
  /\ stage = "payloads" => index <= Declared /\ PayloadsRead(index)
  /\ stage \in {"shape", "members"} => PayloadsRead(Declared)
  /\ stage = "payloads" /\ found # "none" =>
       /\ index < Declared /\ Entry.method = "deflated"
       /\ member = AsMember(Entry)
  /\ stage \notin {"payloads", "done"} => found = "none"

\* The decompressor: what it took in is part of a stream, and no more than
\* what it expands to was produced, but for the byte that shows a fault.
MemberType ==
  [outputs : Seq(Nat), ending : Nat \ {0}, file_size : Nat, crc : BOOLEAN]
Stuck ==
  /\ found = "IPA_ZIP_SIZE_MISMATCH"
  /\ cursor = Inf!Length /\ pending = 0 /\ Inf!Inside > 0
Inflating ==
  /\ cursor \in 0..Inf!Length /\ pending \in 0..cursor
  /\ produced \in 0..member.file_size
  /\ Inf!Taken <= member.ending /\ produced <= Inf!Output(Inf!Taken)
  /\ \A p \in 1..Inf!Taken : member.outputs[p] # Corrupt
Faults == {"IPA_ZIP_DATA_INVALID", "IPA_ZIP_SIZE_MISMATCH", "IPA_CRC_MISMATCH"}
InflateInv ==
  /\ member \in MemberType
  /\ cursor \in Nat /\ pending \in 0..cursor /\ produced \in Nat
  /\ found \in {"none", "reading", "intact"} \cup Faults
  /\ found \in {"reading", "intact"} => Inflating
  /\ found \in Faults => produced <= member.file_size + 1
  /\ found = "intact" => Inf!Intact(member)
  /\ found \in Faults => ~Inf!Intact(member) \/ Stuck

\* The paths that were taken: no two are the same, nothing is beneath a file.
Trees(n) ==
  \A j, k \in 1..n :
    /\ Canonical(Entries[j]) = Canonical(Entries[k]) => j = k
    /\ Canonical(Entries[j]) \in Ancestors(Canonical(Entries[k])) => Entries[j].dir
PathsTaken(n) ==
  /\ names = {Canonical(Entries[k]) : k \in 1..n}
  /\ implicit = UNION {Ancestors(Canonical(Entries[k])) : k \in 1..n}
  /\ \A name : name \in explicit.files <=>
       \E k \in 1..n : Canonical(Entries[k]) = name /\ ~Entries[k].dir
  /\ Trees(n) /\ \A k \in 1..n : TypeAgrees(Entries[k])
ShapeInv ==
  /\ explicit \in [dirs : SUBSET Seq(Parts), files : SUBSET Seq(Parts)]
  /\ stage \notin {"shape", "members", "done"} => PathsTaken(0)
  /\ stage = "shape" => index <= Declared /\ PathsTaken(index)
  /\ stage = "members" => PathsTaken(Declared)

VerdictInv ==
  /\ reason = "SUCCESS" => WellFormed
  /\ reason \notin {"SUCCESS", "PENDING"} => ~WellFormed \/ Stalled

IpaInv ==
  /\ archive \in Archives /\ TypeOK
  /\ DirectoryInv /\ BoundsInv /\ PayloadInv /\ InflateInv /\ ShapeInv
  /\ VerdictInv
-----------------------------------------------------------------------------
(* Sets of numbers                                                         *)

\* Every set of numbers that is not empty has a least one.
LEMMA Least ==
  ASSUME NEW T, T \subseteq Nat, T # {}
  PROVE  \E x \in T : \A y \in T : x <= y
<1>1. IsWellFoundedOn(OpToRel(<, Nat), Nat)
  BY NatLessThanWellFounded
<1>2. PICK x \in T : \A y \in T : ~(<<y, x>> \in OpToRel(<, Nat))
  BY <1>1, WFMin
<1>3. \A y \in T : ~(y < x)
  BY <1>2 DEF OpToRel
<1> QED BY <1>3

\* A set that holds 0, and with each number the next one, holds all up to N.
LEMMA UpTo ==
  ASSUME NEW N \in Nat, NEW T, 0 \in T,
         \A n \in 1 .. N : n - 1 \in T => n \in T
  PROVE  \A n \in 0 .. N : n \in T
<1> DEFINE Left == {n \in 0 .. N : n \notin T}
<1> SUFFICES ASSUME Left # {} PROVE FALSE
  OBVIOUS
<1>1. PICK n \in Left : \A m \in Left : n <= m
  <2>1. Left \subseteq Nat
    OBVIOUS
  <2> HIDE DEF Left
  <2> QED BY <2>1, Least
<1>2. n \in 1 .. N
  OBVIOUS
<1>3. n - 1 \in 0 .. N /\ n - 1 \notin Left
  BY <1>1, <1>2
<1> QED BY <1>2, <1>3

\* A set of numbers up to N that is not empty has a greatest one.
LEMMA Greatest ==
  ASSUME NEW N \in Nat, NEW T, T \subseteq 0..N, T # {}
  PROVE  \E x \in T : \A y \in T : y <= x
<1> DEFINE Down == {N - y : y \in T}
<1>1. Down \subseteq Nat /\ Down # {}
  <2>1. \A y \in T : N - y \in Nat
    OBVIOUS
  <2> QED BY <2>1
<1>2. PICK d \in Down : \A e \in Down : d <= e
  <2> HIDE DEF Down
  <2> QED BY <1>1, Least
<1>3. PICK x \in T : d = N - x
  BY <1>2
<1>4. \A y \in T : N - x <= N - y
  BY <1>2, <1>3
<1>5. \A y \in T : y <= x
  <2> SUFFICES ASSUME NEW y \in T PROVE y <= x
    OBVIOUS
  <2>1. y \in Nat /\ x \in Nat /\ N - x <= N - y
    BY <1>4
  <2> QED BY <2>1
<1> QED BY <1>5

\* The least of a set of numbers that is not empty.
LEMMA LeastIsMin ==
  ASSUME NEW T, T \subseteq Nat, T # {}
  PROVE  Min(T) \in T /\ \A y \in T : Min(T) <= y
<1>1. \E x \in T : \A y \in T : x <= y
  BY Least
<1> QED BY <1>1 DEF Min

\* A set of cardinality one is not empty.
LEMMA OneElement ==
  ASSUME NEW T, Cardinality(T) = 1
  PROVE  T # {}
BY FS_EmptySet
-----------------------------------------------------------------------------
(* What the bytes of a payload expand to                                   *)

\* f holds the sums of the first elements of s.
Sums(f, s) ==
  f = [p \in 0..Len(s) |-> IF p = 0 THEN 0 ELSE f[p - 1] + s[p]]

\* There is such a function, on numbers.
LEMMA SumsExist ==
  ASSUME NEW s \in Seq(Nat)
  PROVE  \E f \in [0..Len(s) -> Nat] : Sums(f, s)
<1> DEFINE N == Len(s)
           Ok(f, p) == f[p] = IF p = 0 THEN 0 ELSE f[p - 1] + s[p]
           T == {n \in 0..N : \E f \in [0..n -> Nat] : \A p \in 0..n : Ok(f, p)}
<1>1. N \in Nat
  OBVIOUS
<1>2. 0 \in T
  <2> DEFINE f == [p \in 0..0 |-> 0]
  <2>1. f \in [0..0 -> Nat] /\ \A p \in 0..0 : Ok(f, p)
    OBVIOUS
  <2>2. 0 \in 0..N
    OBVIOUS
  <2> HIDE DEF f, Ok
  <2> QED BY <2>1, <2>2
<1>3. ASSUME NEW n \in 1..N, n - 1 \in T PROVE n \in T
  <2>1. PICK g \in [0..(n - 1) -> Nat] : \A p \in 0..(n - 1) : Ok(g, p)
    BY <1>3
  <2> DEFINE f == [p \in 0..n |-> IF p = n THEN g[n - 1] + s[n] ELSE g[p]]
  <2>2. s[n] \in Nat /\ g[n - 1] \in Nat /\ n \in Nat /\ n >= 1
    OBVIOUS
  <2>3. f \in [0..n -> Nat]
    BY <2>2
  <2>4. ASSUME NEW p \in 0..n PROVE Ok(f, p)
    <3>1. CASE p = n
      BY <2>2, <3>1
    <3>2. CASE p # n
      <4>1. p \in 0..(n - 1) /\ f[p] = g[p] /\ (p # 0 => f[p - 1] = g[p - 1])
        BY <2>2, <3>2
      <4> QED BY <2>1, <4>1
    <3> QED BY <3>1, <3>2
  <2>5. n \in 0..N
    OBVIOUS
  <2> HIDE DEF f, Ok
  <2> QED BY <2>3, <2>4, <2>5
<1> HIDE DEF T, N
<1>4. \A n \in 0..N : n \in T
  BY <1>1, <1>2, <1>3, UpTo, Zenon
<1>5. PICK f \in [0..N -> Nat] : \A p \in 0..N : Ok(f, p)
  <2>1. N \in T
    BY <1>1, <1>4
  <2> HIDE DEF Ok
  <2> QED BY <2>1 DEF T
<1>6. Sums(f, s)
  BY <1>5 DEF Sums, N
<1> QED BY <1>6 DEF N

\* What more bytes expand to is not less.
LEMMA SumsGrow ==
  ASSUME NEW s \in Seq(Nat), NEW f \in [0..Len(s) -> Nat], Sums(f, s),
         NEW p \in 0..Len(s), NEW q \in p..Len(s)
  PROVE  f[p] <= f[q]
<1> DEFINE N == Len(s)
           T == {n \in 0..N : p <= n => f[p] <= f[n]}
<1>1. N \in Nat
  OBVIOUS
<1>2. 0 \in T
  OBVIOUS
<1>3. ASSUME NEW n \in 1..N, n - 1 \in T PROVE n \in T
  <2>1. f[n] = f[n - 1] + s[n]
    <3>1. n \in 0..Len(s) /\ n # 0
      <4> HIDE DEF T
      <4>1. n \in 1..Len(s) /\ Len(s) \in Nat
        BY <1>1
      <4> QED BY <4>1
    <3> QED BY <3>1, Zenon DEF Sums
  <2>2. s[n] \in Nat /\ f[n - 1] \in Nat /\ f[n] \in Nat /\ f[p] \in Nat
    <3> HIDE DEF T
    <3>1. n \in 1..Len(s) /\ n \in 0..Len(s) /\ n - 1 \in 0..Len(s)
      BY <1>1
    <3>2. s[n] \in Nat
      BY <3>1, ElementOfSeq, Zenon
    <3> QED BY <3>1, <3>2, Zenon
  <2>3. p <= n - 1 => f[p] <= f[n - 1]
    BY <1>3
  <2>4. n \in 0..N /\ n \in Nat /\ p \in Nat
    BY <1>1
  <2>5. p <= n => f[p] <= f[n]
    <3> HIDE DEF T, N
    <3>1. p <= n => p = n \/ p <= n - 1
      BY <2>4
    <3> QED BY <2>1, <2>2, <2>3, <3>1
  <2> QED BY <2>4, <2>5
<1> HIDE DEF T, N
<1>4. \A n \in 0..N : n \in T
  BY <1>1, <1>2, <1>3, UpTo, Zenon
<1> QED BY <1>4 DEF T, N

\* What bytes expand to is a number for every count of them, and grows with it.
LEMMA OutputsGrow ==
  ASSUME NEW m \in MemberType
  PROVE  /\ \A p \in 0..Len(m.outputs) : Inf!Outputs(m)[p] \in Nat
         /\ \A p \in 0..Len(m.outputs) : \A q \in p..Len(m.outputs) :
              Inf!Outputs(m)[p] <= Inf!Outputs(m)[q]
         /\ Inf!Outputs(m)[0] = 0
<1> DEFINE s == m.outputs
           f == Inf!Outputs(m)
<1>1. s \in Seq(Nat)
  BY DEF MemberType
<1>2. f \in [0..Len(s) -> Nat] /\ Sums(f, s)
  <2>1. PICK g \in [0..Len(s) -> Nat] : Sums(g, s)
    BY <1>1, SumsExist
  <2>2. \E h : Sums(h, s)
    BY <2>1
  <2>3. Sums(f, s)
    BY <2>2 DEF Sums, Inf!Outputs
  <2>4. \A h : Sums(h, s) => h = g
    \* A function with these sums is determined by them.
    <3> SUFFICES ASSUME NEW h, Sums(h, s) PROVE h = g
      OBVIOUS
    <3> DEFINE N == Len(s)
               T == {n \in 0..N : h[n] = g[n]}
    <3>1. N \in Nat /\ 0 \in 0..N
      BY <1>1
    <3>2. \A n \in 0..N : /\ h[n] = IF n = 0 THEN 0 ELSE h[n - 1] + s[n]
                          /\ g[n] = IF n = 0 THEN 0 ELSE g[n - 1] + s[n]
      BY <2>1 DEF Sums
    <3>3. 0 \in T
      BY <3>1, <3>2
    <3>4. ASSUME NEW n \in 1..N, n - 1 \in T PROVE n \in T
      <4>1. n \in 0..N /\ n # 0 /\ h[n - 1] = g[n - 1]
        BY <3>1, <3>4
      <4> QED BY <3>2, <4>1
    <3>5. h = [n \in 0..N |-> h[n]] /\ g = [n \in 0..N |-> g[n]]
      BY <2>1 DEF Sums
    <3> HIDE DEF T, N
    <3>6. \A n \in 0..N : n \in T
      BY <3>1, <3>3, <3>4, UpTo, Zenon
    <3> QED BY <3>5, <3>6 DEF T
  <2> QED BY <2>1, <2>3, <2>4
<1>3. f[0] = 0
  BY <1>1, <1>2 DEF Sums
<1> HIDE DEF f, s
<1>4. \A p \in 0..Len(s) : \A q \in p..Len(s) : f[p] <= f[q]
  BY <1>1, <1>2, SumsGrow
<1> QED BY <1>2, <1>3, <1>4 DEF f, s

\* The same of the member that is being inflated.
LEMMA OutputGrows ==
  ASSUME member \in MemberType
  PROVE  /\ Inf!Length \in Nat
         /\ \A p \in 0..Inf!Length : Inf!Output(p) \in Nat
         /\ \A p \in 0..Inf!Length : \A q \in p..Inf!Length :
              Inf!Output(p) <= Inf!Output(q)
<1>1. Len(member.outputs) \in Nat
  BY DEF MemberType
<1> QED BY <1>1, OutputsGrow DEF Inf!Length, Inf!Output

-----------------------------------------------------------------------------
(* One call of the decompressor                                            *)

\* The limit given to a call is a number, and never the 0 that means none.
LEMMA LimitType ==
  ASSUME member \in MemberType, produced \in 0..member.file_size
  PROVE  Inf!Limit \in Nat \ {0}
<1>1. member.file_size \in Nat
  BY DEF MemberType
<1> QED BY <1>1, LimitsAssumption DEF LimitsAssumption, Inf!Limit, Inf!Smaller

\* What a call finds: it takes in no more than there is, what it produces is
\* part of what was taken in, and it passes no byte that is corrupt.  It does
\* neither take in nor produce something only where there is nothing left,
\* and never produces more than its limit.
LEMMA Call ==
  ASSUME member \in MemberType, Inflating
  PROVE  /\ Inf!Stop \in Inf!Taken..Inf!Length /\ Inf!Stop <= member.ending
         /\ Inf!Stop <= cursor
         /\ Inf!TakenAfter \in Inf!Taken..Inf!Stop
         /\ Inf!HitsCorrupt =>
              \E p \in 1..Inf!Stop : member.outputs[p] = Corrupt
         /\ ~Inf!HitsCorrupt =>
              /\ Inf!ProducedAfter \in Nat
              /\ Inf!ProducedAfter <= Inf!Output(Inf!TakenAfter)
              /\ \A p \in 1..Inf!TakenAfter : member.outputs[p] # Corrupt
         /\ ~Inf!HitsCorrupt =>
              /\ Inf!ProducedAfter >= produced
              /\ Inf!ProducedAfter <= produced + Inf!Limit
              /\ \/ Inf!TakenAfter > Inf!Taken
                 \/ Inf!ProducedAfter > produced
                 \/ /\ Inf!Stop = Inf!Taken
                    /\ Inf!ProducedAfter = Inf!Output(Inf!Taken)
<1> DEFINE T == Inf!Taken
           S == Inf!Stop
           L == Inf!Length
           F == Inf!Fitting
           x == Inf!LastFitting
           b == produced + Inf!Limit
           clean(p) == \A q \in (T + 1)..p : member.outputs[q] # Corrupt
<1>1. /\ L \in Nat /\ \A p \in 0..L : Inf!Output(p) \in Nat
      /\ \A p \in 0..L : \A q \in p..L : Inf!Output(p) <= Inf!Output(q)
  BY OutputGrows
<1>2. /\ produced \in Nat /\ Inf!Limit \in Nat /\ b \in Nat /\ b > produced
      /\ member.ending \in Nat \ {0}
  <2>1. /\ produced \in 0..member.file_size /\ member.file_size \in Nat
        /\ member.ending \in Nat \ {0}
    BY DEF Inflating, MemberType
  <2>2. Inf!Limit \in Nat \ {0}
    BY <2>1, LimitType
  <2> QED BY <2>1, <2>2
<1>3. /\ cursor \in 0..L /\ pending \in 0..cursor /\ T = cursor - pending
      /\ T <= member.ending /\ \A p \in 1..T : member.outputs[p] # Corrupt
  BY DEF Inflating, Inf!Taken
<1>4. S = IF cursor < member.ending THEN cursor ELSE member.ending
  BY DEF Inf!Stop, Inf!Smaller
<1>5. /\ T \in Nat /\ S \in T..L /\ S <= member.ending /\ S <= cursor
  BY <1>1, <1>2, <1>3, <1>4
<1>6. F = {p \in T..S : clean(p) /\ Inf!Output(p) <= b}
  BY DEF Inf!Fitting
<1>7. F # {} => x \in F /\ \A q \in F : q <= x
  <2> SUFFICES ASSUME F # {} PROVE x \in F /\ \A q \in F : q <= x
    OBVIOUS
  <2>1. F \subseteq 0..S /\ S \in Nat
    BY <1>5, <1>6
  <2>2. \E y \in F : \A q \in F : q <= y
    <3> HIDE DEF F, S
    <3> QED BY <2>1, Greatest, Zenon
  <2> QED BY <2>2, Zenon DEF Inf!LastFitting
<1>8. Inf!HitsCorrupt <=> F # {} /\ x < S /\ member.outputs[x + 1] = Corrupt
  BY DEF Inf!HitsCorrupt
<1>9. /\ Inf!TakenAfter = IF F = {} THEN T ELSE IF x = S THEN S ELSE x + 1
      /\ Inf!ProducedAfter = IF F # {} /\ x = S THEN Inf!Output(S) ELSE b
  <2>1. Inf!TakenAfter = IF F = {} THEN T ELSE IF x = S THEN S ELSE x + 1
    <3>1. Inf!TakenAfter = IF F = {} THEN T ELSE Inf!Smaller(x + 1, S)
      BY Zenon DEF Inf!TakenAfter
    <3>2. F # {} => x \in T..S
      BY <1>6, <1>7
    <3> HIDE DEF F, x, S, T
    <3> QED BY <1>5, <3>1, <3>2 DEF Inf!Smaller
  <2>2. Inf!ProducedAfter = IF F # {} /\ x = S THEN Inf!Output(S) ELSE b
    BY Zenon DEF Inf!ProducedAfter
  <2> QED BY <2>1, <2>2
<1>10. F # {} => x \in T..S /\ clean(x) /\ Inf!Output(x) <= b
  BY <1>6, <1>7
<1> HIDE DEF F, x, b, T, S, L
<1>11. Inf!TakenAfter \in T..S
  BY <1>5, <1>9, <1>10
<1>12. Inf!HitsCorrupt => \E p \in 1..S : member.outputs[p] = Corrupt
  <2> SUFFICES ASSUME Inf!HitsCorrupt
               PROVE  \E p \in 1..S : member.outputs[p] = Corrupt
    OBVIOUS
  <2>1. x + 1 \in 1..S
    BY <1>5, <1>8, <1>10
  <2> QED BY <1>8, <2>1
<1>13. ASSUME ~Inf!HitsCorrupt
       PROVE  /\ Inf!ProducedAfter \in Nat
              /\ Inf!ProducedAfter <= Inf!Output(Inf!TakenAfter)
              /\ \A p \in 1..Inf!TakenAfter : member.outputs[p] # Corrupt
  <2>1. CASE F = {}
    <3>1. T \in T..S /\ clean(T)
      BY <1>5
    <3>2. ~(Inf!Output(T) <= b)
      BY <1>6, <2>1, <3>1 DEF T, b, F, S
    <3>3. Inf!Output(T) \in Nat
      BY <1>1, <1>5
    <3> QED BY <1>2, <1>3, <1>9, <2>1, <3>2, <3>3
  <2>2. CASE F # {} /\ x = S
    <3>1. Inf!Output(S) \in Nat
      BY <1>1, <1>5
    <3>2. ASSUME NEW p \in 1..S PROVE member.outputs[p] # Corrupt
      <4>1. p \in 1..T \/ p \in (T + 1)..x
        BY <1>5, <2>2
      <4> QED BY <1>3, <1>10, <2>2, <4>1
    <3> QED BY <1>9, <2>2, <3>1, <3>2
  <2>3. CASE F # {} /\ x # S
    <3>1. x + 1 \in T..S /\ x < S /\ x \in Nat
      BY <1>5, <1>10, <2>3
    <3>2. member.outputs[x + 1] # Corrupt
      BY <1>8, <1>13, <2>3, <3>1
    <3>3. clean(x + 1)
      <4> SUFFICES ASSUME NEW q \in (T + 1)..(x + 1)
                   PROVE  member.outputs[q] # Corrupt
        OBVIOUS
      <4>1. q \in (T + 1)..x \/ q = x + 1
        BY <1>5, <3>1
      <4> QED BY <1>10, <2>3, <3>2, <4>1
    <3>4. x + 1 \notin F
      BY <1>7, <2>3, <3>1
    <3>5. ~(Inf!Output(x + 1) <= b)
      BY <1>6, <3>1, <3>3, <3>4
    <3>6. Inf!Output(x + 1) \in Nat
      BY <1>1, <1>5, <3>1
    <3>7. ASSUME NEW p \in 1..(x + 1) PROVE member.outputs[p] # Corrupt
      <4>1. p \in 1..T \/ p \in (T + 1)..(x + 1)
        BY <1>5, <3>1
      <4> QED BY <1>3, <3>3, <4>1
    <3> QED BY <1>2, <1>9, <2>3, <3>5, <3>6, <3>7
  <2> QED BY <2>1, <2>2, <2>3
<1>14. ASSUME ~Inf!HitsCorrupt
       PROVE  /\ Inf!ProducedAfter >= produced /\ Inf!ProducedAfter <= b
              /\ \/ Inf!TakenAfter > T \/ Inf!ProducedAfter > produced
                 \/ S = T /\ Inf!ProducedAfter = Inf!Output(T)
  <2>1. CASE F # {} /\ x = S
    <3>1. /\ Inf!Output(T) <= Inf!Output(S)
          /\ Inf!Output(T) \in Nat /\ Inf!Output(S) \in Nat
      BY <1>1, <1>5
    <3>2. produced <= Inf!Output(T)
      BY DEF Inflating, T
    <3>3. Inf!ProducedAfter = Inf!Output(S) /\ Inf!TakenAfter = S
      BY <1>9, <2>1
    <3> QED BY <1>2, <1>5, <1>10, <2>1, <3>1, <3>2, <3>3
  <2>2. CASE ~(F # {} /\ x = S)
    BY <1>2, <1>9, <2>2
  <2> QED BY <2>1, <2>2
<1> QED BY <1>5, <1>11, <1>12, <1>13, <1>14 DEF T, S, L, b
-----------------------------------------------------------------------------
(* The steps of the integrity check of one deflated member                 *)

LEMMA BeginsStep ==
  ASSUME InflateInv, NEW m \in MemberType, Inf!Begins(m)
  PROVE  InflateInv'
<1>1. /\ member' = m /\ cursor' = 0 /\ pending' = 0 /\ produced' = 0
      /\ found' = "reading"
  BY DEF Inf!Begins
<1>2. m.outputs \in Seq(Nat) /\ m.ending \in Nat \ {0} /\ m.file_size \in Nat
  BY DEF MemberType
<1>3. Inf!Length' = Len(m.outputs) /\ Inf!Taken' = 0
  BY <1>1 DEF Inf!Length, Inf!Taken
<1>4. Inf!Output(Inf!Taken)' = 0
  BY <1>1, <1>3, OutputsGrow DEF Inf!Output
<1>5. Inflating'
  BY <1>1, <1>2, <1>3, <1>4 DEF Inflating
<1> QED BY <1>1, <1>2, <1>5 DEF InflateInv, Faults, MemberType

\* What stays true while only found changes, and is shown of it.
LEMMA SaysStep ==
  ASSUME InflateInv, found = "reading", NEW what \in {"intact"} \cup Faults,
         Inf!Says(what), what = "intact" => Inf!Intact(member),
         what \in Faults =>
           \/ ~Inf!Intact(member)
           \/ /\ what = "IPA_ZIP_SIZE_MISMATCH"
              /\ cursor = Inf!Length /\ pending = 0 /\ Inf!Inside > 0
  PROVE  InflateInv'
<1>1. /\ found' = what /\ member' = member /\ cursor' = cursor
      /\ pending' = pending /\ produced' = produced
  BY DEF Inf!Says
<1>2. /\ Inf!Length' = Inf!Length /\ Inf!Taken' = Inf!Taken
      /\ Inf!Inside' = Inf!Inside /\ Inf!Output(Inf!Taken)' = Inf!Output(Inf!Taken)
      /\ Inf!Intact(member)' = Inf!Intact(member)
  BY <1>1 DEF Inf!Length, Inf!Taken, Inf!Inside, Inf!Output, Inf!Intact
<1>3. Inflating' /\ produced' <= member'.file_size + 1
  BY <1>1, <1>2 DEF InflateInv, Inflating, MemberType
<1>4. what \in Faults => ~Inf!Intact(member)' \/ Stuck'
  BY <1>1, <1>2 DEF Stuck
<1>5. what = "intact" => what \notin Faults
  BY DEF Faults
<1> QED BY <1>1, <1>2, <1>3, <1>4, <1>5 DEF InflateInv, MemberType, Faults

LEMMA TakesChunkStep == InflateInv /\ Inf!TakesChunk => InflateInv'
<1> SUFFICES ASSUME InflateInv, Inf!TakesChunk PROVE InflateInv'
  OBVIOUS
<1>1. /\ found = "reading" /\ pending = 0 /\ cursor < Inf!Length
      /\ cursor' = Inf!Smaller(cursor + INTEGRITY_CHUNK, Inf!Length)
      /\ pending' = cursor' - cursor
      /\ member' = member /\ produced' = produced /\ found' = "reading"
  BY DEF Inf!TakesChunk
<1>2. member \in MemberType /\ Inflating /\ Inf!Length \in Nat
  BY <1>1, OutputGrows DEF InflateInv
<1>3. cursor \in 0..Inf!Length
  BY <1>2 DEF Inflating
<1>4. cursor' \in cursor..Inf!Length
  BY <1>1, <1>2, <1>3, LimitsAssumption DEF LimitsAssumption, Inf!Smaller
<1>5. pending' \in 0..cursor' /\ cursor' - pending' = cursor - pending
  BY <1>1, <1>2, <1>3, <1>4
<1>6. /\ Inf!Length' = Inf!Length /\ Inf!Taken' = Inf!Taken
      /\ Inf!Output(Inf!Taken)' = Inf!Output(Inf!Taken)
  BY <1>1, <1>5 DEF Inf!Length, Inf!Taken, Inf!Output
<1>7. cursor' \in Nat /\ cursor' \in 0..Inf!Length
  BY <1>2, <1>3, <1>4
<1>8. Inflating'
  BY <1>1, <1>2, <1>5, <1>6, <1>7 DEF Inflating
<1> QED BY <1>1, <1>2, <1>5, <1>7, <1>8 DEF InflateInv, MemberType, Faults

\* What the guard of ipa.py:560 refuses: a call that neither takes in nor
\* delivers a byte, before the end.
Idles ==
  /\ ~(Inf!EofAfter /\ (cursor > Inf!TakenAfter \/ cursor # Inf!Length))
  /\ Inf!TakenAfter = Inf!Taken /\ Inf!ProducedAfter = produced

\* It never has anything to refuse.
LEMMA NeverIdles ==
  ASSUME member \in MemberType, Inflating, pending > 0, ~Inf!HitsCorrupt
  PROVE  ~Idles
<1> SUFFICES ASSUME Idles PROVE FALSE
  OBVIOUS
<1>1. /\ member.ending \in Nat \ {0} /\ Inf!Length \in Nat
      /\ cursor \in 0..Inf!Length /\ pending \in 0..cursor
      /\ Inf!Taken = cursor - pending
  BY OutputGrows DEF MemberType, Inflating, Inf!Taken
<1>2. Inf!Taken \in Nat /\ cursor > Inf!Taken
  BY <1>1
<1>3. /\ \/ Inf!TakenAfter > Inf!Taken
         \/ Inf!ProducedAfter > produced
         \/ /\ Inf!Stop = Inf!Taken
            /\ Inf!ProducedAfter = Inf!Output(Inf!Taken)
      /\ Inf!ProducedAfter \in Nat /\ produced \in Nat
  BY Call DEF Inflating, MemberType
<1>4. Inf!Stop = Inf!Taken /\ Inf!ProducedAfter = Inf!Output(Inf!Taken)
  BY <1>2, <1>3 DEF Idles
<1>5. Inf!Taken = member.ending
  BY <1>1, <1>2, <1>4 DEF Inf!Stop, Inf!Smaller
<1>6. Inf!EofAfter /\ cursor > Inf!TakenAfter
  BY <1>2, <1>4, <1>5 DEF Idles, Inf!EofAfter
<1> QED BY <1>6 DEF Idles

\* A call that finds a fault in what it delivers.
Judges(what) ==
  /\ found' = what /\ produced' = Inf!ProducedAfter
  /\ member' = member /\ cursor' = cursor /\ pending' = pending

\* It delivers at most the byte that shows the fault.
LEMMA JudgesStep ==
  ASSUME InflateInv, found = "reading", pending > 0, ~Inf!HitsCorrupt,
         NEW what \in Faults, Judges(what), ~Inf!Intact(member)
  PROVE  InflateInv'
<1>1. /\ member \in MemberType /\ Inflating /\ cursor \in Nat
      /\ pending \in 0..cursor
  BY DEF InflateInv
<1>2. Inf!ProducedAfter \in Nat /\ Inf!ProducedAfter <= produced + Inf!Limit
  BY <1>1, Call, Zenon
<1>3. member.file_size \in Nat /\ produced \in 0..member.file_size
  BY <1>1 DEF Inflating, MemberType
<1>4. Inf!Limit <= member.file_size - produced + 1 /\ Inf!Limit \in Nat
  BY <1>1, <1>3, LimitType, LimitsAssumption
     DEF Inf!Limit, Inf!Smaller, LimitsAssumption
<1>5. produced' \in Nat /\ produced' <= member'.file_size + 1
  BY <1>2, <1>3, <1>4 DEF Judges
<1>6. ~Inf!Intact(member)'
  BY DEF Judges, Inf!Intact
<1> QED BY <1>1, <1>5, <1>6 DEF InflateInv, Judges, Faults, MemberType

\* A call takes in and produces what Call says, or finds a fault.
LEMMA DecompressesStep == InflateInv /\ Inf!Decompresses => InflateInv'
<1> SUFFICES ASSUME InflateInv, Inf!Decompresses PROVE InflateInv'
  OBVIOUS
<1>1. /\ found = "reading" /\ pending > 0 /\ member \in MemberType /\ Inflating
      /\ Inf!Length \in Nat
  BY OutputGrows DEF InflateInv, Inf!Decompresses
<1>2. /\ member.ending \in Nat \ {0} /\ member.file_size \in Nat
      /\ Inf!Length = Len(member.outputs) /\ cursor \in 0..Inf!Length
      /\ pending \in 0..cursor /\ Inf!Taken \in Nat
  BY <1>1 DEF MemberType, Inf!Length, Inflating, Inf!Taken
<1>3. /\ Inf!Stop \in Inf!Taken..Inf!Length /\ Inf!Stop <= member.ending
      /\ Inf!Stop <= cursor /\ Inf!TakenAfter \in Inf!Taken..Inf!Stop
      /\ Inf!HitsCorrupt => \E p \in 1..Inf!Stop : member.outputs[p] = Corrupt
      /\ ~Inf!HitsCorrupt =>
           /\ Inf!ProducedAfter \in Nat
           /\ Inf!ProducedAfter <= Inf!Output(Inf!TakenAfter)
           /\ \A p \in 1..Inf!TakenAfter : member.outputs[p] # Corrupt
  BY <1>1, Call, Zenon
<1>4. Inf!Intact(member) =>
        /\ member.ending = Inf!Length
        /\ Inf!Output(Inf!Length) = member.file_size
        /\ \A p \in 1..Inf!Length : member.outputs[p] # Corrupt
  BY DEF Inf!Intact, Inf!Length, Inf!Output
<1>5. \/ Inf!HitsCorrupt /\ Inf!Says("IPA_ZIP_DATA_INVALID")
      \/ /\ ~Inf!HitsCorrupt /\ Inf!ProducedAfter > member.file_size
         /\ Judges("IPA_ZIP_SIZE_MISMATCH")
      \/ /\ ~Inf!HitsCorrupt /\ ~(Inf!ProducedAfter > member.file_size)
         /\ Inf!EofAfter /\ (cursor > Inf!TakenAfter \/ cursor # Inf!Length)
         /\ Judges("IPA_ZIP_DATA_INVALID")
      \/ /\ ~Inf!HitsCorrupt /\ Idles
      \/ /\ ~Inf!HitsCorrupt /\ ~(Inf!ProducedAfter > member.file_size)
         /\ produced' = Inf!ProducedAfter /\ pending' = cursor - Inf!TakenAfter
         /\ member' = member /\ cursor' = cursor /\ found' = found
  BY Zenon DEF Inf!Decompresses, Idles, Judges
<1>6. CASE Inf!HitsCorrupt /\ Inf!Says("IPA_ZIP_DATA_INVALID")
  <2>1. ~Inf!Intact(member)
    BY <1>2, <1>3, <1>4, <1>6
  <2> QED BY <1>1, <1>6, <2>1, SaysStep DEF Faults
<1>7. CASE /\ ~Inf!HitsCorrupt /\ Inf!ProducedAfter > member.file_size
           /\ Judges("IPA_ZIP_SIZE_MISMATCH")
  <2>1. ASSUME Inf!Intact(member) PROVE FALSE
    <3>1. /\ Inf!Output(Inf!TakenAfter) <= Inf!Output(Inf!Length)
          /\ Inf!Output(Inf!TakenAfter) \in Nat /\ Inf!Output(Inf!Length) \in Nat
      <4>1. /\ Inf!TakenAfter \in 0..Inf!Length
            /\ Inf!Length \in Inf!TakenAfter..Inf!Length
            /\ Inf!Length \in 0..Inf!Length
        BY <1>1, <1>2, <1>3
      <4> QED BY <1>1, <4>1, OutputGrows
    <3> QED BY <1>2, <1>3, <1>4, <1>7, <2>1, <3>1
  <2> QED BY <1>1, <1>7, <2>1, JudgesStep DEF Faults
<1>8. CASE /\ ~Inf!HitsCorrupt
           /\ Inf!EofAfter /\ (cursor > Inf!TakenAfter \/ cursor # Inf!Length)
           /\ Judges("IPA_ZIP_DATA_INVALID")
  <2>1. Inf!TakenAfter = member.ending
    BY <1>8 DEF Inf!EofAfter
  <2>2. ~Inf!Intact(member)
    BY <1>2, <1>3, <1>4, <1>8, <2>1
  <2> QED BY <1>1, <1>8, <2>2, JudgesStep DEF Faults
<1>9. CASE /\ ~Inf!HitsCorrupt /\ ~(Inf!ProducedAfter > member.file_size)
           /\ produced' = Inf!ProducedAfter /\ pending' = cursor - Inf!TakenAfter
           /\ member' = member /\ cursor' = cursor /\ found' = found
  <2>1. /\ Inf!TakenAfter \in 0..cursor /\ Inf!TakenAfter <= member.ending
        /\ produced' \in 0..member.file_size
    BY <1>2, <1>3, <1>9
  <2>2. pending' \in 0..cursor /\ cursor' - pending' = Inf!TakenAfter
    BY <1>2, <1>9, <2>1
  <2>3. /\ Inf!Length' = Inf!Length /\ Inf!Taken' = Inf!TakenAfter
        /\ Inf!Output(Inf!Taken)' = Inf!Output(Inf!TakenAfter)
    BY <1>9, <2>2 DEF Inf!Length, Inf!Taken, Inf!Output
  <2>4. Inflating'
    BY <1>2, <1>3, <1>9, <2>1, <2>2, <2>3 DEF Inflating
  <2>5. produced' \in Nat /\ cursor \in Nat
    BY <1>2, <2>1
  <2> QED BY <1>1, <1>9, <2>2, <2>4, <2>5 DEF InflateInv, MemberType, Faults
<1>10. CASE ~Inf!HitsCorrupt /\ Idles
  BY <1>1, <1>10, NeverIdles DEF Inf!Decompresses
<1> QED BY <1>5, <1>6, <1>7, <1>8, <1>9, <1>10

\* A payload that is read to its end is intact, or what is wrong was found.
LEMMA EndsPayloadStep == InflateInv /\ Inf!EndsPayload => InflateInv'
<1> SUFFICES ASSUME InflateInv, Inf!EndsPayload PROVE InflateInv'
  OBVIOUS
<1>1. /\ found = "reading" /\ pending = 0 /\ cursor = Inf!Length
      /\ member \in MemberType /\ Inflating /\ Inf!Length \in Nat
  BY OutputGrows DEF InflateInv, Inf!EndsPayload
<1>2. /\ Inf!Taken = Inf!Length /\ Inf!Length = Len(member.outputs)
      /\ Inf!Length <= member.ending /\ member.ending \in Nat
      /\ produced \in Nat /\ Inf!Output(Inf!Length) \in Nat
      /\ produced <= Inf!Output(Inf!Length) /\ member.crc \in BOOLEAN
      /\ \A p \in 1..Inf!Length : member.outputs[p] # Corrupt
  <2>1. Inf!Taken = Inf!Length /\ Inf!Length = Len(member.outputs)
    BY <1>1 DEF Inf!Taken, Inf!Length
  <2>2. Inf!Output(Inf!Length) \in Nat
    <3>1. Inf!Length \in 0..Inf!Length
      BY <1>1
    <3> QED BY <1>1, <3>1, OutputGrows
  <2>3. member.ending \in Nat /\ member.crc \in BOOLEAN /\ produced \in Nat
    BY <1>1 DEF MemberType, InflateInv
  <2> QED BY <1>1, <2>1, <2>2, <2>3 DEF Inflating
<1>3. Inf!Inside = Inf!Output(Inf!Length) - produced
  BY <1>2 DEF Inf!Inside
<1>4. Inf!AtEof <=> Inf!Length = member.ending /\ Inf!Inside = 0
  BY <1>2 DEF Inf!AtEof
<1>5. Inf!Intact(member) <=>
        /\ member.ending = Inf!Length /\ member.crc
        /\ Inf!Output(Inf!Length) = member.file_size
  BY <1>2 DEF Inf!Intact, Inf!Output
<1>6. \/ /\ ~Inf!AtEof \/ produced # member.file_size
         /\ Inf!Says("IPA_ZIP_SIZE_MISMATCH")
      \/ ~member.crc /\ Inf!Says("IPA_CRC_MISMATCH")
      \/ /\ Inf!AtEof /\ produced = member.file_size /\ member.crc
         /\ Inf!Says("intact")
  BY Zenon DEF Inf!EndsPayload
<1>7. CASE /\ ~Inf!AtEof \/ produced # member.file_size
           /\ Inf!Says("IPA_ZIP_SIZE_MISMATCH")
  <2>1. Inf!Intact(member) => Inf!Inside > 0
    BY <1>2, <1>3, <1>4, <1>5, <1>7
  <2> QED BY <1>1, <1>7, <2>1, SaysStep DEF Faults
<1>8. CASE ~member.crc /\ Inf!Says("IPA_CRC_MISMATCH")
  BY <1>1, <1>5, <1>8, SaysStep DEF Faults
<1>9. CASE /\ Inf!AtEof /\ produced = member.file_size /\ member.crc
           /\ Inf!Says("intact")
  <2>1. Inf!Intact(member)
    BY <1>2, <1>3, <1>4, <1>5, <1>9
  <2>2. "intact" \notin Faults
    BY DEF Faults
  <2> QED BY <1>1, <1>9, <2>1, <2>2, SaysStep
<1> QED BY <1>6, <1>7, <1>8, <1>9

LEMMA InflatesStep == InflateInv /\ Inf!Inflates => InflateInv'
BY TakesChunkStep, DecompressesStep, EndsPayloadStep DEF Inf!Inflates
-----------------------------------------------------------------------------
(* Archives and their members                                              *)

LEMMA ArchiveFacts ==
  ASSUME archive \in Archives
  PROVE  /\ Entries \in Seq(EntryType) /\ Len(Entries) \in Nat
         /\ Declared \in Nat /\ archive.size \in Nat
         /\ archive.directory_offset \in Nat /\ archive.length \in Nat
         /\ archive.directory_size \in Nat /\ archive.size <= archive.directory_size
         /\ \A k \in 1..Len(Entries) : Entries[k] \in EntryType
<1>1. archive \in ArchiveType
  BY ArchivesAssumption DEF ArchivesAssumption
<1>2. /\ Entries \in Seq(EntryType) /\ Declared \in Nat /\ archive.size \in Nat
      /\ archive.directory_offset \in Nat /\ archive.length \in Nat
      /\ archive.directory_size \in Nat
  BY <1>1 DEF ArchiveType, Entries, Declared
<1>3. archive.size <= archive.directory_size
  BY ArchivesAssumption, Zenon DEF ArchivesAssumption
<1> HIDE DEF EntryType
<1>4. Len(Entries) \in Nat /\ \A k \in 1..Len(Entries) : Entries[k] \in EntryType
  BY <1>2
<1> QED BY <1>2, <1>3, <1>4

LEMMA EntryFacts ==
  ASSUME NEW e \in EntryType
  PROVE  /\ e.name \in Seq(Parts) /\ e.offset \in Nat /\ e.descriptors \subseteq Nat
         /\ e.descriptor \in BOOLEAN /\ e.dir \in BOOLEAN
         /\ DataEnd(e) \in Nat /\ e.offset < DataEnd(e)
         /\ AsMember(e) \in MemberType
<1>1. /\ e.name \in Seq(Parts) /\ e.offset \in Nat /\ e.descriptors \subseteq Nat
      /\ e.descriptor \in BOOLEAN /\ e.dir \in BOOLEAN
      /\ e.outputs \in Seq(Nat) /\ e.ending \in Nat \ {0} /\ e.file_size \in Nat
      /\ e.crc \in BOOLEAN
  BY DEF EntryType
<1>2. Len(e.outputs) \in Nat
  BY <1>1
<1>3. DataEnd(e) \in Nat /\ e.offset < DataEnd(e)
  BY <1>1, <1>2 DEF DataEnd, DataOffset
<1> QED BY <1>1, <1>3 DEF AsMember, MemberType

LEMMA MembersAre ==
  ASSUME archive \in Archives, Declared <= Len(Entries)
  PROVE  /\ DOMAIN Members = 1..Declared /\ Len(Members) = Declared
         /\ \A k \in 1..Declared : Members[k] = Entries[k]
<1>1. Entries \in Seq(EntryType) /\ Declared \in Nat /\ Len(Entries) \in Nat
  BY ArchiveFacts
<1> HIDE DEF EntryType
<1> QED BY <1>1 DEF Members, Declared
-----------------------------------------------------------------------------
(* Byte ranges: comparing each with the next one in order of offsets finds *)
(* what comparing every pair would find                                    *)

\* The boundary of a member is the least offset after it, or the directory.
LEMMA BoundaryIs ==
  ASSUME archive \in Archives, DirectoryRead, NEW k \in 1..Declared
  PROVE  /\ Boundary(k) \in Nat /\ Boundary(k) <= archive.directory_offset
         /\ \A j \in After(k) : Boundary(k) <= Entries[j].offset
         /\ Boundary(k) = archive.directory_offset
            \/ \E j \in After(k) : Boundary(k) = Entries[j].offset
<1> DEFINE D == archive.directory_offset
           B == {Members[j].offset : j \in After(k)}
<1>1. D \in Nat /\ Declared <= Len(Entries) /\ Declared \in Nat
  BY ArchiveFacts DEF DirectoryRead
<1>2. After(k) \subseteq 1..Declared /\ \A j \in 1..Declared : Members[j] = Entries[j]
  BY <1>1, MembersAre DEF After
<1>3. \A j \in 1..Declared : Entries[j].offset \in Nat /\ Entries[j].offset < D
  <2> SUFFICES ASSUME NEW j \in 1..Declared
               PROVE  Entries[j].offset \in Nat /\ Entries[j].offset < D
    OBVIOUS
  <2>1. Entries[j] \in EntryType
    <3>1. j \in 1..Len(Entries)
      BY <1>1, ArchiveFacts
    <3> QED BY <3>1, ArchiveFacts
  <2>2. DataEnd(Entries[j]) <= D
    BY DEF DirectoryRead, RecordsRead, LocalAgrees
  <2> QED BY <1>1, <2>1, <2>2, EntryFacts
<1>4. CASE After(k) = {}
  BY <1>1, <1>4 DEF Boundary
<1>5. CASE After(k) # {}
  <2>1. B \subseteq Nat /\ B # {} /\ Boundary(k) = Min(B)
    BY <1>2, <1>3, <1>5 DEF Boundary
  <2>2. Boundary(k) \in B /\ \A y \in B : Boundary(k) <= y
    <3> HIDE DEF B
    <3> QED BY <2>1, LeastIsMin
  <2>3. \A j \in After(k) : Members[j] = Entries[j] /\ Members[j].offset \in B
    BY <1>2
  <2>4. PICK j \in After(k) : Boundary(k) = Members[j].offset
    BY <2>2
  <2>5. j \in 1..Declared /\ Boundary(k) = Entries[j].offset
    BY <1>2, <2>3, <2>4
  <2>6. Boundary(k) \in Nat /\ Boundary(k) <= D
    BY <1>1, <1>3, <2>5
  <2>7. \A i \in After(k) : Boundary(k) <= Entries[i].offset
    <3> HIDE DEF B
    <3> QED BY <2>2, <2>3
  <2> HIDE DEF B
  <2> QED BY <2>4, <2>5, <2>6, <2>7
<1> QED BY <1>4, <1>5

\* The bytes of a member that belong to no other end before the boundary.
LEMMA OwnBytesEnd ==
  ASSUME archive \in Archives, DirectoryRead, NEW k \in 1..Declared,
         NEW n \in Nat, OwnBytes(k, n)
  PROVE  DataEnd(Entries[k]) + n <= Boundary(k)
<1> DEFINE D == archive.directory_offset
           last == DataEnd(Entries[k]) + n - 1
<1>1. D \in Nat /\ Declared <= Len(Entries) /\ Declared \in Nat /\ Len(Entries) \in Nat
  BY ArchiveFacts DEF DirectoryRead
<1>2. DOMAIN Members = 1..Declared /\ \A j \in 1..Declared : Members[j] = Entries[j]
  BY <1>1, MembersAre
<1>3. \A j \in 1..Declared :
        /\ Entries[j].offset \in Nat /\ DataEnd(Entries[j]) \in Nat
        /\ Entries[j].offset < DataEnd(Entries[j])
  <2> SUFFICES ASSUME NEW j \in 1..Declared
               PROVE  /\ Entries[j].offset \in Nat /\ DataEnd(Entries[j]) \in Nat
                      /\ Entries[j].offset < DataEnd(Entries[j])
    OBVIOUS
  <2>1. j \in 1..Len(Entries)
    BY <1>1
  <2> QED BY <2>1, ArchiveFacts, EntryFacts
<1>4. /\ Boundary(k) \in Nat /\ Boundary(k) <= D
      /\ Boundary(k) = D \/ \E j \in After(k) : Boundary(k) = Entries[j].offset
  BY BoundaryIs
<1>5. last \in Bytes(Entries[k], n)
  BY <1>3 DEF Bytes
<1>6. last < D
  BY <1>1, <1>5 DEF OwnBytes
<1>7. CASE Boundary(k) = D
  BY <1>1, <1>3, <1>6, <1>7
<1>8. ASSUME NEW j \in After(k), Boundary(k) = Entries[j].offset
      PROVE  DataEnd(Entries[k]) + n <= Boundary(k)
  <2>1. /\ j \in 1..Declared /\ j # k
        /\ Entries[k].offset <= Entries[j].offset
    BY <1>2, <1>3 DEF After
  <2>2. Entries[j].offset \in Bytes(Entries[j], 0)
    BY <1>3, <2>1 DEF Bytes
  <2>3. Entries[j].offset \notin Bytes(Entries[k], n)
    BY <1>2, <2>1, <2>2 DEF OwnBytes
  <2>4. ~(Entries[j].offset <= last)
    BY <1>3, <2>1, <2>3 DEF Bytes
  <2> QED BY <1>3, <1>8, <2>1, <2>4
<1> QED BY <1>4, <1>7, <1>8

\* Bytes that end before the boundary belong to no other member, if the
\* others end before theirs.
LEMMA EndsOwnBytes ==
  ASSUME archive \in Archives, DirectoryRead,
         \A j \in 1..Declared : DataEnd(Entries[j]) <= Boundary(j),
         NEW k \in 1..Declared, NEW n \in Nat,
         DataEnd(Entries[k]) + n <= Boundary(k)
  PROVE  OwnBytes(k, n)
<1> DEFINE D == archive.directory_offset
<1>1. D \in Nat /\ Declared <= Len(Entries) /\ Declared \in Nat /\ Len(Entries) \in Nat
  BY ArchiveFacts DEF DirectoryRead
<1>2. DOMAIN Members = 1..Declared /\ \A j \in 1..Declared : Members[j] = Entries[j]
  BY <1>1, MembersAre
<1>3. \A j \in 1..Declared :
        /\ Entries[j].offset \in Nat /\ DataEnd(Entries[j]) \in Nat
        /\ Boundary(j) \in Nat /\ Boundary(j) <= D
        /\ \A i \in After(j) : Boundary(j) <= Entries[i].offset
  <2> SUFFICES ASSUME NEW j \in 1..Declared
               PROVE  /\ Entries[j].offset \in Nat /\ DataEnd(Entries[j]) \in Nat
                      /\ Boundary(j) \in Nat /\ Boundary(j) <= D
                      /\ \A i \in After(j) : Boundary(j) <= Entries[i].offset
    OBVIOUS
  <2>1. j \in 1..Len(Entries)
    BY <1>1
  <2> QED BY <2>1, ArchiveFacts, EntryFacts, BoundaryIs
<1>4. Bytes(Entries[k], n) \subseteq 0..(D - 1)
  <2>1. Entries[k].offset \in Nat /\ DataEnd(Entries[k]) \in Nat
    BY <1>3, Zenon
  <2>2. Boundary(k) \in Nat /\ Boundary(k) <= D
    BY <1>3, Zenon
  <2> DEFINE from == Entries[k].offset
             end  == DataEnd(Entries[k])
  <2>3. Bytes(Entries[k], n) = from..(end + n - 1)
    BY Zenon DEF Bytes
  <2> HIDE DEF D
  <2>4. from \in Nat /\ end \in Nat /\ end + n <= D
    BY <1>1, <2>1, <2>2
  <2> HIDE DEF from, end
  <2> QED BY <1>1, <2>3, <2>4
<1>5. ASSUME NEW j \in 1..Declared, j # k
      PROVE  Bytes(Entries[k], n) \cap Bytes(Entries[j], 0) = {}
  <2> DEFINE from(i) == Entries[i].offset
             end(i)  == DataEnd(Entries[i])
  <2>1. /\ from(j) \in Nat /\ end(j) \in Nat /\ Boundary(j) \in Nat
        /\ from(k) \in Nat /\ end(k) \in Nat /\ Boundary(k) \in Nat
        /\ end(k) + n <= Boundary(k) /\ end(j) <= Boundary(j)
        /\ j \in After(k) => Boundary(k) <= from(j)
        /\ k \in After(j) => Boundary(j) <= from(k)
    BY <1>3, Zenon
  <2>2. /\ Bytes(Entries[k], n) = from(k)..(end(k) + n - 1)
        /\ Bytes(Entries[j], 0) = from(j)..(end(j) + 0 - 1)
    BY Zenon DEF Bytes
  <2> HIDE DEF from, end
  <2> SUFFICES ASSUME NEW x \in Bytes(Entries[k], n), x \in Bytes(Entries[j], 0)
               PROVE  FALSE
    OBVIOUS
  <2>3. x \in Int /\ from(k) <= x /\ x <= end(k) + n - 1
    BY <2>1, <2>2
  <2>4. from(j) <= x /\ x <= end(j) - 1
    <3>1. x \in from(j)..(end(j) + 0 - 1)
      BY <2>2, Zenon
    <3> QED BY <2>1, <3>1
  <2>5. CASE j \in After(k)
    BY <2>1, <2>5, <2>3, <2>4
  <2>6. CASE k \in After(j)
    BY <2>1, <2>6, <2>3, <2>4
  <2>7. j \in After(k) \/ k \in After(j)
    <3>1. /\ Members[j].offset = from(j) /\ Members[k].offset = from(k)
          /\ j \in DOMAIN Members /\ k \in DOMAIN Members
      BY <1>2, Zenon DEF from
    <3>2. /\ from(j) > from(k) \/ (from(j) = from(k) /\ j > k) => j \in After(k)
          /\ from(k) > from(j) \/ (from(k) = from(j) /\ k > j) => k \in After(j)
      BY <3>1, Zenon DEF After
    <3>3. j \in Int /\ k \in Int /\ j # k
      BY <1>5
    <3> QED BY <2>1, <3>2, <3>3
  <2> QED BY <2>5, <2>6, <2>7
<1> QED BY <1>2, <1>4, <1>5 DEF OwnBytes

LEMMA RangesAreDisjoint ==
  ASSUME archive \in Archives, DirectoryRead
  PROVE  (\A k \in DOMAIN Members : RangeValid(k)) <=> Disjoint
<1> DEFINE End(k)     == DataEnd(Entries[k])
           Fits(k)    == {n \in Entries[k].descriptors : End(k) + n <= Boundary(k)}
           Owned(k)   == {n \in Entries[k].descriptors : OwnBytes(k, n)}
<1>1. Declared <= Len(Entries) /\ Declared \in Nat /\ Len(Entries) \in Nat
  BY ArchiveFacts DEF DirectoryRead
<1>2. DOMAIN Members = 1..Declared /\ \A j \in 1..Declared : Members[j] = Entries[j]
  BY <1>1, MembersAre
<1>3. ASSUME NEW k \in 1..Declared
      PROVE  /\ End(k) \in Nat /\ Boundary(k) \in Nat
             /\ Entries[k].descriptors \subseteq Nat
             /\ Entries[k].descriptor \in BOOLEAN
  <2>1. k \in 1..Len(Entries)
    BY <1>1
  <2> QED BY <2>1, ArchiveFacts, EntryFacts, BoundaryIs
<1>4. ASSUME NEW k \in 1..Declared
      PROVE  RangeValid(k) <=> /\ End(k) <= Boundary(k)
                               /\ Entries[k].descriptor => Cardinality(Fits(k)) = 1
  <2>1. DescriptorEnd(Entries[k], Boundary(k)) =
          IF Cardinality(Fits(k)) = 1 THEN End(k) + Min(Fits(k)) ELSE -1
    BY DEF DescriptorEnd
  <2>2. Cardinality(Fits(k)) = 1 => Min(Fits(k)) \in Nat
    <3> SUFFICES ASSUME Cardinality(Fits(k)) = 1 PROVE Min(Fits(k)) \in Nat
      OBVIOUS
    <3>1. Fits(k) \subseteq Nat
      BY <1>3
    <3>2. Fits(k) # {}
      <4> HIDE DEF Fits
      <4> QED BY OneElement
    <3> HIDE DEF Fits
    <3> QED BY <3>1, <3>2, LeastIsMin
  <2>3. End(k) \in Nat /\ Members[k] = Entries[k]
    BY <1>2, <1>3
  <2> HIDE DEF Fits
  <2> QED BY <2>1, <2>2, <2>3 DEF RangeValid
<1>5. ASSUME \A k \in 1..Declared : End(k) <= Boundary(k), NEW k \in 1..Declared
      PROVE  Owned(k) = Fits(k) /\ OwnBytes(k, 0)
  <2>1. ASSUME NEW n \in Nat
        PROVE  OwnBytes(k, n) <=> End(k) + n <= Boundary(k)
    BY <1>5, OwnBytesEnd, EndsOwnBytes
  <2>2. 0 \in Nat /\ End(k) + 0 <= Boundary(k)
    BY <1>3, <1>5
  <2> QED BY <1>3, <2>1, <2>2
<1>6. Disjoint <=> \A k \in 1..Declared :
                     IF Entries[k].descriptor THEN Cardinality(Owned(k)) = 1
                     ELSE OwnBytes(k, 0)
  BY <1>2 DEF Disjoint
<1>7. ASSUME Disjoint, NEW k \in 1..Declared PROVE End(k) <= Boundary(k)
  <2>1. \E n \in Nat : OwnBytes(k, n)
    <3>1. CASE Entries[k].descriptor
      <4>1. Cardinality(Owned(k)) = 1
        BY <1>6, <1>7, <3>1
      <4>2. Owned(k) # {}
        <5> HIDE DEF Owned
        <5> QED BY <4>1, OneElement
      <4> QED BY <1>3, <4>2
    <3>2. CASE ~Entries[k].descriptor
      BY <1>6, <1>7, <3>2
    <3> QED BY <3>1, <3>2
  <2>2. PICK n \in Nat : OwnBytes(k, n)
    BY <2>1
  <2>3. End(k) + n <= Boundary(k)
    BY <2>2, OwnBytesEnd
  <2> QED BY <1>3, <2>3
<1> HIDE DEF End, Fits, Owned
<1> QED BY <1>2, <1>3, <1>4, <1>5, <1>6, <1>7
-----------------------------------------------------------------------------
(* Paths: looking at each with those before it finds what comparing every  *)
(* pair would find                                                         *)

\* The canonical form has as many parts, and is the same for paths alike.
LEMMA CanonicalIs ==
  ASSUME NEW e \in EntryType
  PROVE  Canonical(e) \in Seq(Parts) /\ Len(Canonical(e)) = Len(e.name)
<1>1. e.name \in Seq(Parts)
  BY EntryFacts
<1>2. \A k \in 1..Len(e.name) : Fold[e.name[k]] \in Parts
  BY <1>1, NamesAssumption DEF NamesAssumption
<1>3. DOMAIN e.name = 1..Len(e.name) /\ Len(e.name) \in Nat
  BY <1>1
<1> QED BY <1>2, <1>3 DEF Canonical

\* Paths are alike if their canonical forms are the same.
LEMMA SameForm ==
  ASSUME NEW p, NEW q
  PROVE  Alike(p, q) <=>
           [k \in DOMAIN p |-> Fold[p[k]]] = [k \in DOMAIN q |-> Fold[q[k]]]
<1> DEFINE f == [k \in DOMAIN p |-> Fold[p[k]]]
           g == [k \in DOMAIN q |-> Fold[q[k]]]
<1>1. /\ DOMAIN f = DOMAIN p /\ \A k \in DOMAIN p : f[k] = Fold[p[k]]
      /\ DOMAIN g = DOMAIN q /\ \A k \in DOMAIN q : g[k] = Fold[q[k]]
  OBVIOUS
<1>2. ASSUME Alike(p, q) PROVE f = g
  BY <1>2 DEF Alike
<1> HIDE DEF f, g
<1>3. ASSUME f = g PROVE Alike(p, q)
  <2>1. DOMAIN p = DOMAIN q
    BY <1>1, <1>3
  <2>2. \A k \in DOMAIN p : Fold[p[k]] = Fold[q[k]]
    BY <1>1, <1>3, <2>1
  <2> QED BY <2>1, <2>2 DEF Alike
<1>4. Alike(p, q) <=> f = g
  BY <1>2, <1>3
<1> QED BY <1>4 DEF f, g

LEMMA AlikeIs ==
  ASSUME NEW d \in EntryType, NEW e \in EntryType
  PROVE  /\ Alike(d.name, e.name) <=> Canonical(d) = Canonical(e)
         /\ \A n \in 1..(Len(e.name) - 1) :
              Alike(d.name, SubSeq(e.name, 1, n))
                <=> Canonical(d) = SubSeq(Canonical(e), 1, n)
<1> DEFINE p == d.name
           q == e.name
<1>1. p \in Seq(Parts) /\ q \in Seq(Parts)
  BY EntryFacts
<1> HIDE DEF p, q
<1>2. /\ Len(p) \in Nat /\ DOMAIN p = 1..Len(p)
      /\ Len(q) \in Nat /\ DOMAIN q = 1..Len(q)
  BY <1>1
<1>3. /\ Canonical(d) = [k \in 1..Len(p) |-> Fold[p[k]]]
      /\ Canonical(e) = [k \in 1..Len(q) |-> Fold[q[k]]]
  BY <1>2 DEF Canonical, p, q
<1>4. Alike(p, q) <=> Canonical(d) = Canonical(e)
  BY <1>2, <1>3, SameForm
<1>5. ASSUME NEW n \in 1..(Len(q) - 1)
      PROVE  Alike(p, SubSeq(q, 1, n)) <=> Canonical(d) = SubSeq(Canonical(e), 1, n)
  <2>1. /\ SubSeq(q, 1, n) = [k \in 1..n |-> q[k]]
        /\ SubSeq(Canonical(e), 1, n) = [k \in 1..n |-> Canonical(e)[k]]
    BY <1>1, <1>2
  <2>2. \A k \in 1..n : Canonical(e)[k] = Fold[q[k]]
    BY <1>2, <1>3
  <2>3. SubSeq(Canonical(e), 1, n) = [k \in 1..n |-> Fold[q[k]]]
    BY <2>1, <2>2
  <2>4. Alike(p, SubSeq(q, 1, n)) <=>
          [k \in 1..Len(p) |-> Fold[p[k]]] = [k \in 1..n |-> Fold[q[k]]]
    <3> DEFINE s == [k \in 1..n |-> q[k]]
    <3>1. [k \in DOMAIN s |-> Fold[s[k]]] = [k \in 1..n |-> Fold[q[k]]]
      OBVIOUS
    <3>2. s = SubSeq(q, 1, n)
      BY <2>1
    <3> HIDE DEF s
    <3> QED BY <1>2, <3>1, <3>2, SameForm
  <2> QED BY <1>3, <2>3, <2>4
<1> QED BY <1>4, <1>5 DEF p, q

\* The reference compares the paths as they are spelled.
LEMMA TreeIs ==
  ASSUME archive \in Archives, Declared <= Len(Entries)
  PROVE  Tree <=> Trees(Declared)
<1> DEFINE e(k) == Entries[k]
<1>1. DOMAIN Members = 1..Declared
  BY MembersAre
<1>2. \A k \in 1..Declared : e(k) \in EntryType
  <2>1. \A k \in 1..Declared : k \in 1..Len(Entries)
    BY ArchiveFacts
  <2> QED BY <2>1, ArchiveFacts
<1>3. \A k \in 1..Declared : Len(Canonical(e(k))) = Len(e(k).name)
  BY <1>2, CanonicalIs
<1>4. \A j, k \in 1..Declared :
        /\ Alike(e(j).name, e(k).name) <=> Canonical(e(j)) = Canonical(e(k))
        /\ \A n \in 1..(Len(e(k).name) - 1) :
             Alike(e(j).name, SubSeq(e(k).name, 1, n))
               <=> Canonical(e(j)) = SubSeq(Canonical(e(k)), 1, n)
  BY <1>2, AlikeIs
<1>5. \A j, k \in 1..Declared :
        Canonical(e(j)) \in Ancestors(Canonical(e(k))) <=>
          \E n \in 1..(Len(e(k).name) - 1) : Alike(e(j).name, SubSeq(e(k).name, 1, n))
  <2> HIDE DEF e
  <2> QED BY <1>3, <1>4, Zenon DEF Ancestors
<1>6. Tree <=> \A j, k \in 1..Declared :
        /\ Alike(e(j).name, e(k).name) => j = k
        /\ \A n \in 1..(Len(e(k).name) - 1) :
             Alike(e(j).name, SubSeq(e(k).name, 1, n)) => e(j).dir
  BY <1>1, Zenon DEF Tree
<1>7. Trees(Declared) <=> \A j, k \in 1..Declared :
        /\ Canonical(e(j)) = Canonical(e(k)) => j = k
        /\ Canonical(e(j)) \in Ancestors(Canonical(e(k))) => e(j).dir
  BY Zenon DEF Trees
<1> HIDE DEF e
<1> QED BY <1>4, <1>5, <1>6, <1>7

\* What TakesPath refuses a path for.
Clashes ==
  \/ Canonical(Entry) \in names
  \/ Ancestors(Canonical(Entry)) \cap explicit.files # {}
  \/ Canonical(Entry) \in implicit \cup Ancestors(Canonical(Entry)) /\ ~Entry.dir

LEMMA ClashesAre ==
  ASSUME archive \in Archives, DirectoryRead, index \in Nat, index < Declared,
         PathsTaken(index)
  PROVE  Trees(index + 1) <=> ~Clashes
<1> DEFINE name(k) == Canonical(Entries[k])
           N == index + 1
<1>1. Declared <= Len(Entries) /\ Declared \in Nat /\ Len(Entries) \in Nat
  BY ArchiveFacts DEF DirectoryRead
<1>2. name(N) \in Seq(Parts)
  <2>1. N \in 1..Len(Entries)
    BY <1>1
  <2> QED BY <2>1, ArchiveFacts, CanonicalIs
<1>4. Entry = Entries[N] /\ N \in 1..N /\ N \notin 1..index
  BY DEF Entry
<1>5. \A k : k \in 1..N <=> k \in 1..index \/ k = N
  OBVIOUS
<1>6. name(N) \notin Ancestors(name(N))
  <2> HIDE DEF name, N
  <2> SUFFICES ASSUME NEW n \in 1..(Len(name(N)) - 1), name(N) = SubSeq(name(N), 1, n)
               PROVE  FALSE
    BY Zenon DEF Ancestors
  <2>1. Len(SubSeq(name(N), 1, n)) = n /\ Len(name(N)) \in Nat
    BY <1>2
  <2> QED BY <2>1
<1>7. /\ Canonical(Entry) \in names <=> \E k \in 1..index : name(k) = name(N)
      /\ Canonical(Entry) \in implicit <=>
           \E k \in 1..index : name(N) \in Ancestors(name(k))
      /\ Ancestors(Canonical(Entry)) \cap explicit.files # {} <=>
           \E k \in 1..index : name(k) \in Ancestors(name(N)) /\ ~Entries[k].dir
  <2>1. Canonical(Entry) \in names <=> \E k \in 1..index : name(k) = name(N)
    BY <1>4 DEF PathsTaken
  <2>2. Canonical(Entry) \in implicit <=>
          \E k \in 1..index : name(N) \in Ancestors(name(k))
    BY <1>4 DEF PathsTaken
  <2>3. Ancestors(Canonical(Entry)) \cap explicit.files # {} <=>
          \E k \in 1..index : name(k) \in Ancestors(name(N)) /\ ~Entries[k].dir
    <3>1. \A n : n \in explicit.files <=>
            \E k \in 1..index : name(k) = n /\ ~Entries[k].dir
      BY DEF PathsTaken
    <3>2. Canonical(Entry) = name(N)
      BY <1>4
    <3> HIDE DEF name, N
    <3> QED BY <3>1, <3>2
  <2> QED BY <2>1, <2>2, <2>3
<1>8. Trees(index)
  BY DEF PathsTaken
<1>9. Trees(N) <=>
        \A j, k \in 1..N : /\ name(j) = name(k) => j = k
                           /\ name(j) \in Ancestors(name(k)) => Entries[j].dir
  BY DEF Trees
<1>10. \A j, k \in 1..index : /\ name(j) = name(k) => j = k
                              /\ name(j) \in Ancestors(name(k)) => Entries[j].dir
  BY <1>5, <1>8 DEF Trees
<1> HIDE DEF name, N
<1>11. ASSUME Trees(N) PROVE ~Clashes
  <2>1. ~(Canonical(Entry) \in names)
    BY <1>4, <1>5, <1>7, <1>9, <1>11
  <2>2. ~(Ancestors(Canonical(Entry)) \cap explicit.files # {})
    BY <1>4, <1>5, <1>7, <1>9, <1>11
  <2>3. ~(Canonical(Entry) \in implicit \cup Ancestors(Canonical(Entry)) /\ ~Entry.dir)
    <3>1. Canonical(Entry) = name(N)
      BY <1>4 DEF name
    <3> QED BY <1>4, <1>5, <1>6, <1>7, <1>9, <1>11, <3>1
  <2> QED BY <2>1, <2>2, <2>3 DEF Clashes
<1>12. ASSUME ~Clashes PROVE Trees(N)
  <2>1. Canonical(Entry) = name(N)
    BY <1>4 DEF name
  <2>2. \A k \in 1..index :
          /\ name(k) # name(N)
          /\ name(k) \in Ancestors(name(N)) => Entries[k].dir
          /\ name(N) \in Ancestors(name(k)) => Entries[N].dir
    BY <1>4, <1>7, <1>12, <2>1 DEF Clashes
  <2> SUFFICES ASSUME NEW j \in 1..N, NEW k \in 1..N
               PROVE  /\ name(j) = name(k) => j = k
                      /\ name(j) \in Ancestors(name(k)) => Entries[j].dir
    BY <1>9
  <2> QED BY <1>5, <1>6, <1>10, <2>2
<1> QED BY <1>11, <1>12 DEF N
-----------------------------------------------------------------------------
(* The members of an app: the one root that is found is the one that all   *)
(* members beneath an app share                                            *)

LEMMA FirstTwo ==
  ASSUME NEW n \in Seq(Parts), Len(n) >= 2
  PROVE  SubSeq(n, 1, 2) = <<n[1], n[2]>>
<1> DEFINE s == SubSeq(n, 1, 2)
<1>1. s \in Seq(Parts) /\ Len(s) = 2 /\ s[1] = n[1] /\ s[2] = n[2]
  OBVIOUS
<1> HIDE DEF s
<1>2. s = [i \in 1..2 |-> s[i]]
  BY <1>1
<1>3. <<n[1], n[2]>> = [i \in 1..2 |-> s[i]]
  BY <1>1
<1> QED BY <1>2, <1>3 DEF s

LEMMA RootsAre ==
  ASSUME archive \in Archives, DirectoryRead
  PROVE  /\ IsFiniteSet(Roots)
         /\ \A r : r \in Roots <=>
              \E k \in 1..Declared : /\ InApp(Entries[k].name)
                                     /\ r = <<"Payload", Entries[k].name[2]>>
<1> DEFINE name(k) == Entries[k].name
           P(m)    == {SubSeq(name(k), 1, 2) : k \in 1..m}
           N       == Declared
           T       == {m \in 0..N : IsFiniteSet(P(m))}
<1>1. N <= Len(Entries) /\ N \in Nat /\ Len(Entries) \in Nat
  BY ArchiveFacts DEF DirectoryRead
<1>2. ASSUME NEW k \in 1..N, InApp(name(k))
      PROVE  SubSeq(name(k), 1, 2) = <<"Payload", name(k)[2]>>
  <2>1. k \in 1..Len(Entries)
    BY <1>1
  <2>2. name(k) \in Seq(Parts)
    BY <2>1, ArchiveFacts, EntryFacts
  <2>3. Len(name(k)) >= 2 /\ name(k)[1] = "Payload"
    BY <1>2 DEF InApp
  <2> HIDE DEF name
  <2> QED BY <2>2, <2>3, FirstTwo
<1>3. \A r : r \in Roots <=>
        \E k \in 1..N : InApp(name(k)) /\ r = <<"Payload", name(k)[2]>>
  <2>1. DOMAIN Members = 1..N /\ \A k \in 1..N : Members[k].name = name(k)
    BY <1>1, MembersAre
  <2> HIDE DEF name, N
  <2>3. \A r : r \in Roots <=> \E k \in 1..N : InApp(name(k)) /\ r = SubSeq(name(k), 1, 2)
    BY <2>1 DEF Roots
  <2> QED BY <1>2, <2>3
<1>4. Roots \subseteq P(N)
  <2> SUFFICES ASSUME NEW r \in Roots PROVE r \in P(N)
    OBVIOUS
  <2>1. PICK k \in 1..N : InApp(name(k)) /\ r = <<"Payload", name(k)[2]>>
    BY <1>3
  <2>2. r = SubSeq(name(k), 1, 2)
    BY <1>2, <2>1
  <2> HIDE DEF name, N
  <2> QED BY <2>2
<1>5. 0 \in T
  <2>1. P(0) = {} /\ 0 \in 0..N
    BY <1>1
  <2> HIDE DEF P
  <2> QED BY <2>1, FS_EmptySet
<1>6. ASSUME NEW m \in 1..N, m - 1 \in T PROVE m \in T
  <2>1. P(m) = P(m - 1) \cup {SubSeq(name(m), 1, 2)}
    <3>1. 1..m = 1..(m - 1) \cup {m}
      BY <1>1
    <3> HIDE DEF name
    <3> QED BY <3>1
  <2>2. IsFiniteSet(P(m - 1)) /\ m \in 0..N
    BY <1>1, <1>6
  <2>3. IsFiniteSet(P(m))
    <3> DEFINE Q == P(m - 1)
               x == SubSeq(name(m), 1, 2)
    <3>1. IsFiniteSet(Q)
      BY <2>2
    <3> HIDE DEF Q, x
    <3>2. IsFiniteSet(Q \cup {x})
      BY <3>1, FS_AddElement
    <3>3. P(m) = Q \cup {x}
      BY <2>1 DEF Q, x
    <3> HIDE DEF P
    <3> QED BY <3>2, <3>3
  <2> HIDE DEF P
  <2> QED BY <2>2, <2>3
<1>7. IsFiniteSet(P(N))
  <2> HIDE DEF T, N
  <2>1. \A m \in 0..N : m \in T
    BY <1>1, <1>5, <1>6, UpTo, Zenon
  <2>2. N \in 0..N
    BY <1>1
  <2> HIDE DEF P
  <2> QED BY <2>1, <2>2 DEF T
<1>8. IsFiniteSet(Roots)
  <2> HIDE DEF P
  <2> QED BY <1>4, <1>7, FS_Subset
<1> QED BY <1>3, <1>8

\* A root that holds what an app must have.
Complete(root) == PlistsRead(root) /\ PartsHeld(root)

LEMMA AppIs ==
  ASSUME archive \in Archives, DirectoryRead
  PROVE  /\ Cardinality(Roots) = 1
         /\ \A root \in Roots : Complete(root)
         <=> App
<1> DEFINE name(k) == Entries[k].name
           Root(app) == <<"Payload", app>>
           Found == /\ Cardinality(Roots) = 1
                    /\ \A root \in Roots : Complete(root)
<1>1. Declared <= Len(Entries) /\ Declared \in Nat
  BY ArchiveFacts DEF DirectoryRead
<1>2. DOMAIN Members = 1..Declared /\ \A j \in 1..Declared : Members[j] = Entries[j]
  BY <1>1, MembersAre
<1>3. /\ IsFiniteSet(Roots)
      /\ \A r : r \in Roots <=>
           \E k \in 1..Declared : InApp(name(k)) /\ r = Root(name(k)[2])
  BY RootsAre
<1>4. Cardinality(Roots) = 1 <=> \E r : Roots = {r}
  BY <1>3, FS_Singleton
<1>5. App <=> \E app \in AppNames :
                /\ Complete(Root(app))
                /\ \A k \in 1..Declared : InApp(name(k)) => name(k)[2] = app
  <2>1. \A k \in 1..Declared : Members[k].name = name(k)
    BY <1>2
  <2>2. App <=> \E app \in AppNames :
                  /\ PlistsRead(Root(app)) /\ PartsHeld(Root(app))
                  /\ \A k \in DOMAIN Members :
                       InApp(Members[k].name) => Members[k].name[2] = app
    BY Zenon DEF App
  <2> HIDE DEF name, Root
  <2> QED BY <1>2, <2>1, <2>2 DEF Complete
<1>6. \A a, b : Root(a) = Root(b) => a = b
  OBVIOUS
<1>7. \A k \in 1..Declared : InApp(name(k)) => name(k)[2] \in AppNames
  BY DEF InApp
<1>8. ASSUME Found PROVE App
  <2>1. PICK r : Roots = {r}
    BY <1>4, <1>8
  <2>2. PICK k \in 1..Declared : InApp(name(k)) /\ r = Root(name(k)[2])
    BY <1>3, <2>1
  <2> DEFINE app == name(k)[2]
  <2>3. app \in AppNames /\ Roots = {Root(app)}
    BY <1>7, <2>1, <2>2
  <2>4. Complete(Root(app))
    BY <1>8, <2>3
  <2>5. ASSUME NEW j \in 1..Declared, InApp(name(j)) PROVE name(j)[2] = app
    <3>1. Root(name(j)[2]) \in Roots
      BY <1>3, <2>5
    <3> HIDE DEF Root, app, name
    <3> QED BY <1>6, <2>3, <3>1
  <2> HIDE DEF app, Root, name
  <2> QED BY <1>5, <2>3, <2>4, <2>5
<1>9. ASSUME App PROVE Found
  <2>1. PICK app \in AppNames :
          /\ Complete(Root(app))
          /\ \A k \in 1..Declared : InApp(name(k)) => name(k)[2] = app
    BY <1>5, <1>9
  <2> DEFINE path == <<"Info.plist">>
  <2>3. PICK k \in 1..Declared : name(k) = Root(app) \o path
    <3>1. Holds(Root(app) \o path, 1..MAX_PLIST_BYTES)
      BY <2>1 DEF Complete, PlistsRead
    <3> HIDE DEF path, Root
    <3> QED BY <1>2, <3>1 DEF Holds
  <2>4. InApp(Root(app) \o path) /\ (Root(app) \o path)[2] = app
    BY DEF InApp
  <2>5. Root(app) \in Roots
    <3> HIDE DEF Root, name
    <3> QED BY <1>3, <2>3, <2>4
  <2>6. Roots = {Root(app)}
    <3> HIDE DEF Root, name
    <3> QED BY <1>3, <2>1, <2>5
  <2> HIDE DEF Root
  <2> QED BY <1>4, <2>1, <2>6
<1> HIDE DEF Found
<1>10. Found <=> App
  BY <1>8, <1>9
<1> QED BY <1>10 DEF Found
-----------------------------------------------------------------------------
(* The reference, part by part                                             *)

LEMMA WellFormedNeeds ==
  ASSUME archive \in Archives, WellFormed
  PROVE  FileRead /\ EndFound /\ DirectoryRead
<1>1. Declared = archive.declared /\ Declared <= Len(Entries)
  BY DEF WellFormed, DirectorySound, Declared
<1>2. DOMAIN Members = 1..Declared
  BY <1>1, MembersAre
<1>3. FileRead /\ EndFound /\ DirectorySound
  BY DEF WellFormed
<1>4. RecordsRead(Declared)
  BY <1>2 DEF WellFormed, RecordsRead
<1> QED BY <1>1, <1>3, <1>4 DEF DirectorySound, DirectoryRead

\* What is left to find out once the directory was read.
LEMMA WellFormedIs ==
  ASSUME archive \in Archives, FileRead, EndFound, DirectoryRead
  PROVE  WellFormed <=>
           /\ Disjoint /\ SizesValid(Members) /\ PayloadsRead(Declared)
           /\ Trees(Declared) /\ \A k \in 1..Declared : TypeAgrees(Entries[k])
           /\ App /\ BundleAgrees /\ archive.info.versions /\ StoreAgrees
<1>1. DOMAIN Members = 1..Declared /\ Declared = archive.declared
  BY MembersAre DEF DirectoryRead, Declared
<1>2. Tree <=> Trees(Declared)
  BY TreeIs DEF DirectoryRead
<1>3. (\A k \in DOMAIN Members :
         /\ Supported(Entries[k]) /\ Zip64Agrees(Entries[k]) /\ LocalAgrees(Entries[k])
         /\ Payload(Entries[k]) /\ TypeAgrees(Entries[k]))
      <=> /\ PayloadsRead(Declared)
          /\ \A k \in 1..Declared : TypeAgrees(Entries[k])
  BY <1>1 DEF DirectoryRead, RecordsRead, PayloadsRead
<1>5. DirectorySound
  BY <1>1 DEF DirectoryRead, DirectorySound
<1> QED BY <1>2, <1>3, <1>5, Zenon DEF WellFormed
-----------------------------------------------------------------------------
(* What a step leaves as it was                                            *)

\* What is said of the archive alone.
LEMMA Steady ==
  ASSUME archive' = archive
  PROVE  /\ Entries' = Entries /\ Declared' = Declared /\ Members' = Members
         /\ FileRead' <=> FileRead
         /\ EndFound' <=> EndFound
         /\ DirectoryRead' <=> DirectoryRead
         /\ \A n : RecordsRead(n)' <=> RecordsRead(n)
         /\ Disjoint' <=> Disjoint
         /\ SizesValid(Members)' <=> SizesValid(Members)
         /\ \A n : PayloadsRead(n)' <=> PayloadsRead(n)
         /\ \A n : Trees(n)' <=> Trees(n)
         /\ WellFormed' <=> WellFormed
<1>1. Entries' = Entries /\ Declared' = Declared /\ Members' = Members
  BY DEF Entries, Declared, Members
<1>2. (FileRead' <=> FileRead) /\ (FileRead' <=> FileRead) /\ (EndFound' <=> EndFound)
  BY Zenon DEF FileRead, EndFound
<1>3. \A e : LocalAgrees(e)' <=> LocalAgrees(e)
  BY DEF LocalAgrees
<1>4. \A n : RecordsRead(n)' <=> RecordsRead(n)
  BY <1>1, <1>3 DEF RecordsRead
<1>5. DirectoryRead' <=> DirectoryRead
  BY <1>1, <1>4 DEF DirectoryRead
<1>6. \A k, n : OwnBytes(k, n)' <=> OwnBytes(k, n)
  BY <1>1 DEF OwnBytes
<1>7. Disjoint' <=> Disjoint
  BY <1>1, <1>6 DEF Disjoint
<1>8. SizesValid(Members)' <=> SizesValid(Members)
  BY <1>1
<1>9. \A n : PayloadsRead(n)' <=> PayloadsRead(n)
  BY <1>1 DEF PayloadsRead
<1>10. \A n : Trees(n)' <=> Trees(n)
  BY <1>1 DEF Trees
<1>11. WellFormed' <=> WellFormed
  <2>1. \A n, sizes : Holds(n, sizes)' <=> Holds(n, sizes)
    BY <1>1 DEF Holds
  <2>2. \A root : /\ PlistsRead(root)' <=> PlistsRead(root)
                  /\ PartsHeld(root)' <=> PartsHeld(root)
    BY <2>1 DEF PlistsRead, PartsHeld
  <2>3. App' <=> App
    BY <1>1, <2>2 DEF App
  <2>4. Tree' <=> Tree
    BY <1>1 DEF Tree
  <2>5. (BundleAgrees' <=> BundleAgrees) /\ (StoreAgrees' <=> StoreAgrees)
    BY DEF BundleAgrees, StoreAgrees
  <2>6. DirectorySound' <=> DirectorySound
    BY <1>1 DEF DirectorySound
  <2> QED BY <1>1, <1>2, <1>3, <1>7, <1>8, <2>3, <2>4, <2>5, <2>6 DEF WellFormed
<1> QED BY <1>1, <1>2, <1>4, <1>5, <1>7, <1>8, <1>9, <1>10, <1>11

\* What is said of the member that is being inflated.
LEMMA PayloadSteady ==
  ASSUME UNCHANGED payloadVars
  PROVE  /\ InflateInv => InflateInv'
         /\ Stuck' <=> Stuck
         /\ found' = found /\ member' = member
         /\ cursor' = cursor /\ pending' = pending /\ produced' = produced
<1>1. /\ found' = found /\ member' = member
      /\ cursor' = cursor /\ pending' = pending /\ produced' = produced
  BY DEF payloadVars
<1>2. /\ Inf!Length' = Inf!Length /\ Inf!Taken' = Inf!Taken
      /\ Inf!Inside' = Inf!Inside /\ Inf!Output(Inf!Taken)' = Inf!Output(Inf!Taken)
  BY <1>1 DEF Inf!Length, Inf!Taken, Inf!Inside, Inf!Output
<1>3. Inflating' <=> Inflating
  BY <1>1, <1>2 DEF Inflating
<1>4. Stuck' <=> Stuck
  BY <1>1, <1>2 DEF Stuck
<1>5. MemberType' = MemberType
  BY DEF MemberType
<1> HIDE DEF MemberType
<1> QED BY <1>1, <1>3, <1>4, <1>5 DEF InflateInv, Faults

\* What is said of the paths taken.
LEMMA ShapeSteady ==
  ASSUME archive' = archive, UNCHANGED shapeVars
  PROVE  /\ \A n : PathsTaken(n)' <=> PathsTaken(n)
         /\ explicit' = explicit
<1>1. names' = names /\ explicit' = explicit /\ implicit' = implicit
  BY DEF shapeVars
<1>2. Entries' = Entries /\ \A n : Trees(n)' <=> Trees(n)
  BY Steady
<1> QED BY <1>1, <1>2 DEF PathsTaken
-----------------------------------------------------------------------------
(* The steps of validate_ipa                                               *)

LEMMA InitialInv == Init => IpaInv
<1> SUFFICES ASSUME Init PROVE IpaInv
  OBVIOUS
<1>1. /\ archive \in Archives /\ stage = "read" /\ index = 0 /\ reason = "PENDING"
      /\ names = {} /\ explicit = [dirs |-> {}, files |-> {}] /\ implicit = {}
      /\ member = NoMember /\ cursor = 0 /\ pending = 0 /\ produced = 0
      /\ found = "none"
  BY DEF Init
<1>2. Len(Entries) \in Nat
  BY <1>1, ArchiveFacts
<1>3. TypeOK
  BY <1>1, <1>2 DEF TypeOK
<1>4. member \in MemberType
  BY <1>1 DEF NoMember, MemberType
<1>5. InflateInv
  BY <1>1, <1>4 DEF InflateInv, Faults
<1>6. PathsTaken(0)
  BY <1>1 DEF PathsTaken, Trees
<1>7. ShapeInv
  BY <1>1, <1>6 DEF ShapeInv
<1> QED BY <1>1, <1>3, <1>5, <1>7
        DEF IpaInv, DirectoryInv, BoundsInv, PayloadInv, VerdictInv

\* The end of validate_ipa, for a reason that is right.
Justified(why) ==
  /\ why = "SUCCESS" => WellFormed
  /\ why # "SUCCESS" =>
       ~WellFormed \/ (why = "IPA_ZIP_SIZE_MISMATCH" /\ Stuck)
Ends(why) ==
  /\ why # "PENDING" /\ archive' = archive /\ Refuse(why) /\ Justified(why)
  /\ UNCHANGED payloadVars /\ UNCHANGED shapeVars

LEMMA EndsStep ==
  ASSUME IpaInv, NEW why, Ends(why)
  PROVE  IpaInv'
<1> USE DEF Ends, Justified
<1>1. stage' = "done" /\ reason' = why /\ index' = index
  BY DEF Refuse
<1>2. /\ Entries' = Entries /\ Members' = Members /\ (WellFormed' <=> WellFormed)
      /\ (Disjoint' <=> Disjoint) /\ (SizesValid(Members)' <=> SizesValid(Members))
  BY Steady
<1>3. /\ found' = found /\ cursor' = cursor /\ pending' = pending
      /\ produced' = produced /\ explicit' = explicit /\ (Stuck' <=> Stuck)
      /\ InflateInv'
  BY PayloadSteady, ShapeSteady DEF IpaInv
<1>4. (archive \in Archives)' /\ TypeOK'
  BY <1>1, <1>2, <1>3 DEF IpaInv, TypeOK
<1>5. DirectoryInv' /\ PayloadInv' /\ ShapeInv'
  BY <1>1, <1>3 DEF IpaInv, DirectoryInv, PayloadInv, ShapeInv
<1>6. BoundsInv'
  BY <1>1, <1>2, <1>3 DEF IpaInv, BoundsInv
<1>7. VerdictInv'
  <2>1. why = "IPA_ZIP_SIZE_MISMATCH" /\ Stuck => Stalled'
    <3> SUFFICES ASSUME why = "IPA_ZIP_SIZE_MISMATCH", Stuck PROVE Stalled'
      OBVIOUS
    <3>1. Stuck'
      BY <1>3
    <3> QED BY <1>1, <3>1 DEF Stuck, Stalled
  <2> QED BY <1>1, <1>2, <2>1 DEF VerdictInv
<1> QED BY <1>3, <1>4, <1>5, <1>6, <1>7 DEF IpaInv

\* Any other step: the verdict is open, and the types hold.
Stages == {"read", "end", "preflight", "directory", "ranges", "sizes", "payloads",
           "shape", "members"}
LEMMA PassesStep ==
  ASSUME IpaInv, archive' = archive, stage \in Stages, stage' \in Stages,
         reason' = reason, index' \in 0..(Len(Entries) + 1), InflateInv'
  PROVE  (archive \in Archives)' /\ TypeOK' /\ VerdictInv'
<1>1. Entries' = Entries
  BY Steady
<1>2. reason = "PENDING" /\ reason' = "PENDING"
  BY DEF IpaInv, TypeOK, Stages
<1>3. (archive \in Archives)' /\ VerdictInv'
  BY <1>2 DEF IpaInv, VerdictInv
<1>4. cursor' \in Nat /\ pending' \in 0..cursor' /\ produced' \in Nat
  BY DEF InflateInv
<1>5. TypeOK'
  BY <1>1, <1>2, <1>4 DEF TypeOK, Stages
<1> QED BY <1>3, <1>5

\* A step that changes no more than the stage and the index.
Passes ==
  /\ archive' = archive /\ reason' = reason
  /\ UNCHANGED payloadVars /\ UNCHANGED shapeVars
LEMMA QuietStep ==
  ASSUME IpaInv, Passes
  PROVE  /\ InflateInv' /\ found' = found /\ member' = member
         /\ explicit' = explicit /\ \A n : PathsTaken(n)' <=> PathsTaken(n)
BY PayloadSteady, ShapeSteady DEF IpaInv, Passes

LEMMA ReadsArchiveStep == IpaInv /\ ReadsArchive => IpaInv'
<1> SUFFICES ASSUME IpaInv, ReadsArchive PROVE IpaInv'
  OBVIOUS
<1>1. /\ stage = "read" /\ archive' = archive /\ archive \in Archives
      /\ UNCHANGED payloadVars /\ UNCHANGED shapeVars
  BY DEF ReadsArchive, Stage, IpaInv
<1>2. \/ FileRead /\ Goto("end")
      \/ ~FileRead /\ \E why : why \notin {"SUCCESS", "PENDING"} /\ Refuse(why)
  BY <1>1, ArchiveFacts, LimitsAssumption
     DEF ReadsArchive, FileRead, LimitsAssumption
<1>3. ASSUME NEW why, ~FileRead, why \notin {"SUCCESS", "PENDING"}, Refuse(why)
      PROVE  IpaInv'
  <2>1. Ends(why)
    BY <1>1, <1>3, WellFormedNeeds DEF Ends, Justified
  <2> QED BY <2>1, EndsStep
<1>4. CASE FileRead /\ Goto("end")
  <2>1. stage' = "end" /\ index' = 0 /\ reason' = reason
    BY <1>4 DEF Goto
  <2>2. FileRead'
    BY <1>1, <1>4, Steady
  <2>3. /\ InflateInv' /\ found' = found /\ explicit' = explicit
        /\ \A n : PathsTaken(n)' <=> PathsTaken(n)
    BY <1>1, <2>1, QuietStep DEF Passes
  <2>4. (archive \in Archives)' /\ TypeOK' /\ VerdictInv'
    BY <1>1, <2>1, <2>3, PassesStep, ArchiveFacts DEF IpaInv, Stages
  <2>5. DirectoryInv' /\ PayloadInv' /\ BoundsInv' /\ ShapeInv'
    BY <1>1, <2>1, <2>2, <2>3
       DEF IpaInv, DirectoryInv, PayloadInv, BoundsInv, ShapeInv
  <2> QED BY <2>3, <2>4, <2>5 DEF IpaInv
<1> QED BY <1>2, <1>3, <1>4

LEMMA FindsEndStep == IpaInv /\ FindsEnd => IpaInv'
<1> SUFFICES ASSUME IpaInv, FindsEnd PROVE IpaInv'
  OBVIOUS
<1>1. /\ stage = "end" /\ archive' = archive
      /\ UNCHANGED payloadVars /\ UNCHANGED shapeVars
  BY DEF FindsEnd, Stage
<1>2. \/ EndFound /\ Goto("preflight")
      \/ ~EndFound /\ Refuse("IPA_ZIP_DIRECTORY_INVALID")
  BY Zenon DEF FindsEnd, EndFound
<1>3. CASE ~EndFound /\ Refuse("IPA_ZIP_DIRECTORY_INVALID")
  <2>1. ~WellFormed
    BY <1>3, WellFormedNeeds DEF IpaInv
  <2>2. Ends("IPA_ZIP_DIRECTORY_INVALID")
    BY <1>1, <1>3, <2>1 DEF Ends, Justified
  <2> QED BY <2>2, EndsStep
<1>4. CASE EndFound /\ Goto("preflight")
  <2>1. stage' = "preflight" /\ index' = 0 /\ reason' = reason
    BY <1>4 DEF Goto
  <2>2. FileRead' /\ EndFound'
    BY <1>1, <1>4, Steady DEF IpaInv, DirectoryInv
  <2>3. /\ InflateInv' /\ found' = found /\ explicit' = explicit
        /\ \A n : PathsTaken(n)' <=> PathsTaken(n)
    BY <1>1, <2>1, QuietStep DEF Passes
  <2>4. (archive \in Archives)' /\ TypeOK' /\ VerdictInv'
    BY <1>1, <2>1, <2>3, PassesStep, ArchiveFacts DEF IpaInv, Stages
  <2>5. DirectoryInv' /\ PayloadInv' /\ BoundsInv' /\ ShapeInv'
    BY <1>1, <2>1, <2>2, <2>3
       DEF IpaInv, DirectoryInv, PayloadInv, BoundsInv, ShapeInv
  <2> QED BY <2>3, <2>4, <2>5 DEF IpaInv
<1> QED BY <1>2, <1>3, <1>4

LEMMA PreflightsStep == IpaInv /\ Preflights => IpaInv'
<1> SUFFICES ASSUME IpaInv, Preflights PROVE IpaInv'
  OBVIOUS
<1>1. /\ stage = "preflight" /\ archive' = archive
      /\ UNCHANGED payloadVars /\ UNCHANGED shapeVars
  BY DEF Preflights, Stage
<1>2. /\ Declared \in Nat /\ archive.size \in Nat /\ Len(Entries) \in Nat
      /\ archive.directory_size \in Nat /\ archive.size <= archive.directory_size
      /\ MAX_CENTRAL_DIRECTORY_BYTES \in Nat
  BY ArchiveFacts, LimitsAssumption DEF IpaInv, LimitsAssumption
<1>3. \/ /\ \/ ~archive.coherent \/ ~archive.adjacent
            \/ Declared > archive.directory_size
         /\ Refuse("IPA_ZIP_DIRECTORY_INVALID")
      \/ Declared > MAX_ZIP_ENTRIES /\ Refuse("IPA_TOO_MANY_ENTRIES")
      \/ /\ archive.directory_size > MAX_CENTRAL_DIRECTORY_BYTES
         /\ Refuse("IPA_ZIP_DIRECTORY_TOO_LARGE")
      \/ /\ archive.coherent /\ archive.adjacent
         /\ ~(archive.directory_size > MAX_CENTRAL_DIRECTORY_BYTES)
         /\ ~(Declared > MAX_ZIP_ENTRIES) /\ Goto("directory")
  BY Zenon DEF Preflights, Declared
<1>4. CASE Declared > MAX_ZIP_ENTRIES /\ Refuse("IPA_TOO_MANY_ENTRIES")
  <2>1. ~WellFormed
    BY <1>2, <1>4, WellFormedNeeds, LimitsAssumption
       DEF IpaInv, DirectoryRead, LimitsAssumption
  <2>2. Ends("IPA_TOO_MANY_ENTRIES")
    BY <1>1, <1>4, <2>1 DEF Ends, Justified
  <2> QED BY <2>2, EndsStep
<1>7. CASE /\ archive.directory_size > MAX_CENTRAL_DIRECTORY_BYTES
           /\ Refuse("IPA_ZIP_DIRECTORY_TOO_LARGE")
  <2>1. ~WellFormed
    BY <1>2, <1>7, WellFormedNeeds DEF IpaInv, DirectoryRead
  <2>2. Ends("IPA_ZIP_DIRECTORY_TOO_LARGE")
    BY <1>1, <1>7, <2>1 DEF Ends, Justified
  <2> QED BY <2>2, EndsStep
<1>5. CASE /\ ~archive.coherent \/ ~archive.adjacent \/ Declared > archive.directory_size
           /\ Refuse("IPA_ZIP_DIRECTORY_INVALID")
  <2>1. ~WellFormed
    BY <1>2, <1>5, WellFormedNeeds DEF IpaInv, DirectoryRead
  <2>2. Ends("IPA_ZIP_DIRECTORY_INVALID")
    BY <1>1, <1>5, <2>1 DEF Ends, Justified
  <2> QED BY <2>2, EndsStep
<1>6. CASE /\ archive.coherent /\ archive.adjacent
           /\ ~(archive.directory_size > MAX_CENTRAL_DIRECTORY_BYTES)
           /\ ~(Declared > MAX_ZIP_ENTRIES) /\ Goto("directory")
  <2>1. stage' = "directory" /\ index' = 0 /\ reason' = reason
    BY <1>6 DEF Goto
  <2>2. /\ (FileRead' <=> FileRead) /\ (EndFound' <=> EndFound) /\ Declared' = Declared /\ Entries' = Entries
        /\ \A n : RecordsRead(n)' <=> RecordsRead(n)
    BY <1>1, Steady
  <2>3. /\ InflateInv' /\ found' = found /\ explicit' = explicit
        /\ \A n : PathsTaken(n)' <=> PathsTaken(n)
    BY <1>1, <2>1, QuietStep DEF Passes
  <2>4. (archive \in Archives)' /\ TypeOK' /\ VerdictInv'
    BY <1>1, <1>2, <2>1, <2>3, PassesStep DEF Stages
  <2>5. RecordsRead(0)
    BY DEF RecordsRead
  <2>6. DirectoryInv'
    <3>1. /\ archive.coherent /\ archive.adjacent /\ Declared <= MAX_ZIP_ENTRIES
          /\ archive.directory_size <= MAX_CENTRAL_DIRECTORY_BYTES
      BY <1>2, <1>6, LimitsAssumption DEF LimitsAssumption
    <3> QED BY <1>1, <1>2, <2>1, <2>2, <2>5, <3>1 DEF IpaInv, DirectoryInv
  <2>7. PayloadInv' /\ BoundsInv' /\ ShapeInv'
    BY <1>1, <2>1, <2>3 DEF IpaInv, PayloadInv, BoundsInv, ShapeInv
  <2> QED BY <2>3, <2>4, <2>6, <2>7 DEF IpaInv
<1> QED BY <1>3, <1>4, <1>5, <1>6, <1>7

LEMMA ReadsRecordStep == IpaInv /\ ReadsRecord => IpaInv'
<1> SUFFICES ASSUME IpaInv, ReadsRecord PROVE IpaInv'
  OBVIOUS
<1>1. /\ stage = "directory" /\ archive' = archive /\ index < archive.size
      /\ UNCHANGED payloadVars /\ UNCHANGED shapeVars
  BY DEF ReadsRecord, Stage
<1>2. /\ Declared \in Nat /\ archive.size \in Nat /\ Len(Entries) \in Nat
      /\ index \in Nat /\ index <= Len(Entries) /\ RecordsRead(index)
  BY <1>1, ArchiveFacts DEF IpaInv, TypeOK, DirectoryInv
<1>3. \/ index >= MAX_ZIP_ENTRIES /\ Refuse("IPA_TOO_MANY_ENTRIES")
      \/ index >= Len(Entries) /\ Refuse("IPA_ZIP_DIRECTORY_INVALID")
      \/ ~Supported(Entry) /\ Refuse("IPA_MEMBER_UNSUPPORTED")
      \/ /\ ~(Zip64Agrees(Entry) /\ LocalAgrees(Entry))
         /\ Refuse("IPA_ZIP_LOCAL_HEADER_INVALID")
      \/ /\ ~(index >= Len(Entries))
         /\ Supported(Entry) /\ Zip64Agrees(Entry) /\ LocalAgrees(Entry) /\ Next1
  BY Zenon DEF ReadsRecord
<1>4. WellFormed =>
        /\ index + 1 \in 1..Declared /\ Declared <= MAX_ZIP_ENTRIES
        /\ Declared <= Len(Entries)
        /\ Supported(Entry) /\ Zip64Agrees(Entry) /\ LocalAgrees(Entry)
  <2> SUFFICES ASSUME WellFormed
               PROVE  /\ index + 1 \in 1..Declared /\ Declared <= MAX_ZIP_ENTRIES
                      /\ Declared <= Len(Entries)
                      /\ Supported(Entry) /\ Zip64Agrees(Entry) /\ LocalAgrees(Entry)
    OBVIOUS
  <2>1. DirectoryRead
    BY WellFormedNeeds DEF IpaInv
  <2>2. index + 1 \in 1..Declared
    BY <1>1, <1>2, <2>1 DEF DirectoryRead
  <2> QED BY <2>1, <2>2 DEF DirectoryRead, RecordsRead, Entry
<1>5. CASE index >= MAX_ZIP_ENTRIES /\ Refuse("IPA_TOO_MANY_ENTRIES")
  <2>1. Ends("IPA_TOO_MANY_ENTRIES")
    BY <1>1, <1>2, <1>4, <1>5, LimitsAssumption DEF Ends, Justified, LimitsAssumption
  <2> QED BY <2>1, EndsStep
<1>6. CASE index >= Len(Entries) /\ Refuse("IPA_ZIP_DIRECTORY_INVALID")
  <2>1. Ends("IPA_ZIP_DIRECTORY_INVALID")
    BY <1>1, <1>2, <1>4, <1>6 DEF Ends, Justified
  <2> QED BY <2>1, EndsStep
<1>7. CASE ~Supported(Entry) /\ Refuse("IPA_MEMBER_UNSUPPORTED")
  <2>1. Ends("IPA_MEMBER_UNSUPPORTED")
    BY <1>1, <1>4, <1>7 DEF Ends, Justified
  <2> QED BY <2>1, EndsStep
<1>8. CASE /\ ~(Zip64Agrees(Entry) /\ LocalAgrees(Entry))
           /\ Refuse("IPA_ZIP_LOCAL_HEADER_INVALID")
  <2>1. Ends("IPA_ZIP_LOCAL_HEADER_INVALID")
    BY <1>1, <1>4, <1>8 DEF Ends, Justified
  <2> QED BY <2>1, EndsStep
<1>9. CASE /\ ~(index >= Len(Entries))
           /\ Supported(Entry) /\ Zip64Agrees(Entry) /\ LocalAgrees(Entry) /\ Next1
  <2>1. stage' = "directory" /\ index' = index + 1 /\ reason' = reason
    BY <1>1, <1>9 DEF Next1
  <2>2. /\ (FileRead' <=> FileRead) /\ (EndFound' <=> EndFound) /\ Declared' = Declared /\ Entries' = Entries
        /\ \A n : RecordsRead(n)' <=> RecordsRead(n)
    BY <1>1, Steady
  <2>3. /\ InflateInv' /\ found' = found /\ explicit' = explicit
        /\ \A n : PathsTaken(n)' <=> PathsTaken(n)
    BY <1>1, <2>1, QuietStep DEF Passes
  <2>4. (archive \in Archives)' /\ TypeOK' /\ VerdictInv'
    BY <1>1, <1>2, <1>9, <2>1, <2>3, PassesStep DEF Stages
  <2>5. RecordsRead(index + 1)
    <3>1. \A k \in 1..(index + 1) : k \in 1..index \/ k = index + 1
      BY <1>2
    <3> QED BY <1>2, <1>9, <3>1 DEF RecordsRead, Entry
  <2>6. DirectoryInv'
    BY <1>1, <1>2, <1>9, <2>1, <2>2, <2>5 DEF IpaInv, DirectoryInv
  <2>7. PayloadInv' /\ BoundsInv' /\ ShapeInv'
    BY <1>1, <2>1, <2>3 DEF IpaInv, PayloadInv, BoundsInv, ShapeInv
  <2> QED BY <2>3, <2>4, <2>6, <2>7 DEF IpaInv
<1> QED BY <1>3, <1>5, <1>6, <1>7, <1>8, <1>9
LEMMA EndsDirectoryStep == IpaInv /\ EndsDirectory => IpaInv'
<1> SUFFICES ASSUME IpaInv, EndsDirectory PROVE IpaInv'
  OBVIOUS
<1>1. /\ stage = "directory" /\ archive' = archive /\ index >= archive.size
      /\ UNCHANGED payloadVars /\ UNCHANGED shapeVars
  BY DEF EndsDirectory, Stage
<1>2. /\ Declared \in Nat /\ archive.size \in Nat /\ Len(Entries) \in Nat
      /\ index = archive.size /\ index <= Len(Entries) /\ RecordsRead(index)
      /\ archive.coherent /\ archive.adjacent /\ Declared <= MAX_ZIP_ENTRIES
      /\ archive.directory_size <= MAX_CENTRAL_DIRECTORY_BYTES
  BY <1>1, ArchiveFacts DEF IpaInv, TypeOK, DirectoryInv
<1>3. \/ index = Declared /\ Goto("ranges")
      \/ index # Declared /\ Refuse("IPA_ZIP_DIRECTORY_INVALID")
  BY DEF EndsDirectory, Declared
<1>4. CASE index # Declared /\ Refuse("IPA_ZIP_DIRECTORY_INVALID")
  <2>1. ~WellFormed
    BY <1>2, <1>4, WellFormedNeeds DEF IpaInv, DirectoryRead
  <2>2. Ends("IPA_ZIP_DIRECTORY_INVALID")
    BY <1>1, <1>4, <2>1 DEF Ends, Justified
  <2> QED BY <2>2, EndsStep
<1>5. CASE index = Declared /\ Goto("ranges")
  <2>1. stage' = "ranges" /\ index' = 0 /\ reason' = reason
    BY <1>5 DEF Goto
  <2>2. DirectoryRead
    BY <1>2, <1>5 DEF DirectoryRead
  <2>3. FileRead' /\ EndFound' /\ DirectoryRead'
    BY <1>1, <2>2, Steady DEF IpaInv, DirectoryInv
  <2>4. /\ InflateInv' /\ found' = found /\ explicit' = explicit
        /\ \A n : PathsTaken(n)' <=> PathsTaken(n)
    BY <1>1, <2>1, QuietStep DEF Passes
  <2>5. (archive \in Archives)' /\ TypeOK' /\ VerdictInv'
    BY <1>1, <1>2, <2>1, <2>4, PassesStep DEF Stages
  <2>6. DirectoryInv' /\ PayloadInv' /\ BoundsInv' /\ ShapeInv'
    BY <1>1, <2>1, <2>3, <2>4
       DEF IpaInv, DirectoryInv, PayloadInv, BoundsInv, ShapeInv
  <2> QED BY <2>4, <2>5, <2>6 DEF IpaInv
<1> QED BY <1>3, <1>4, <1>5

LEMMA ChecksRangesStep == IpaInv /\ ChecksRanges => IpaInv'
<1> SUFFICES ASSUME IpaInv, ChecksRanges PROVE IpaInv'
  OBVIOUS
<1>1. /\ stage = "ranges" /\ archive' = archive
      /\ UNCHANGED payloadVars /\ UNCHANGED shapeVars
  BY DEF ChecksRanges, Stage
<1>2. FileRead /\ EndFound /\ DirectoryRead /\ archive \in Archives
  BY <1>1 DEF IpaInv, DirectoryInv
<1>3. \/ Disjoint /\ Goto("sizes")
      \/ ~Disjoint /\ Refuse("IPA_ZIP_LOCAL_HEADER_INVALID")
  BY <1>2, RangesAreDisjoint, Zenon DEF ChecksRanges
<1>4. CASE ~Disjoint /\ Refuse("IPA_ZIP_LOCAL_HEADER_INVALID")
  <2>1. Ends("IPA_ZIP_LOCAL_HEADER_INVALID")
    BY <1>1, <1>2, <1>4, WellFormedIs DEF Ends, Justified
  <2> QED BY <2>1, EndsStep
<1>5. CASE Disjoint /\ Goto("sizes")
  <2>1. stage' = "sizes" /\ index' = 0 /\ reason' = reason
    BY <1>5 DEF Goto
  <2>2. FileRead' /\ EndFound' /\ DirectoryRead' /\ Disjoint'
    BY <1>1, <1>2, <1>5, Steady
  <2>3. /\ InflateInv' /\ found' = found /\ explicit' = explicit
        /\ \A n : PathsTaken(n)' <=> PathsTaken(n)
    BY <1>1, <2>1, QuietStep DEF Passes
  <2>4. (archive \in Archives)' /\ TypeOK' /\ VerdictInv'
    BY <1>1, <1>2, <2>1, <2>3, PassesStep, ArchiveFacts DEF Stages
  <2>5. DirectoryInv' /\ PayloadInv' /\ BoundsInv' /\ ShapeInv'
    BY <1>1, <2>1, <2>2, <2>3
       DEF IpaInv, DirectoryInv, PayloadInv, BoundsInv, ShapeInv
  <2> QED BY <2>3, <2>4, <2>5 DEF IpaInv
<1> QED BY <1>3, <1>4, <1>5

LEMMA ChecksSizesStep == IpaInv /\ ChecksSizes => IpaInv'
<1> SUFFICES ASSUME IpaInv, ChecksSizes PROVE IpaInv'
  OBVIOUS
<1>1. /\ stage = "sizes" /\ archive' = archive
      /\ UNCHANGED payloadVars /\ UNCHANGED shapeVars
  BY DEF ChecksSizes, Stage
<1>2. FileRead /\ EndFound /\ DirectoryRead /\ Disjoint /\ archive \in Archives
  BY <1>1 DEF IpaInv, DirectoryInv, BoundsInv
<1>3. \/ SizesValid(Members) /\ Goto("payloads")
      \/ ~SizesValid(Members) /\ Refuse("IPA_EXPANDED_TOO_LARGE")
  BY Zenon DEF ChecksSizes
<1>4. CASE ~SizesValid(Members) /\ Refuse("IPA_EXPANDED_TOO_LARGE")
  <2>1. Ends("IPA_EXPANDED_TOO_LARGE")
    BY <1>1, <1>2, <1>4, WellFormedIs DEF Ends, Justified
  <2> QED BY <2>1, EndsStep
<1>5. CASE SizesValid(Members) /\ Goto("payloads")
  <2>1. stage' = "payloads" /\ index' = 0 /\ reason' = reason
    BY <1>5 DEF Goto
  <2>2. /\ FileRead' /\ EndFound' /\ DirectoryRead' /\ Disjoint' /\ SizesValid(Members)'
        /\ \A n : PayloadsRead(n)' <=> PayloadsRead(n)
    BY <1>1, <1>2, <1>5, Steady
  <2>3. /\ InflateInv' /\ found' = found /\ explicit' = explicit
        /\ \A n : PathsTaken(n)' <=> PathsTaken(n)
    BY <1>1, <2>1, QuietStep DEF Passes
  <2>4. (archive \in Archives)' /\ TypeOK' /\ VerdictInv'
    BY <1>1, <1>2, <2>1, <2>3, PassesStep, ArchiveFacts DEF Stages
  <2>5. PayloadInv'
    <3>1. PayloadsRead(0) /\ 0 <= Declared'
      BY <1>1, <1>2, Steady, ArchiveFacts DEF PayloadsRead
    <3> QED BY <1>1, <2>1, <2>2, <2>3, <3>1 DEF IpaInv, PayloadInv
  <2>6. DirectoryInv' /\ BoundsInv' /\ ShapeInv'
    BY <1>1, <2>1, <2>2, <2>3
       DEF IpaInv, DirectoryInv, BoundsInv, ShapeInv
  <2> QED BY <2>3, <2>4, <2>5, <2>6 DEF IpaInv
<1> QED BY <1>3, <1>4, <1>5

\* What is known of the next member while payloads, or paths, are checked.
LEMMA NextMember ==
  ASSUME IpaInv, stage \in {"payloads", "shape"}
  PROVE  /\ archive \in Archives /\ FileRead /\ EndFound /\ DirectoryRead
         /\ Disjoint /\ SizesValid(Members) /\ Len(Members) = Declared
         /\ Declared \in Nat /\ Len(Entries) \in Nat /\ Declared <= Len(Entries)
         /\ index \in Nat /\ index <= Declared
         /\ index < Declared =>
              /\ index + 1 \in 1..Declared /\ Entry = Entries[index + 1]
              /\ Entry \in EntryType
<1>1. /\ archive \in Archives /\ FileRead /\ EndFound /\ DirectoryRead
      /\ Disjoint /\ SizesValid(Members) /\ index \in Nat /\ index <= Declared
  BY DEF IpaInv, TypeOK, DirectoryInv, BoundsInv, PayloadInv, ShapeInv
<1>2. Declared \in Nat /\ Len(Entries) \in Nat /\ Declared <= Len(Entries)
  BY <1>1, ArchiveFacts DEF DirectoryRead
<1>3. Len(Members) = Declared
  BY <1>1, <1>2, MembersAre
<1>4. ASSUME index < Declared
      PROVE  /\ index + 1 \in 1..Declared /\ Entry = Entries[index + 1]
             /\ Entry \in EntryType
  <2>1. index + 1 \in 1..Declared /\ index + 1 \in 1..Len(Entries)
    BY <1>1, <1>2, <1>4
  <2> QED BY <1>1, <2>1, ArchiveFacts DEF Entry
<1> QED BY <1>1, <1>2, <1>3, <1>4

\* The next payload is as declared, and nothing is being inflated any more.
LEMMA PayloadPasses ==
  ASSUME IpaInv, stage = "payloads", index < Declared, Payload(Entry), Next1,
         archive' = archive, UNCHANGED shapeVars, found' = "none", InflateInv'
  PROVE  IpaInv'
<1>1. stage' = "payloads" /\ index' = index + 1 /\ reason' = reason
  BY DEF Next1
<1>2. /\ archive \in Archives /\ FileRead /\ EndFound /\ DirectoryRead
      /\ Disjoint /\ SizesValid(Members) /\ index \in Nat
      /\ Declared \in Nat /\ Len(Entries) \in Nat /\ Declared <= Len(Entries)
      /\ Entry = Entries[index + 1]
  BY NextMember
<1>3. /\ FileRead' /\ EndFound' /\ DirectoryRead' /\ Disjoint' /\ SizesValid(Members)'
      /\ Declared' = Declared /\ \A n : PayloadsRead(n)' <=> PayloadsRead(n)
  BY <1>2, Steady
<1>4. explicit' = explicit /\ \A n : PathsTaken(n)' <=> PathsTaken(n)
  BY ShapeSteady
<1>5. (archive \in Archives)' /\ TypeOK' /\ VerdictInv'
  BY <1>1, <1>2, PassesStep DEF Stages
<1>6. PayloadsRead(index + 1)
  <2>1. \A k \in 1..(index + 1) : k \in 1..index \/ k = index + 1
    BY <1>2
  <2> QED BY <1>2, <2>1 DEF IpaInv, PayloadInv, PayloadsRead
<1>7. PayloadInv'
  BY <1>1, <1>2, <1>3, <1>6 DEF PayloadInv
<1>8. DirectoryInv' /\ BoundsInv'
  BY <1>1, <1>3 DEF DirectoryInv, BoundsInv
<1>9. ShapeInv'
  BY <1>1, <1>4 DEF IpaInv, ShapeInv
<1> QED BY <1>5, <1>7, <1>8, <1>9 DEF IpaInv

LEMMA ChecksStoredStep == IpaInv /\ ChecksStored => IpaInv'
<1> SUFFICES ASSUME IpaInv, ChecksStored PROVE IpaInv'
  OBVIOUS
<1>1. /\ stage = "payloads" /\ archive' = archive /\ index < Len(Members)
      /\ found = "none" /\ Entry.method = "stored"
      /\ UNCHANGED payloadVars /\ UNCHANGED shapeVars
  BY DEF ChecksStored, Stage
<1>2. /\ archive \in Archives /\ FileRead /\ EndFound /\ DirectoryRead
      /\ Len(Members) = Declared /\ index + 1 \in 1..Declared
      /\ Entry = Entries[index + 1]
  BY <1>1, NextMember
<1>3. Payload(Entry) <=> Len(Entry.outputs) = Entry.file_size /\ Entry.crc
  BY <1>1 DEF Payload
<1>4. WellFormed => Payload(Entry)
  BY <1>2, WellFormedIs DEF PayloadsRead
<1>5. \/ Len(Entry.outputs) # Entry.file_size /\ Refuse("IPA_ZIP_SIZE_MISMATCH")
      \/ ~Entry.crc /\ Refuse("IPA_CRC_MISMATCH")
      \/ Len(Entry.outputs) = Entry.file_size /\ Entry.crc /\ Next1
  BY Zenon DEF ChecksStored
<1>6. CASE Len(Entry.outputs) # Entry.file_size /\ Refuse("IPA_ZIP_SIZE_MISMATCH")
  <2>1. Ends("IPA_ZIP_SIZE_MISMATCH")
    BY <1>1, <1>3, <1>4, <1>6 DEF Ends, Justified
  <2> QED BY <2>1, EndsStep
<1>7. CASE ~Entry.crc /\ Refuse("IPA_CRC_MISMATCH")
  <2>1. Ends("IPA_CRC_MISMATCH")
    BY <1>1, <1>3, <1>4, <1>7 DEF Ends, Justified
  <2> QED BY <2>1, EndsStep
<1>8. CASE Len(Entry.outputs) = Entry.file_size /\ Entry.crc /\ Next1
  <2>1. InflateInv' /\ found' = "none"
    BY <1>1, PayloadSteady DEF IpaInv
  <2> QED BY <1>1, <1>2, <1>3, <1>8, <2>1, PayloadPasses
<1> QED BY <1>5, <1>6, <1>7, <1>8

\* A step of the integrity check itself leaves the rest alone.
LEMMA InflatingStep ==
  ASSUME IpaInv, stage = "payloads", index < Declared, archive' = archive,
         stage' = stage, index' = index, reason' = reason, UNCHANGED shapeVars,
         InflateInv', member' = AsMember(Entry), Entry.method = "deflated"
  PROVE  IpaInv'
<1>1. /\ archive \in Archives /\ FileRead /\ EndFound /\ DirectoryRead
      /\ Disjoint /\ SizesValid(Members) /\ index \in Nat /\ index <= Declared
      /\ Declared \in Nat /\ Len(Entries) \in Nat /\ Declared <= Len(Entries)
  BY NextMember
<1>2. /\ FileRead' /\ EndFound' /\ DirectoryRead' /\ Disjoint' /\ SizesValid(Members)'
      /\ Declared' = Declared /\ Entries' = Entries
      /\ \A n : PayloadsRead(n)' <=> PayloadsRead(n)
  BY <1>1, Steady
<1>3. explicit' = explicit /\ \A n : PathsTaken(n)' <=> PathsTaken(n)
  BY ShapeSteady
<1>4. (archive \in Archives)' /\ TypeOK' /\ VerdictInv'
  BY <1>1, PassesStep DEF Stages
<1>5. Entry' = Entry /\ AsMember(Entry)' = AsMember(Entry)
  BY <1>2 DEF Entry, AsMember
<1>6. PayloadInv'
  BY <1>1, <1>2, <1>5 DEF IpaInv, PayloadInv
<1>7. DirectoryInv' /\ BoundsInv'
  BY <1>2 DEF DirectoryInv, BoundsInv
<1>8. ShapeInv'
  BY <1>3 DEF IpaInv, ShapeInv
<1> QED BY <1>4, <1>6, <1>7, <1>8 DEF IpaInv

LEMMA StartsInflatingStep == IpaInv /\ StartsInflating => IpaInv'
<1> SUFFICES ASSUME IpaInv, StartsInflating PROVE IpaInv'
  OBVIOUS
<1>1. /\ stage = "payloads" /\ archive' = archive /\ index < Len(Members)
      /\ Entry.method = "deflated" /\ Inf!Begins(AsMember(Entry))
      /\ stage' = stage /\ index' = index /\ reason' = reason
      /\ UNCHANGED shapeVars
  BY DEF StartsInflating, Stage
<1>2. index < Declared /\ AsMember(Entry) \in MemberType
  BY <1>1, NextMember, EntryFacts
<1>3. InflateInv'
  BY <1>1, <1>2, BeginsStep DEF IpaInv
<1>4. member' = AsMember(Entry)
  BY <1>1 DEF Inf!Begins
<1> QED BY <1>1, <1>2, <1>3, <1>4, InflatingStep

LEMMA InflatesIpaStep == IpaInv /\ Inflates => IpaInv'
<1> SUFFICES ASSUME IpaInv, Inflates PROVE IpaInv'
  OBVIOUS
<1>1. /\ stage = "payloads" /\ archive' = archive /\ Inf!Inflates
      /\ stage' = stage /\ index' = index /\ reason' = reason
      /\ UNCHANGED shapeVars
  BY DEF Inflates, Stage
<1>2. found = "reading" /\ member' = member
  BY <1>1 DEF Inf!Inflates, Inf!TakesChunk, Inf!Decompresses, Inf!EndsPayload, Inf!Says
<1>3. /\ index < Declared /\ Entry.method = "deflated"
      /\ member' = AsMember(Entry)
  BY <1>1, <1>2 DEF IpaInv, PayloadInv
<1>4. InflateInv'
  BY <1>1, InflatesStep DEF IpaInv
<1> QED BY <1>1, <1>3, <1>4, InflatingStep

LEMMA EndsInflatingStep == IpaInv /\ EndsInflating => IpaInv'
<1> SUFFICES ASSUME IpaInv, EndsInflating PROVE IpaInv'
  OBVIOUS
<1>1. /\ stage = "payloads" /\ archive' = archive
      /\ found \notin {"none", "reading"}
      /\ UNCHANGED <<member, cursor, pending, produced, shapeVars>>
  BY DEF EndsInflating, Stage
<1>2. \/ found = "intact" /\ Next1 /\ found' = "none"
      \/ found # "intact" /\ Refuse(found) /\ UNCHANGED found
  BY Zenon DEF EndsInflating
<1>3. /\ index < Declared /\ Entry.method = "deflated"
      /\ member = AsMember(Entry) /\ InflateInv
  BY <1>1 DEF IpaInv, PayloadInv
<1>4. Payload(Entry) <=> Inf!Intact(member)
  BY <1>3 DEF Payload
<1>5. CASE found = "intact" /\ Next1 /\ found' = "none"
  <2>1. Payload(Entry)
    BY <1>3, <1>4, <1>5 DEF InflateInv
  <2>2. InflateInv'
    BY <1>1, <1>3, <1>5 DEF InflateInv, MemberType, Faults
  <2> QED BY <1>1, <1>3, <1>5, <2>1, <2>2, PayloadPasses
<1>6. CASE found # "intact" /\ Refuse(found) /\ UNCHANGED found
  <2>1. found \in Faults /\ (~Inf!Intact(member) \/ Stuck)
    BY <1>1, <1>3, <1>6 DEF InflateInv
  <2>2. WellFormed => Payload(Entry)
    BY <1>1, <1>3, NextMember, WellFormedIs DEF PayloadsRead
  <2>3. found # "PENDING" /\ Justified(found)
    BY <1>4, <2>1, <2>2 DEF Justified, Stuck, Faults
  <2>4. Ends(found)
    BY <1>1, <1>6, <2>3 DEF Ends, payloadVars
  <2> QED BY <2>4, EndsStep
<1> QED BY <1>2, <1>5, <1>6
LEMMA EndsPayloadsStep == IpaInv /\ EndsPayloads => IpaInv'
<1> SUFFICES ASSUME IpaInv, EndsPayloads PROVE IpaInv'
  OBVIOUS
<1>1. /\ stage = "payloads" /\ archive' = archive /\ index = Len(Members)
      /\ stage' = "shape" /\ index' = 0 /\ reason' = reason
      /\ UNCHANGED payloadVars /\ UNCHANGED shapeVars
  BY DEF EndsPayloads, Stage, Goto
<1>2. /\ archive \in Archives /\ FileRead /\ EndFound /\ DirectoryRead
      /\ Disjoint /\ SizesValid(Members) /\ index = Declared
      /\ Declared \in Nat /\ Len(Entries) \in Nat
  BY <1>1, NextMember
<1>3. found = "none" /\ PayloadsRead(Declared)
  BY <1>1, <1>2 DEF IpaInv, PayloadInv
<1>4. /\ FileRead' /\ EndFound' /\ DirectoryRead' /\ Disjoint' /\ SizesValid(Members)'
      /\ Declared' = Declared /\ PayloadsRead(Declared)'
  BY <1>1, <1>2, <1>3, Steady
<1>5. /\ InflateInv' /\ found' = found /\ explicit' = explicit
      /\ \A n : PathsTaken(n)' <=> PathsTaken(n)
  BY <1>1, QuietStep DEF Passes
<1>6. (archive \in Archives)' /\ TypeOK' /\ VerdictInv'
  BY <1>1, <1>2, <1>5, PassesStep DEF Stages
<1>7. DirectoryInv' /\ BoundsInv' /\ PayloadInv'
  BY <1>1, <1>3, <1>4, <1>5 DEF DirectoryInv, BoundsInv, PayloadInv
<1>8. ShapeInv'
  BY <1>1, <1>2, <1>4, <1>5 DEF IpaInv, ShapeInv
<1> QED BY <1>5, <1>6, <1>7, <1>8 DEF IpaInv

LEMMA TakesPathStep == IpaInv /\ TakesPath => IpaInv'
<1> SUFFICES ASSUME IpaInv, TakesPath PROVE IpaInv'
  OBVIOUS
<1> DEFINE e == Entry
           name == Canonical(e)
           above == implicit \cup Ancestors(name)
<1>1. /\ stage = "shape" /\ archive' = archive /\ index < Len(Members)
      /\ UNCHANGED payloadVars
  BY DEF TakesPath, Stage
<1>2. /\ archive \in Archives /\ FileRead /\ EndFound /\ DirectoryRead
      /\ Disjoint /\ SizesValid(Members) /\ index \in Nat /\ index < Declared
      /\ Declared \in Nat /\ Len(Entries) \in Nat /\ Declared <= Len(Entries)
      /\ index + 1 \in 1..Declared /\ e = Entries[index + 1]
      /\ name \in Seq(Parts)
  BY <1>1, NextMember, CanonicalIs
<1>3. PathsTaken(index) /\ found = "none" /\ PayloadsRead(Declared)
  BY <1>1 DEF IpaInv, ShapeInv, PayloadInv
<1>4. Trees(index + 1) <=> ~Clashes
  BY <1>2, <1>3, ClashesAre
<1>5. WellFormed => ~Clashes /\ TypeAgrees(e)
  <2> SUFFICES ASSUME WellFormed PROVE ~Clashes /\ TypeAgrees(e)
    OBVIOUS
  <2>1. Trees(Declared) /\ \A k \in 1..Declared : TypeAgrees(Entries[k])
    BY <1>2, WellFormedIs
  <2>2. Trees(index + 1)
    <3>1. \A k \in 1..(index + 1) : k \in 1..Declared
      BY <1>2
    <3> QED BY <2>1, <3>1 DEF Trees
  <2> QED BY <1>2, <1>4, <2>1, <2>2
<1>6. \/ /\ Clashes
         /\ \/ Refuse("IPA_MEMBER_PATH_COLLISION")
            \/ Refuse("IPA_MEMBER_PATH_CONFLICT")
         /\ UNCHANGED shapeVars
      \/ ~TypeAgrees(e) /\ Refuse("IPA_MEMBER_TYPE_MISMATCH") /\ UNCHANGED shapeVars
      \/ /\ ~Clashes /\ TypeAgrees(e)
         /\ names' = names \cup {name} /\ implicit' = above
         /\ explicit' = IF e.dir
              THEN [explicit EXCEPT !.dirs = @ \cup {name}]
              ELSE [explicit EXCEPT !.files = @ \cup {name}]
         /\ Next1
  BY Zenon DEF TakesPath, Clashes
<1>7. CASE /\ Clashes
           /\ \/ Refuse("IPA_MEMBER_PATH_COLLISION")
              \/ Refuse("IPA_MEMBER_PATH_CONFLICT")
           /\ UNCHANGED shapeVars
  <2>1. CASE Refuse("IPA_MEMBER_PATH_COLLISION")
    <3>1. Ends("IPA_MEMBER_PATH_COLLISION")
      BY <1>1, <1>5, <1>7, <2>1 DEF Ends, Justified
    <3> QED BY <3>1, EndsStep
  <2>2. CASE Refuse("IPA_MEMBER_PATH_CONFLICT")
    <3>1. Ends("IPA_MEMBER_PATH_CONFLICT")
      BY <1>1, <1>5, <1>7, <2>2 DEF Ends, Justified
    <3> QED BY <3>1, EndsStep
  <2> QED BY <1>7, <2>1, <2>2
<1>8. CASE /\ ~TypeAgrees(e) /\ Refuse("IPA_MEMBER_TYPE_MISMATCH")
           /\ UNCHANGED shapeVars
  <2>1. Ends("IPA_MEMBER_TYPE_MISMATCH")
    BY <1>1, <1>5, <1>8 DEF Ends, Justified
  <2> QED BY <2>1, EndsStep
<1>9. CASE /\ ~Clashes /\ TypeAgrees(e)
           /\ names' = names \cup {name} /\ implicit' = above
           /\ explicit' = IF e.dir
                THEN [explicit EXCEPT !.dirs = @ \cup {name}]
                ELSE [explicit EXCEPT !.files = @ \cup {name}]
           /\ Next1
  <2>1. stage' = "shape" /\ index' = index + 1 /\ reason' = reason
    BY <1>1, <1>9 DEF Next1
  <2>2. /\ FileRead' /\ EndFound' /\ DirectoryRead' /\ Disjoint' /\ SizesValid(Members)'
        /\ Declared' = Declared /\ Entries' = Entries /\ PayloadsRead(Declared)'
        /\ \A n : Trees(n)' <=> Trees(n)
    BY <1>1, <1>2, <1>3, Steady
  <2>3. InflateInv' /\ found' = "none"
    BY <1>1, <1>3, PayloadSteady DEF IpaInv
  <2>4. (archive \in Archives)' /\ TypeOK' /\ VerdictInv'
    BY <1>1, <1>2, <2>1, <2>3, PassesStep DEF Stages
  <2>5. DirectoryInv' /\ BoundsInv' /\ PayloadInv'
    BY <2>1, <2>2, <2>3 DEF DirectoryInv, BoundsInv, PayloadInv
  <2>6. /\ explicit \in [dirs : SUBSET Seq(Parts), files : SUBSET Seq(Parts)]
        /\ explicit' \in [dirs : SUBSET Seq(Parts), files : SUBSET Seq(Parts)]
        /\ explicit'.files = IF e.dir THEN explicit.files
                             ELSE explicit.files \cup {name}
    <3>1. explicit \in [dirs : SUBSET Seq(Parts), files : SUBSET Seq(Parts)]
      BY DEF IpaInv, ShapeInv
    <3> HIDE DEF name
    <3> QED BY <1>2, <1>9, <3>1
  <2>7. \A k : k \in 1..(index + 1) <=> k \in 1..index \/ k = index + 1
    BY <1>2
  <2>8. names' = {Canonical(Entries[k]) : k \in 1..(index + 1)}
    <3> DEFINE c(k) == Canonical(Entries[k])
    <3>1. names = {c(k) : k \in 1..index} /\ names' = names \cup {c(index + 1)}
      BY <1>2, <1>3, <1>9 DEF PathsTaken
    <3> HIDE DEF c, name, e, above
    <3>2. names' = {c(k) : k \in 1..(index + 1)}
      <4>1. \A n : n \in {c(k) : k \in 1..(index + 1)} <=>
                    n \in {c(k) : k \in 1..index} \/ n = c(index + 1)
        BY <2>7
      <4> QED BY <3>1, <4>1
    <3> QED BY <3>2 DEF c
  <2>9. implicit' = UNION {Ancestors(Canonical(Entries[k])) : k \in 1..(index + 1)}
    <3>1. implicit = UNION {Ancestors(Canonical(Entries[k])) : k \in 1..index}
      BY <1>3 DEF PathsTaken
    <3>2. implicit' = implicit \cup Ancestors(Canonical(Entries[index + 1]))
      BY <1>2, <1>9
    <3> DEFINE A(k) == Ancestors(Canonical(Entries[k]))
    <3>3. implicit = UNION {A(k) : k \in 1..index} /\ implicit' = implicit \cup A(index + 1)
      BY <3>1, <3>2
    <3> HIDE DEF A, name, above, e
    <3>4. /\ \A x : x \in UNION {A(k) : k \in 1..(index + 1)} <=>
                      \E k \in 1..(index + 1) : x \in A(k)
          /\ \A x : x \in UNION {A(k) : k \in 1..index} <=> \E k \in 1..index : x \in A(k)
      BY Zenon
    <3>5. \A x : (\E k \in 1..(index + 1) : x \in A(k)) <=>
                   (\E k \in 1..index : x \in A(k)) \/ x \in A(index + 1)
      BY <2>7, Zenon
    <3>6. \A x : x \in implicit' <=> x \in UNION {A(k) : k \in 1..(index + 1)}
      BY <3>3, <3>4, <3>5
    <3>7. implicit' = UNION {A(k) : k \in 1..(index + 1)}
      BY <3>6, Zenon
    <3> QED BY <3>7 DEF A
  <2>10. \A n : n \in explicit'.files <=>
           \E k \in 1..(index + 1) : Canonical(Entries[k]) = n /\ ~Entries[k].dir
    <3>1. \A n : n \in explicit.files <=>
            \E k \in 1..index : Canonical(Entries[k]) = n /\ ~Entries[k].dir
      BY <1>3 DEF PathsTaken
    <3>2. /\ name = Canonical(Entries[index + 1]) /\ e = Entries[index + 1]
          /\ e.dir \in BOOLEAN
      <4>1. index + 1 \in 1..Len(Entries)
        BY <1>2
      <4> QED BY <1>2, <4>1, ArchiveFacts, EntryFacts
    <3> DEFINE c(k) == Canonical(Entries[k])
               d(k) == Entries[k].dir
    <3>3. /\ name = c(index + 1) /\ (e.dir <=> d(index + 1))
          /\ \A n : n \in explicit.files <=> \E k \in 1..index : c(k) = n /\ ~d(k)
      BY <3>1, <3>2
    <3> DEFINE f  == explicit.files
               ff == explicit'.files
               ed == e.dir
    <3>4. /\ ff = IF ed THEN f ELSE f \cup {name}
          /\ name = c(index + 1) /\ (ed <=> d(index + 1))
          /\ \A n : n \in f <=> \E k \in 1..index : c(k) = n /\ ~d(k)
      BY <2>6, <3>3
    <3> HIDE DEF c, d, f, ff, ed, name, e, above
    <3>5. \A n : n \in ff <=> \E k \in 1..(index + 1) : c(k) = n /\ ~d(k)
      BY <2>7, <3>4
    <3> QED BY <3>5 DEF ff, c, d
  <2>11. /\ Trees(index + 1)
         /\ \A k \in 1..(index + 1) : TypeAgrees(Entries[k])
    BY <1>2, <1>3, <1>4, <1>9, <2>7 DEF PathsTaken
  <2>12. PathsTaken(index)'
    <3>1. Trees(index)'
      BY <2>1, <2>2, <2>11 DEF Trees
    <3> QED BY <2>1, <2>2, <2>8, <2>9, <2>10, <2>11, <3>1 DEF PathsTaken
  <2>13. ShapeInv'
    BY <1>2, <2>1, <2>2, <2>6, <2>12 DEF ShapeInv
  <2> QED BY <2>3, <2>4, <2>5, <2>13 DEF IpaInv
<1> QED BY <1>6, <1>7, <1>8, <1>9

LEMMA EndsShapeStep == IpaInv /\ EndsShape => IpaInv'
<1> SUFFICES ASSUME IpaInv, EndsShape PROVE IpaInv'
  OBVIOUS
<1>1. /\ stage = "shape" /\ archive' = archive /\ index = Len(Members)
      /\ stage' = "members" /\ index' = 0 /\ reason' = reason
      /\ UNCHANGED payloadVars /\ UNCHANGED shapeVars
  BY DEF EndsShape, Stage, Goto
<1>2. /\ archive \in Archives /\ FileRead /\ EndFound /\ DirectoryRead
      /\ Disjoint /\ SizesValid(Members) /\ index = Declared
      /\ Declared \in Nat /\ Len(Entries) \in Nat
  BY <1>1, NextMember
<1>3. found = "none" /\ PayloadsRead(Declared) /\ PathsTaken(Declared)
  BY <1>1, <1>2 DEF IpaInv, PayloadInv, ShapeInv
<1>4. /\ FileRead' /\ EndFound' /\ DirectoryRead' /\ Disjoint' /\ SizesValid(Members)'
      /\ Declared' = Declared /\ PayloadsRead(Declared)'
  BY <1>1, <1>2, <1>3, Steady
<1>5. /\ InflateInv' /\ found' = found /\ explicit' = explicit
      /\ \A n : PathsTaken(n)' <=> PathsTaken(n)
  BY <1>1, QuietStep DEF Passes
<1>6. (archive \in Archives)' /\ TypeOK' /\ VerdictInv'
  BY <1>1, <1>2, <1>5, PassesStep DEF Stages
<1>7. DirectoryInv' /\ BoundsInv' /\ PayloadInv'
  BY <1>1, <1>3, <1>4, <1>5 DEF DirectoryInv, BoundsInv, PayloadInv
<1>8. ShapeInv'
  <2>1. PathsTaken(Declared)'
    <3>1. Declared' = Declared
      BY <1>4
    <3> QED BY <1>3, <1>5, <3>1
  <2> QED BY <1>1, <1>5, <2>1 DEF IpaInv, ShapeInv
<1> QED BY <1>5, <1>6, <1>7, <1>8 DEF IpaInv

LEMMA ValidatesMembersStep == IpaInv /\ ValidatesMembers => IpaInv'
<1> SUFFICES ASSUME IpaInv, ValidatesMembers PROVE IpaInv'
  OBVIOUS
<1> DEFINE complete == \A root \in Roots : Complete(root)
<1>1. /\ stage = "members" /\ archive' = archive
      /\ UNCHANGED payloadVars /\ UNCHANGED shapeVars
  BY DEF ValidatesMembers, Stage
<1>2. /\ archive \in Archives /\ FileRead /\ EndFound /\ DirectoryRead /\ Disjoint
      /\ SizesValid(Members) /\ PayloadsRead(Declared) /\ PathsTaken(Declared)
  BY <1>1 DEF IpaInv, DirectoryInv, BoundsInv, PayloadInv, ShapeInv
<1>3. /\ Trees(Declared) /\ \A k \in 1..Declared : TypeAgrees(Entries[k])
  BY <1>2 DEF PathsTaken
<1>4. WellFormed <=>
        App /\ BundleAgrees /\ archive.info.versions /\ StoreAgrees
  BY <1>2, <1>3, WellFormedIs
<1>5. App <=> Cardinality(Roots) = 1 /\ complete
  BY <1>2, AppIs
<1>6. \/ /\ Cardinality(Roots) = 1 /\ complete /\ BundleAgrees
         /\ archive.info.versions /\ StoreAgrees /\ Refuse("SUCCESS")
      \/ /\ \/ Cardinality(Roots) # 1 \/ ~complete \/ ~BundleAgrees
            \/ ~archive.info.versions \/ ~StoreAgrees
         /\ \E why : why \notin {"SUCCESS", "PENDING"} /\ Refuse(why)
  BY DEF ValidatesMembers, Complete
<1> HIDE DEF complete
<1>7. CASE /\ Cardinality(Roots) = 1 /\ complete /\ BundleAgrees
           /\ archive.info.versions /\ StoreAgrees /\ Refuse("SUCCESS")
  <2>1. Ends("SUCCESS")
    BY <1>1, <1>4, <1>5, <1>7 DEF Ends, Justified
  <2> QED BY <2>1, EndsStep
<1>8. CASE /\ \/ Cardinality(Roots) # 1 \/ ~complete \/ ~BundleAgrees
              \/ ~archive.info.versions \/ ~StoreAgrees
           /\ \E why : why \notin {"SUCCESS", "PENDING"} /\ Refuse(why)
  <2>1. ~WellFormed
    BY <1>4, <1>5, <1>8
  <2>2. PICK why : why \notin {"SUCCESS", "PENDING"} /\ Refuse(why)
    BY <1>8
  <2>3. Ends(why)
    BY <1>1, <2>1, <2>2 DEF Ends, Justified
  <2> QED BY <2>3, EndsStep
<1> QED BY <1>6, <1>7, <1>8
-----------------------------------------------------------------------------
(* The invariant and what follows from it                                  *)

LEMMA StutterStep == IpaInv /\ UNCHANGED vars => IpaInv'
<1> SUFFICES ASSUME IpaInv, UNCHANGED vars PROVE IpaInv'
  OBVIOUS
<1>1. /\ archive' = archive /\ stage' = stage /\ index' = index
      /\ reason' = reason /\ UNCHANGED payloadVars /\ UNCHANGED shapeVars
  BY DEF vars
<1>2. /\ Entries' = Entries /\ Declared' = Declared
      /\ (FileRead' <=> FileRead) /\ (EndFound' <=> EndFound) /\ (DirectoryRead' <=> DirectoryRead)
      /\ \A n : RecordsRead(n)' <=> RecordsRead(n)
      /\ \A n : PayloadsRead(n)' <=> PayloadsRead(n)
      /\ (Disjoint' <=> Disjoint) /\ (SizesValid(Members)' <=> SizesValid(Members))
      /\ (WellFormed' <=> WellFormed)
  BY <1>1, Steady
<1>3. /\ InflateInv' /\ (Stuck' <=> Stuck) /\ found' = found /\ member' = member
      /\ cursor' = cursor /\ pending' = pending /\ produced' = produced
      /\ explicit' = explicit /\ \A n : PathsTaken(n)' <=> PathsTaken(n)
  BY <1>1, PayloadSteady, ShapeSteady DEF IpaInv
<1>4. (archive \in Archives)' /\ TypeOK'
  BY <1>1, <1>2, <1>3 DEF IpaInv, TypeOK
<1>5. DirectoryInv'
  BY <1>1, <1>2 DEF IpaInv, DirectoryInv
<1>6. BoundsInv'
  BY <1>1, <1>2, <1>3 DEF IpaInv, BoundsInv
<1>7. PayloadInv'
  <2>1. Entry' = Entry /\ AsMember(Entry)' = AsMember(Entry)
    BY <1>1, <1>2 DEF Entry, AsMember
  <2> QED BY <1>1, <1>2, <1>3, <2>1 DEF IpaInv, PayloadInv
<1>8. ShapeInv'
  <2>1. PathsTaken(index)' <=> PathsTaken(index)
    BY <1>1, <1>3
  <2>2. PathsTaken(Declared)' <=> PathsTaken(Declared)
    BY <1>2, <1>3
  <2> QED BY <1>1, <1>2, <1>3, <2>1, <2>2 DEF IpaInv, ShapeInv
<1>9. VerdictInv'
  <2>1. Stalled' <=> Stalled
    BY <1>1, <1>3 DEF Stalled, Stuck
  <2> QED BY <1>1, <1>2, <2>1 DEF IpaInv, VerdictInv
<1> QED BY <1>3, <1>4, <1>5, <1>6, <1>7, <1>8, <1>9 DEF IpaInv

\* The invariant holds throughout validate_ipa (ipa.py:1001-1192).
THEOREM IpaInvariance == Spec => []IpaInv
<1>1. Init => IpaInv
  BY InitialInv
<1>2. IpaInv /\ [Next]_vars => IpaInv'
  BY ReadsArchiveStep, FindsEndStep, PreflightsStep, ReadsRecordStep, EndsDirectoryStep,
     ChecksRangesStep, ChecksSizesStep, ChecksStoredStep, StartsInflatingStep,
     InflatesIpaStep, EndsInflatingStep, EndsPayloadsStep, TakesPathStep,
     EndsShapeStep, ValidatesMembersStep, StutterStep
     DEF Next
<1> QED BY <1>1, <1>2, PTL DEF Spec

\* validate_ipa accepts exactly the archives that the reference describes, but
\* for a member it stalls on: neither the order in which the directory names
\* its members nor the order of their bytes makes a difference
\* (ipa.py:106-168, 481-518, 531-575, 588-898, 901-998, 1001-1161).
THEOREM AcceptsExactlyHolds == Spec => []AcceptsExactly
<1>1. IpaInv => AcceptsExactly
  BY DEF IpaInv, VerdictInv, AcceptsExactly
<1> QED BY <1>1, IpaInvariance, PTL

\* A payload is expanded only after every range and the sum of all declared
\* sizes were found valid, at most by the one byte beyond its declared size that
\* shows the fault, and no call to the decompressor is without a limit
\* (ipa.py:541-553, 700-701).
THEOREM ExpandsOnlyBoundedHolds == Spec => []ExpandsOnlyBounded
<1>1. IpaInv => ExpandsOnlyBounded
  <2> SUFFICES ASSUME IpaInv, found # "none"
               PROVE  /\ Disjoint /\ Expanded(Members) <= MAX_EXPANDED_BYTES
                      /\ produced <= member.file_size
                           + IF found \in {"reading", "intact"} THEN 0 ELSE 1
                      /\ found = "reading" => Inf!Limit >= 1
    BY DEF ExpandsOnlyBounded
  <2>1. Disjoint /\ SizesValid(Members)
    BY DEF IpaInv, BoundsInv
  <2>2. Expanded(Members) <= MAX_EXPANDED_BYTES
    BY <2>1, Zenon DEF SizesValid
  <2>3. /\ member \in MemberType
        /\ found \in {"reading", "intact"} => produced \in 0..member.file_size
        /\ found \in Faults => produced <= member.file_size + 1
        /\ found \in {"reading", "intact"} \cup Faults
    BY DEF IpaInv, InflateInv, Inflating
  <2>4. produced <= member.file_size
          + IF found \in {"reading", "intact"} THEN 0 ELSE 1
    BY <2>3 DEF MemberType, Faults
  <2>5. found = "reading" => Inf!Limit \in Nat \ {0}
    BY <2>3, LimitType
  <2> QED BY <2>1, <2>2, <2>4, <2>5
<1> QED BY <1>1, IpaInvariance, PTL
-----------------------------------------------------------------------------
(* No step leaves validate_ipa where it was                                *)

\* The verdict comes after every other stage, and each goes to a later one.
LEMMA LaterStage ==
  ASSUME TypeOK, stage # "done",
         \/ \E why : Refuse(why)
         \/ stage = "read" /\ Goto("end")
         \/ stage = "end" /\ Goto("preflight")
         \/ stage = "preflight" /\ Goto("directory")
         \/ stage = "directory" /\ Goto("ranges")
         \/ stage = "ranges" /\ Goto("sizes")
         \/ stage = "sizes" /\ Goto("payloads")
         \/ stage = "payloads" /\ Goto("shape")
         \/ stage = "shape" /\ Goto("members")
  PROVE  Advances
<1>1. stage \in {"read", "end", "preflight", "directory", "ranges", "sizes",
                 "payloads", "shape", "members"}
  BY DEF TypeOK
<1>2. Rank[stage'] > Rank[stage]
  BY <1>1 DEF Refuse, Goto, Rank
<1> QED BY <1>2 DEF Advances

LEMMA NextRecord ==
  ASSUME TypeOK, Next1, found' = "none"
  PROVE  Advances
<1>1. stage' = stage /\ index' = index + 1 /\ index \in Nat
  BY DEF Next1, TypeOK
<1>2. index' > index
  BY <1>1
<1> QED BY <1>1, <1>2 DEF Advances

\* A chunk is not empty.
LEMMA ChunkAdvances ==
  ASSUME InflateInv, Inf!TakesChunk, UNCHANGED <<stage, index>>
  PROVE  Advances
<1>1. /\ found = "reading" /\ found' = "reading" /\ cursor < Inf!Length
      /\ cursor' = Inf!Smaller(cursor + INTEGRITY_CHUNK, Inf!Length)
      /\ pending = 0 /\ pending' = cursor' - cursor /\ produced' = produced
  BY DEF Inf!TakesChunk
<1>2. cursor \in Nat /\ produced \in Nat /\ Inf!Length \in Nat
  BY OutputGrows DEF InflateInv
<1>3. cursor' \in Nat /\ cursor' > cursor
  BY <1>1, <1>2, LimitsAssumption DEF LimitsAssumption, Inf!Smaller
<1>4. Done' > Done
  BY <1>1, <1>2, <1>3 DEF Done, Inf!Taken
<1> QED BY <1>1, <1>4 DEF Advances

\* A call that finds no fault takes in or delivers something (NeverIdles).
LEMMA CallAdvances ==
  ASSUME InflateInv, Inf!Decompresses, UNCHANGED <<stage, index>>
  PROVE  Advances
<1>1. found = "reading" /\ pending > 0 /\ member \in MemberType /\ Inflating
  BY DEF InflateInv, Inf!Decompresses
<1>2. \/ found' \in Faults
      \/ /\ ~Inf!HitsCorrupt
         /\ ~(Inf!TakenAfter = Inf!Taken /\ Inf!ProducedAfter = produced)
         /\ produced' = Inf!ProducedAfter /\ pending' = cursor - Inf!TakenAfter
         /\ cursor' = cursor /\ found' = found
  BY DEF Inf!Decompresses, Inf!Says, Faults
<1>3. CASE found' \in Faults
  BY <1>1, <1>3 DEF Advances, Faults
<1>4. CASE /\ ~Inf!HitsCorrupt
           /\ ~(Inf!TakenAfter = Inf!Taken /\ Inf!ProducedAfter = produced)
           /\ produced' = Inf!ProducedAfter /\ pending' = cursor - Inf!TakenAfter
           /\ cursor' = cursor /\ found' = found
  <2>1. cursor \in Nat /\ pending \in Nat /\ produced \in Nat
    BY DEF InflateInv
  <2>2. /\ Inf!Stop \in Inf!Taken..Inf!Length
        /\ Inf!TakenAfter \in Inf!Taken..Inf!Stop
        /\ Inf!ProducedAfter \in Nat /\ Inf!ProducedAfter >= produced
    BY <1>1, <1>4, Call, Zenon
  <2>3. Inf!Taken \in Int /\ Inf!Taken' = Inf!TakenAfter
    <3>1. Inf!Taken = cursor - pending /\ Inf!Taken \in Int
      BY <2>1 DEF Inf!Taken
    <3>2. Inf!TakenAfter \in Int
      BY <2>2
    <3> QED BY <1>4, <2>1, <3>1, <3>2 DEF Inf!Taken
  <2>4. /\ Inf!TakenAfter \in Int /\ Inf!TakenAfter >= Inf!Taken
        /\ Inf!TakenAfter > Inf!Taken \/ Inf!ProducedAfter > produced
    BY <1>4, <2>1, <2>2, <2>3
  <2>5. Done' > Done
    BY <1>4, <2>1, <2>2, <2>3, <2>4 DEF Done
  <2> QED BY <1>1, <1>4, <2>5 DEF Advances
<1> QED BY <1>2, <1>3, <1>4

LEMMA NextAdvances == IpaInv /\ Next => Advances
<1> SUFFICES ASSUME IpaInv, Next PROVE Advances
  OBVIOUS
<1>1. TypeOK /\ InflateInv /\ PayloadInv
  BY DEF IpaInv
<1>2. CASE ReadsArchive \/ FindsEnd \/ Preflights
  BY <1>1, <1>2, LaterStage DEF ReadsArchive, FindsEnd, Preflights, Stage
<1>3. CASE ReadsRecord
  <2>1. found' = "none" /\ stage = "directory"
    BY <1>1, <1>3 DEF ReadsRecord, Stage, payloadVars, PayloadInv
  <2>2. Next1 \/ \E why : Refuse(why)
    BY <1>3, Zenon DEF ReadsRecord
  <2> QED BY <1>1, <2>1, <2>2, LaterStage, NextRecord
<1>4. CASE EndsDirectory
  BY <1>1, <1>4, LaterStage DEF EndsDirectory, Stage
<1>5. CASE ChecksRanges
  BY <1>1, <1>5, LaterStage DEF ChecksRanges, Stage
<1>6. CASE ChecksSizes
  BY <1>1, <1>6, LaterStage DEF ChecksSizes, Stage
<1>7. CASE ChecksStored
  <2>1. found' = "none" /\ stage = "payloads"
    BY <1>7 DEF ChecksStored, Stage, payloadVars
  <2>2. Next1 \/ \E why : Refuse(why)
    BY <1>7, Zenon DEF ChecksStored
  <2> QED BY <1>1, <2>1, <2>2, LaterStage, NextRecord
<1>8. CASE StartsInflating
  BY <1>8 DEF StartsInflating, Inf!Begins, Stage, Advances
<1>9. CASE Inflates
  <2>1. stage' = stage /\ index' = index /\ Inf!Inflates
    BY <1>9 DEF Inflates
  <2>2. CASE Inf!EndsPayload
    <3>1. found = "reading" /\ found' \notin {"none", "reading"}
      BY <2>2 DEF Inf!EndsPayload, Inf!Says
    <3> QED BY <2>1, <3>1 DEF Advances
  <2> QED BY <1>1, <2>1, <2>2, ChunkAdvances, CallAdvances DEF Inf!Inflates
<1>10. CASE EndsInflating
  <2>1. stage = "payloads"
    BY <1>10 DEF EndsInflating, Stage
  <2>2. \/ Next1 /\ found' = "none"
        \/ \E why : Refuse(why)
    BY <1>10, Zenon DEF EndsInflating
  <2> QED BY <1>1, <2>1, <2>2, LaterStage, NextRecord
<1>11. CASE EndsPayloads \/ EndsShape
  BY <1>1, <1>11, LaterStage DEF EndsPayloads, EndsShape, Stage
<1>12. CASE TakesPath
  <2>1. found' = "none" /\ stage = "shape"
    BY <1>1, <1>12 DEF TakesPath, Stage, payloadVars, PayloadInv
  <2>2. Next1 \/ \E why : Refuse(why)
    BY <1>12, Zenon DEF TakesPath
  <2> QED BY <1>1, <2>1, <2>2, LaterStage, NextRecord
<1>13. CASE ValidatesMembers
  <2>1. stage = "members" /\ \E why : Refuse(why)
    BY <1>13, Zenon DEF ValidatesMembers, Stage
  <2> QED BY <1>1, <2>1, LaterStage
<1> QED BY <1>2, <1>3, <1>4, <1>5, <1>6, <1>7, <1>8, <1>9, <1>10, <1>11,
           <1>12, <1>13 DEF Next

\* No turn of a loop of validate_ipa leaves it where it was, whatever the
\* decompressor takes in or delivers at one call (ipa.py:536-565): with the
\* bounds of IpaInv on index, cursor and produced every archive gets a verdict.
THEOREM AdvancesHolds == Spec => AlwaysAdvances
<1>1. IpaInv /\ [Next]_vars => [Advances]_vars
  BY NextAdvances
<1> QED BY <1>1, IpaInvariance, PTL DEF Spec, AlwaysAdvances
=============================================================================
