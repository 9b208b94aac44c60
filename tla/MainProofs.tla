------------------------------ MODULE MainProofs ------------------------------
(***************************************************************************)
(* Proofs about what main does.  First Config, for all files there may be, *)
(* named in one another up to any depth, all options and any number of     *)
(* runs: that the last setting counts, that inputs have their mappings,    *)
(* and that what was saved is loaded.  Then StreamSession, for any number  *)
(* of games and of threads of the connection: what a run resumes, how it   *)
(* ends, and that a connection lost in the loop does not cut it short.     *)
(***************************************************************************)
EXTENDS Config, StreamSession, TLAPS, WellFoundedInduction, FiniteSetTheorems

(* A set of numbers has a least one.                                       *)
LEMMA Least ==
    ASSUME NEW S \in SUBSET Nat, S # {}
    PROVE  \E i \in S : \A k \in S : i <= k
<1>1. PICK i \in S : \A y \in S : ~ (<<y, i>> \in OpToRel(<, Nat))
  BY WFMin, NatLessThanWellFounded
<1>2. ASSUME NEW k \in S PROVE i <= k
  <2>1. ~ (<<k, i>> \in OpToRel(<, Nat))
    BY <1>1
  <2>2. ~ (k < i)
    BY <2>1 DEF OpToRel
  <2> QED
    BY <2>2
<1> QED
  BY <1>2

----------------------------------------------------------------------------
(* The order of places.                                                    *)

IsSpot(s) == s = [file |-> s.file, line |-> s.line] /\ s.line \in Nat
IsChain(p) ==
    /\ Len(p) \in Nat /\ p = [i \in 1 .. Len(p) |-> p[i]] /\ DOMAIN p = 1 .. Len(p)
    /\ \A i \in 1 .. Len(p) : IsSpot(p[i])

LEMMA RankInt == ASSUME NEW f PROVE Rank(f) \in Int
BY DEF Rank

(* Lines are in a strict order.                                            *)
LEMMA EarlierOrder ==
    /\ \A s : IsSpot(s) => ~Earlier(s, s)
    /\ \A r, s, t : IsSpot(r) /\ IsSpot(s) /\ IsSpot(t) /\ Earlier(r, s) /\ Earlier(s, t) => Earlier(r, t)
<1>1. ASSUME NEW s, IsSpot(s) PROVE ~Earlier(s, s)
  BY <1>1, RankInt DEF IsSpot, Earlier
<1>2. ASSUME NEW r, NEW s, NEW t, IsSpot(r), IsSpot(s), IsSpot(t), Earlier(r, s), Earlier(s, t)
      PROVE  Earlier(r, t)
  <2>1. Rank(r.file) \in Int /\ Rank(s.file) \in Int /\ Rank(t.file) \in Int
    BY RankInt
  <2>2. r.line \in Nat /\ s.line \in Nat /\ t.line \in Nat
    BY <1>2 DEF IsSpot
  <2> QED
    BY <1>2, <2>1, <2>2 DEF Earlier
<1> QED
  BY <1>1, <1>2

(* And so are chains of lines.                                             *)
LEMMA NotBeforeItself ==
    ASSUME NEW p, IsChain(p)
    PROVE  ~Before(p, p)
BY EarlierOrder DEF Before, IsChain

(* One line is read: what was after it and is not, is under it.            *)
LEMMA Moved ==
    ASSUME NEW n, NEW m, NEW p, IsChain(n), IsChain(m), IsChain(p),
           NEW k \in Nat \ {0}, Len(n) = k, Len(m) = k,
           \A i \in 1 .. k - 1 : n[i] = m[i],
           m[k].file = n[k].file, m[k].line = n[k].line + 1
    PROVE  Before(n, p) <=> Before(m, p) \/ (k \in DOMAIN p /\ \A i \in 1 .. k : p[i] = m[i])
<1> USE DEF IsChain
<1>1. ASSUME Before(m, p) PROVE Before(n, p)
  <2>1. PICK j \in DOMAIN m \cap DOMAIN p : Earlier(m[j], p[j]) /\ \A i \in 1 .. j - 1 : m[i] = p[i]
    BY <1>1 DEF Before
  <2>2. CASE j < k
    BY <2>1, <2>2 DEF Before
  <2>3. CASE j = k
    <3>1. Earlier(n[k], m[k])
      BY DEF Earlier, IsSpot
    <3>2. Earlier(n[k], p[k])
      BY <2>1, <2>3, <3>1, EarlierOrder
    <3> QED
      BY <2>1, <2>3, <3>2 DEF Before
  <2> QED
    BY <2>1, <2>2, <2>3
<1>2. ASSUME k \in DOMAIN p, \A i \in 1 .. k : p[i] = m[i] PROVE Before(n, p)
  <2>1. Earlier(n[k], p[k])
    BY <1>2 DEF Earlier, IsSpot
  <2> QED
    BY <1>2, <2>1 DEF Before
<1>3. ASSUME Before(n, p), ~Before(m, p)
      PROVE  k \in DOMAIN p /\ \A i \in 1 .. k : p[i] = m[i]
  <2>1. PICK j \in DOMAIN n \cap DOMAIN p : Earlier(n[j], p[j]) /\ \A i \in 1 .. j - 1 : n[i] = p[i]
    BY <1>3 DEF Before
  <2>2. j = k
    <3> SUFFICES ASSUME j < k PROVE FALSE
      BY <2>1
    <3>1. m[j] = n[j] /\ \A i \in 1 .. j - 1 : m[i] = p[i]
      BY <2>1
    <3> QED
      BY <1>3, <2>1, <3>1 DEF Before
  <2>3. ~Earlier(m[k], p[k])
    BY <1>3, <2>1, <2>2 DEF Before
  <2>4. p[k].file = n[k].file /\ n[k].line < p[k].line /\ ~(m[k].line < p[k].line)
    BY <2>1, <2>2, <2>3 DEF Earlier
  <2>5. p[k] = m[k]
    BY <2>1, <2>2, <2>4 DEF IsSpot
  <2> QED
    BY <2>1, <2>2, <2>5
<1> QED
  BY <1>1, <1>2, <1>3

(* A file is opened, or closed: what is after its line.                    *)
LEMMA Within ==
    ASSUME NEW n, NEW m, NEW p, IsChain(n), IsChain(m), IsChain(p),
           NEW k \in Nat \ {0}, Len(n) = k, Len(m) = k - 1,
           \A i \in 1 .. k - 1 : n[i] = m[i]
    PROVE  Before(n, p) <=>
             Before(m, p) \/ (k \in DOMAIN p /\ Earlier(n[k], p[k]) /\ \A i \in 1 .. k - 1 : p[i] = n[i])
<1> USE DEF IsChain
<1>1. ASSUME Before(m, p) PROVE Before(n, p)
  <2>1. PICK j \in DOMAIN m \cap DOMAIN p : Earlier(m[j], p[j]) /\ \A i \in 1 .. j - 1 : m[i] = p[i]
    BY <1>1 DEF Before
  <2>2. n[j] = m[j] /\ j \in DOMAIN n /\ \A i \in 1 .. j - 1 : n[i] = p[i]
    BY <2>1
  <2> QED
    BY <2>1, <2>2 DEF Before
<1>2. ASSUME k \in DOMAIN p, Earlier(n[k], p[k]), \A i \in 1 .. k - 1 : p[i] = n[i] PROVE Before(n, p)
  BY <1>2 DEF Before
<1>3. ASSUME Before(n, p), ~Before(m, p)
      PROVE  k \in DOMAIN p /\ Earlier(n[k], p[k]) /\ \A i \in 1 .. k - 1 : p[i] = n[i]
  <2>1. PICK j \in DOMAIN n \cap DOMAIN p : Earlier(n[j], p[j]) /\ \A i \in 1 .. j - 1 : n[i] = p[i]
    BY <1>3 DEF Before
  <2>2. j = k
    <3> SUFFICES ASSUME j < k PROVE FALSE
      BY <2>1
    <3>1. m[j] = n[j] /\ j \in DOMAIN m /\ \A i \in 1 .. j - 1 : m[i] = p[i]
      BY <2>1
    <3> QED
      BY <1>3, <2>1, <3>1 DEF Before
  <2> QED
    BY <2>1, <2>2
<1> QED
  BY <1>1, <1>2, <1>3

----------------------------------------------------------------------------
(* What a place is.                                                        *)

IsPlace(files, p) ==
    /\ IsChain(p) /\ Len(p) \in 1 .. MaxOpen + 1
    /\ \A i \in 1 .. Len(p) : p[i].file \in DOMAIN files /\ p[i].line \in DOMAIN files[p[i].file]
    /\ \A i \in 1 .. Len(p) - 1 :
         LET s == files[p[i].file][p[i].line]
         IN s.name = "config" /\ p[i + 1].file = s.value /\ s.value # argv

Texts ==
    /\ \A f \in DOMAIN disk : IsFile(f) /\ IsText(disk[f])
    /\ \A f \in DOMAIN found : IsFile(f) /\ IsText(found[f])
    /\ IsText(typed)
    /\ host_config_file = Nowhere \/ host_config_file = <<"hosts", host_config_file[2]>>

LEMMA AsFunction == ASSUME NEW S, NEW q \in Seq(S) PROVE q = [i \in 1 .. Len(q) |-> q[i]]
OBVIOUS

(* get_path returns a file of the given name that there is, or none.       *)
LEMMA GetPath ==
    ASSUME NEW files, NEW name
    PROVE  \/ get_path(files, name) = NULL
           \/ /\ get_path(files, name) \in DOMAIN files
              /\ \E n \in DOMAIN Place : get_path(files, name) = <<Place[n], name>>
<1> DEFINE there == {n \in DOMAIN Place : <<Place[n], name>> \in DOMAIN files}
<1>1. CASE there = {}
  BY <1>1 DEF get_path
<1>2. CASE there # {}
  <2>1. there \in SUBSET Nat
    BY DEF Place
  <2>2. \E n \in there : \A k \in there : n <= k
    BY <1>2, <2>1, Least
  <2>3. Min(there) \in there
    BY <2>2 DEF Min
  <2> QED
    BY <1>2, <2>3 DEF get_path
<1> QED
  BY <1>1, <1>2

(* What the places start in: what is typed, the file that is always read,  *)
(* the file of the host.                                                   *)
LEMMA TopsAre ==
    ASSUME Texts, NEW top \in Tops
    PROVE  /\ top \in DOMAIN Files(top)
           /\ \/ top = argv /\ top[1] # "hosts" /\ Rank(top) = 2
              \/ top = get_path(found, "moonlight.conf") /\ top[1] # "hosts" /\ top # argv /\ Rank(top) = 1
              \/ top = host_config_file /\ top \in DOMAIN disk /\ top[1] = "hosts" /\ top # argv /\ Rank(top) = 3
<1>1. CASE top = argv
  BY <1>1 DEF argv, Files, Rank
<1>2. CASE top = get_path(found, "moonlight.conf") /\ top # NULL
  <2>1. top \in DOMAIN found /\ \E n \in DOMAIN Place : top = <<Place[n], "moonlight.conf">>
    BY <1>2, GetPath
  <2>2. top[1] \in {"here", "user", "system"}
    BY <2>1 DEF Place
  <2>3. top[1] # "hosts" /\ top # argv
    <3>1. argv[1] = "argv"
      BY DEF argv
    <3> QED
      BY <2>2, <3>1
  <2> QED
    BY <1>2, <2>1, <2>3 DEF Files, Rank
<1>3. CASE top = host_config_file /\ top \in DOMAIN disk
  <2>1. top # Nowhere
    BY <1>3 DEF Texts, IsFile, Nowhere
  <2>2. top[1] = "hosts"
    BY <1>3, <2>1 DEF Texts
  <2>3. top # argv
    <3>1. argv[1] = "argv"
      BY DEF argv
    <3> QED
      BY <2>2, <3>1
  <2> QED
    BY <1>3, <2>2, <2>3 DEF Files, Rank
<1> QED
  BY <1>1, <1>2, <1>3 DEF Tops

LEMMA FilesAreTexts ==
    ASSUME Texts, NEW top, NEW f \in DOMAIN Files(top)
    PROVE  IsText(Files(top)[f])
BY DEF Texts, Files

(* The places are the chains of lines of which each names the file of the  *)
(* next.                                                                   *)
LEMMA PlaceFrom ==
    ASSUME Texts, NEW top \in Tops, NEW p \in PlacesFrom(top)
    PROVE  p[1].file = top /\ IsPlace(Files(top), p)
<1>0. MaxOpen \in Nat \ {0}
  BY ConfigAssumption
<1>1. PICK c \in Chains(top) : \E s \in Spots(top, NamedBy(top, c, Len(c))) : p = Append(c, s)
  BY DEF PlacesFrom
<1>2. PICK s \in Spots(top, NamedBy(top, c, Len(c))) : p = Append(c, s)
  BY <1>1
<1>3. PICK n \in 0 .. MaxOpen : c \in [1 .. n -> Naming(top)]
  BY DEF Chains
<1>4. c \in Seq(Naming(top)) /\ Len(c) = n
  BY <1>3
<1>5. Len(p) = n + 1 /\ DOMAIN p = 1 .. n + 1 /\ p[n + 1] = s /\ \A i \in 1 .. n : p[i] = c[i]
  BY <1>2, <1>4
<1>6. p = [i \in 1 .. Len(p) |-> p[i]]
  <2>1. p \in Seq(Naming(top) \cup {s})
    BY <1>2, <1>4
  <2> QED
    BY <2>1, AsFunction
<1>7. top \in DOMAIN Files(top)
  BY TopsAre
<1>8. \A i \in 1 .. n : /\ IsSpot(c[i]) /\ c[i].file \in DOMAIN Files(top)
                        /\ c[i].line \in DOMAIN Files(top)[c[i].file]
                        /\ LineOf(top, c[i]).name = "config"
                        /\ LineOf(top, c[i]).value \in DOMAIN Files(top) \ {argv}
                        /\ c[i].file = NamedBy(top, c, i - 1)
  <2> TAKE i \in 1 .. n
  <2>1. c[i] \in Naming(top) /\ c[i].file = NamedBy(top, c, i - 1)
    BY <1>3, <1>4 DEF Chains
  <2>2. PICK f \in DOMAIN Files(top) : c[i] \in Spots(top, f)
    BY <2>1 DEF Naming
  <2>3. PICK j \in DOMAIN Files(top)[f] : c[i] = [file |-> f, line |-> j]
    BY <2>2 DEF Spots
  <2>4. j \in Nat
    BY <2>3, FilesAreTexts DEF IsText
  <2> QED
    BY <2>1, <2>3, <2>4 DEF Naming, IsSpot
<1>9. NamedBy(top, c, n) \in DOMAIN Files(top)
  BY <1>7, <1>8 DEF NamedBy
<1>10. PICK j \in DOMAIN Files(top)[NamedBy(top, c, n)] : s = [file |-> NamedBy(top, c, n), line |-> j]
  BY <1>2, <1>4 DEF Spots
<1>11. j \in Nat
  BY <1>9, <1>10, FilesAreTexts DEF IsText
<1>12. IsChain(p)
  <2>1. IsSpot(s)
    BY <1>10, <1>11 DEF IsSpot
  <2>2. \A i \in 1 .. n + 1 : IsSpot(p[i])
    BY <1>5, <1>8, <2>1
  <2> QED
    BY <1>5, <1>6, <2>2 DEF IsChain
<1>13. \A i \in 1 .. n + 1 : p[i].file = NamedBy(top, c, i - 1)
  BY <1>5, <1>8, <1>10
<1>14. \A i \in 1 .. Len(p) : p[i].file \in DOMAIN Files(top) /\ p[i].line \in DOMAIN Files(top)[p[i].file]
  <2>1. \A i \in 1 .. n : p[i].file \in DOMAIN Files(top) /\ p[i].line \in DOMAIN Files(top)[p[i].file]
    BY <1>5, <1>8
  <2>2. p[n + 1].file = NamedBy(top, c, n) /\ p[n + 1].line = j
    BY <1>5, <1>10
  <2>3. p[n + 1].file \in DOMAIN Files(top) /\ p[n + 1].line \in DOMAIN Files(top)[p[n + 1].file]
    BY <1>9, <1>10, <2>2
  <2> QED
    BY <1>5, <2>1, <2>3
<1>15. ASSUME NEW i \in 1 .. n
       PROVE  /\ LineOf(top, p[i]).name = "config" /\ LineOf(top, p[i]).value # argv
              /\ p[i + 1].file = LineOf(top, p[i]).value
  <2>1. p[i] = c[i] /\ p[i + 1].file = NamedBy(top, c, i)
    BY <1>5, <1>13
  <2> QED
    BY <1>8, <2>1 DEF NamedBy
<1>16. p[1].file = top
  <2>1. p[1].file = NamedBy(top, c, 0)
    BY <1>3, <1>13
  <2> QED
    BY <2>1 DEF NamedBy
<1>17. Len(p) \in 1 .. MaxOpen + 1 /\ Len(p) - 1 = n
  BY <1>0, <1>3, <1>5
<1> QED
  BY <1>12, <1>14, <1>15, <1>16, <1>17 DEF IsPlace, LineOf

LEMMA PlacesAre ==
    ASSUME Texts, NEW p
    PROVE  p \in Places <=> p[1].file \in Tops /\ IsPlace(Files(p[1].file), p)
<1>0. MaxOpen \in Nat \ {0}
  BY ConfigAssumption
<1>1. ASSUME p \in Places PROVE p[1].file \in Tops /\ IsPlace(Files(p[1].file), p)
  BY <1>1, PlaceFrom DEF Places
<1>2. ASSUME p[1].file \in Tops, IsPlace(Files(p[1].file), p) PROVE p \in Places
  <2> DEFINE top == p[1].file n == Len(p) - 1 c == [i \in 1 .. n |-> p[i]] s == p[n + 1]
  <2>0. Len(p) \in 1 .. MaxOpen + 1 /\ p = [i \in 1 .. Len(p) |-> p[i]] /\ \A i \in 1 .. Len(p) : IsSpot(p[i])
    BY <1>2 DEF IsPlace, IsChain
  <2>1. n \in 0 .. MaxOpen /\ n + 1 = Len(p) /\ p = [i \in 1 .. n + 1 |-> p[i]]
        /\ \A i \in 1 .. n + 1 : IsSpot(p[i])
    <3>1. n \in 0 .. MaxOpen /\ n + 1 = Len(p)
      BY <1>0, <2>0
    <3> QED
      BY <2>0, <3>1
  <2>2. \A i \in 1 .. n : p[i] \in Naming(top)
    <3> TAKE i \in 1 .. n
    <3>1. /\ IsSpot(p[i]) /\ p[i].file \in DOMAIN Files(top) /\ p[i].line \in DOMAIN Files(top)[p[i].file]
          /\ LineOf(top, p[i]).name = "config" /\ LineOf(top, p[i]).value = p[i + 1].file
          /\ p[i + 1].file \in DOMAIN Files(top) \ {argv}
      BY <1>2, <2>1 DEF IsPlace, LineOf
    <3> QED
      BY <3>1 DEF Naming, Spots, IsSpot
  <2>3. c \in [1 .. n -> Naming(top)]
    BY <2>2
  <2>4. c \in Seq(Naming(top)) /\ Len(c) = n /\ \A i \in 1 .. n : c[i] = p[i]
    BY <2>1, <2>3
  <2>5. \A i \in 1 .. n + 1 : p[i].file = NamedBy(top, p, i - 1)
    <3> TAKE i \in 1 .. n + 1
    <3>1. CASE i = 1
      BY <3>1 DEF NamedBy
    <3>2. CASE i # 1
      <4>1. i - 1 \in 1 .. Len(p) - 1 /\ i - 1 # 0 /\ (i - 1) + 1 = i
        BY <2>1, <3>2
      <4>2. p[(i - 1) + 1].file = Files(top)[p[i - 1].file][p[i - 1].line].value
        BY <1>2, <4>1 DEF IsPlace
      <4> QED
        BY <4>1, <4>2 DEF NamedBy, LineOf
    <3> QED
      BY <3>1, <3>2
  <2>6. \A i \in 0 .. n : NamedBy(top, c, i) = NamedBy(top, p, i)
    BY <2>4 DEF NamedBy
  <2>7. c \in Chains(top)
    BY <2>1, <2>3, <2>4, <2>5, <2>6 DEF Chains
  <2>8. s \in Spots(top, NamedBy(top, c, Len(c)))
    <3>1. s.file = NamedBy(top, c, n)
      BY <2>1, <2>5, <2>6
    <3>2. IsSpot(s) /\ s.line \in DOMAIN Files(top)[s.file]
      BY <1>2, <2>1 DEF IsPlace
    <3> QED
      BY <2>4, <3>1, <3>2 DEF Spots, IsSpot
  <2>9. p = Append(c, s)
    BY <2>1, <2>4
  <2> QED
    <3>1. p \in PlacesFrom(top)
      <4> HIDE DEF c, s, n
      <4>1. p \in {Append(c, x) : x \in Spots(top, NamedBy(top, c, Len(c)))}
        BY <2>8, <2>9
      <4> QED
        BY <2>7, <4>1 DEF PlacesFrom
    <3> QED
      BY <1>2, <3>1 DEF Places
<1> QED
  BY <1>1, <1>2

LEMMA AllPlaces ==
    Texts => \A p : p \in Places <=> p[1].file \in Tops /\ IsPlace(Files(p[1].file), p)
BY PlacesAre

(* Settings that do not name a file: of two places one is before the other. *)
Leaves == {p \in Places : Setting(p).name # "config"}

(* Leaves of the tree of files.                                            *)
LEMMA LeafIs ==
    ASSUME Texts, NEW p \in Leaves
    PROVE  /\ p[1].file \in Tops /\ IsPlace(Files(p[1].file), p)
           /\ Files(p[1].file)[p[Len(p)].file][p[Len(p)].line].name # "config"
BY PlacesAre DEF Leaves, Setting, LineOf, Last

(* Of two leaves one is before the other: they differ in a first line, and *)
(* there is a difference, because one of them would name a file in its     *)
(* last line if the other went on from it.                                 *)
LEMMA Comparable ==
    ASSUME Texts, NEW p \in Leaves, NEW q \in Leaves, p # q
    PROVE  Before(p, q) \/ Before(q, p)
<1>1. /\ p[1].file \in Tops /\ q[1].file \in Tops
      /\ IsPlace(Files(p[1].file), p) /\ IsPlace(Files(q[1].file), q)
  BY LeafIs
<1>2. /\ Len(p) \in Nat \ {0} /\ DOMAIN p = 1 .. Len(p) /\ p = [i \in 1 .. Len(p) |-> p[i]]
      /\ Len(q) \in Nat \ {0} /\ DOMAIN q = 1 .. Len(q) /\ q = [i \in 1 .. Len(q) |-> q[i]]
      /\ \A i \in 1 .. Len(p) : IsSpot(p[i])
      /\ \A i \in 1 .. Len(q) : IsSpot(q[i])
  BY <1>1 DEF IsPlace, IsChain
<1> DEFINE both == {i \in DOMAIN p \cap DOMAIN q : p[i] # q[i]}
<1>3. CASE both # {}
  <2>1. PICK k \in both : \A i \in both : k <= i
    <3>1. both \in SUBSET Nat
      BY <1>2
    <3> QED
      BY <1>3, <3>1, Least
  <2>2. k \in DOMAIN p \cap DOMAIN q /\ p[k] # q[k] /\ \A i \in 1 .. k - 1 : p[i] = q[i]
    BY <1>2, <2>1
  <2>3. Earlier(p[k], q[k]) \/ Earlier(q[k], p[k])
    <3>1. CASE p[k].file = q[k].file
      <4>1. p[k].line # q[k].line /\ p[k].line \in Nat /\ q[k].line \in Nat
        BY <1>2, <2>2, <3>1 DEF IsSpot
      <4> QED
        BY <3>1, <4>1 DEF Earlier
    <3>2. CASE p[k].file # q[k].file
      <4>1. k = 1
        <5> SUFFICES ASSUME k # 1 PROVE FALSE
          OBVIOUS
        <5>1. k - 1 \in 1 .. Len(p) - 1 /\ k - 1 \in 1 .. Len(q) - 1 /\ (k - 1) + 1 = k /\ 1 \in 1 .. k - 1
          BY <1>2, <2>2
        <5>2. p[k - 1] = q[k - 1] /\ p[1] = q[1]
          BY <2>2, <5>1
        <5>3. p[k].file = Files(p[1].file)[p[k - 1].file][p[k - 1].line].value
          BY <1>1, <5>1 DEF IsPlace
        <5>4. q[k].file = Files(q[1].file)[q[k - 1].file][q[k - 1].line].value
          BY <1>1, <5>1 DEF IsPlace
        <5> QED
          BY <3>2, <5>2, <5>3, <5>4
      <4>2. Rank(p[1].file) # Rank(q[1].file) /\ Rank(p[1].file) \in Int /\ Rank(q[1].file) \in Int
        BY <1>1, <3>2, <4>1, TopsAre
      <4>3. Rank(p[1].file) < Rank(q[1].file) \/ Rank(q[1].file) < Rank(p[1].file)
        BY <4>2
      <4> QED
        BY <4>1, <4>3 DEF Earlier
    <3> QED
      BY <3>1, <3>2
  <2> QED
    BY <2>2, <2>3 DEF Before
<1>4. CASE both = {}
  <2>1. \A i \in DOMAIN p \cap DOMAIN q : p[i] = q[i]
    BY <1>4
  <2>2. p[1] = q[1]
    BY <1>2, <2>1
  <2>3. Len(p) # Len(q)
    <3> SUFFICES ASSUME Len(p) = Len(q) PROVE FALSE
      OBVIOUS
    <3>1. \A i \in 1 .. Len(p) : p[i] = q[i]
      BY <1>2, <2>1
    <3>2. [i \in 1 .. Len(p) |-> p[i]] = [i \in 1 .. Len(q) |-> q[i]]
      BY <3>1
    <3> QED
      BY <1>2, <3>2
  <2>4. CASE Len(p) < Len(q)
    <3>1. Len(p) \in 1 .. Len(q) - 1 /\ p[Len(p)] = q[Len(p)]
      BY <1>2, <2>1, <2>4
    <3>2. Files(q[1].file)[q[Len(p)].file][q[Len(p)].line].name = "config"
      BY <1>1, <3>1 DEF IsPlace
    <3> QED
      BY <2>2, <3>1, <3>2, LeafIs
  <2>5. CASE Len(q) < Len(p)
    <3>1. Len(q) \in 1 .. Len(p) - 1 /\ q[Len(q)] = p[Len(q)]
      BY <1>2, <2>1, <2>5
    <3>2. Files(p[1].file)[p[Len(q)].file][p[Len(q)].line].name = "config"
      BY <1>1, <3>1 DEF IsPlace
    <3> QED
      BY <2>2, <3>1, <3>2, LeafIs
  <2>6. Len(p) \in Nat /\ Len(q) \in Nat
    BY <1>2
  <2> QED
    BY <2>3, <2>4, <2>5, <2>6
<1> QED
  BY <1>3, <1>4

----------------------------------------------------------------------------
(* Where reading is, and what has been heard.                              *)

LEMMA TwoElements == ASSUME NEW a, NEW b PROVE <<a>> \o <<b>> = <<a, b>>
<1> DEFINE u == <<a>> \o <<b>>
<1>1. u \in Seq({a, b}) /\ Len(u) = 2 /\ u[1] = a /\ u[2] = b
  OBVIOUS
<1> HIDE DEF u
<1>2. u = [i \in 1 .. 2 |-> u[i]]
  BY <1>1, AsFunction
<1>3. u = <<a, b>>
  BY <1>1, <1>2
<1> QED
  BY <1>3 DEF u

Base ==
    IF stage \in {"args", "parsed"} /\ typed # <<>> THEN <<[file |-> argv, line |-> Len(typed)]>> ELSE <<>>

Now == Base \o reading

IsStack(files, n) ==
    /\ IsChain(n) /\ Len(n) \in 0 .. MaxOpen + 1
    /\ \A i \in 1 .. Len(n) : n[i].file \in DOMAIN files /\ n[i].line \in 0 .. Len(files[n[i].file])
    /\ \A i \in 1 .. Len(n) - 1 :
         LET s == files[n[i].file][n[i].line]
         IN n[i].line > 0 /\ s.name = "config" /\ n[i + 1].file = s.value /\ s.value # argv

Heard == IF stage = "start" THEN {} ELSE {p \in Leaves : ~Before(Now, p)}

Entry(p) ==
    [says |-> Says(p), name |-> Setting(p).name, value |-> Setting(p).value,
     path |-> get_path(Files(p[1].file), Setting(p).value)]

Told == [p \in Heard |-> Entry(p)]

(* The stages, and what each of them reads.                                *)
Phase ==
    /\ stage \in {"start", "args", "parsed", "save"} => disk = found
    /\ stage = "start" => typed = <<>> /\ reading = <<>>
    /\ stage = "parsed" => typed # <<>>
    /\ stage # "using" => host_config_file = Nowhere
    /\ reading # <<>> => stage \in {"args", "parsed", "using"}
    /\ reading # <<>> /\ stage = "using" => reading[1].file = host_config_file
    /\ reading # <<>> /\ stage = "args" /\ typed = <<>> =>
         reading[1].file = get_path(found, "moonlight.conf") /\ reading[1].file # NULL

Nested ==
    /\ reading \in Seq([file : DOMAIN disk, line : Nat]) /\ Len(reading) <= MaxOpen
    /\ Now # <<>> => Now[1].file \in Tops /\ IsStack(Files(Now[1].file), Now)

(* What is heard grows by one place, which comes after all the others.     *)
Grown(T, U, q, e) ==
    /\ U = [p \in DOMAIN T \cup {q} |-> IF p = q THEN e ELSE T[p]]
    /\ q \notin DOMAIN T /\ ~Before(q, q)
    /\ \A p \in DOMAIN T : Before(p, q) /\ ~Before(q, p)

(* A place on top of the stack, with a line read.                          *)
LEMMA StackPlace ==
    ASSUME Texts, NEW n, Len(n) > 0, n[1].file \in Tops, IsStack(Files(n[1].file), n), n[Len(n)].line > 0
    PROVE  n \in Places
<1>1. /\ IsChain(n) /\ Len(n) \in 1 .. MaxOpen + 1
  BY DEF IsStack, IsChain
<1>2. ASSUME NEW i \in 1 .. Len(n)
      PROVE  n[i].file \in DOMAIN Files(n[1].file) /\ n[i].line \in DOMAIN Files(n[1].file)[n[i].file]
  <2>1. n[i].file \in DOMAIN Files(n[1].file) /\ n[i].line \in 0 .. Len(Files(n[1].file)[n[i].file])
    BY DEF IsStack
  <2>2. n[i].line > 0
    <3>1. i = Len(n) \/ i \in 1 .. Len(n) - 1
      BY <1>1 DEF IsChain
    <3> QED
      BY <3>1 DEF IsStack
  <2>3. IsText(Files(n[1].file)[n[i].file])
    BY <2>1, FilesAreTexts
  <2> QED
    BY <2>1, <2>2, <2>3 DEF IsText
<1>3. IsPlace(Files(n[1].file), n)
  BY <1>1, <1>2 DEF IsPlace, IsStack
<1> QED
  BY <1>3, PlacesAre

----------------------------------------------------------------------------
(* One step of reading.                                                    *)

NotAfter(n) == {p \in Leaves : ~Before(n, p)}

(* The stack n has lines left; m is n with one more line read.             *)
HasLine(n) ==
    /\ Len(n) > 0 /\ n[1].file \in Tops /\ IsStack(Files(n[1].file), n)
    /\ n[Len(n)].line < Len(Files(n[1].file)[n[Len(n)].file])

Moves(n, m) ==
    /\ IsChain(m) /\ Len(m) = Len(n) /\ \A i \in 1 .. Len(n) - 1 : n[i] = m[i]
    /\ m[Len(n)].file = n[Len(n)].file /\ m[Len(n)].line = n[Len(n)].line + 1

(* The stack with one more line read is still a stack, and what is under   *)
(* that line is all that may be new.                                       *)
LEMMA MovedStack ==
    ASSUME Texts, NEW n, NEW m, HasLine(n), Moves(n, m)
    PROVE  /\ Len(n) \in Nat \ {0} /\ m[1].file = n[1].file
           /\ IsStack(Files(n[1].file), m) /\ m \in Places
           /\ Setting(m) = Files(n[1].file)[n[Len(n)].file][n[Len(n)].line + 1]
<1> DEFINE k == Len(n) files == Files(n[1].file)
<1>1. k \in Nat \ {0} /\ k \in 1 .. MaxOpen + 1 /\ \A i \in 1 .. k : IsSpot(n[i])
  BY DEF HasLine, IsStack, IsChain
<1>2. m[1].file = n[1].file
  BY <1>1 DEF Moves
<1>3. n[k].file \in DOMAIN files /\ n[k].line \in Nat /\ Len(files[n[k].file]) \in Nat
  BY <1>1, FilesAreTexts DEF HasLine, IsStack, IsSpot, IsText
<1>4. \A i \in 1 .. k : m[i].file = n[i].file
  BY <1>1 DEF Moves
<1>5. IsStack(files, m)
  <2>1. \A i \in 1 .. k : m[i].file \in DOMAIN files /\ m[i].line \in 0 .. Len(files[m[i].file])
    <3> TAKE i \in 1 .. k
    <3>1. CASE i = k
      <4>1. m[k].line = n[k].line + 1 /\ n[k].line < Len(files[n[k].file]) /\ m[k].file = n[k].file
        BY DEF Moves, HasLine
      <4> QED
        BY <1>3, <3>1, <4>1
    <3>2. CASE i # k
      BY <1>1, <3>2 DEF Moves, HasLine, IsStack
    <3> QED
      BY <3>1, <3>2
  <2>2. ASSUME NEW i \in 1 .. k - 1
        PROVE  LET s == files[m[i].file][m[i].line]
               IN m[i].line > 0 /\ s.name = "config" /\ m[i + 1].file = s.value /\ s.value # argv
    <3>1. m[i] = n[i] /\ m[i + 1].file = n[i + 1].file
      BY <1>1, <1>4 DEF Moves
    <3> QED
      BY <3>1 DEF HasLine, IsStack
  <2>3. IsChain(m) /\ Len(m) = k
    BY DEF Moves
  <2> HIDE DEF k, files
  <2>4. k = Len(m) /\ Len(m) \in 0 .. MaxOpen + 1
    BY <1>1, <2>3
  <2> QED
    BY <2>1, <2>2, <2>3, <2>4 DEF IsStack
<1>6. m[Len(m)].line > 0 /\ Len(m) > 0
  BY <1>1, <1>3 DEF Moves
<1>7. m \in Places
  BY <1>2, <1>5, <1>6, StackPlace DEF HasLine
<1>8. Setting(m) = files[n[k].file][n[k].line + 1]
  BY <1>1, <1>2 DEF Setting, LineOf, Last, Moves
<1> QED
  BY <1>1, <1>2, <1>5, <1>7, <1>8

(* A line that names no file is read: its place, and nothing else, is no   *)
(* longer after what is read.                                              *)
LEMMA ReadsLeaf ==
    ASSUME Texts, NEW n, NEW m, HasLine(n), Moves(n, m), Setting(m).name # "config"
    PROVE  /\ m \in Leaves /\ NotAfter(m) = NotAfter(n) \cup {m} /\ m \notin NotAfter(n)
           /\ ~Before(m, m) /\ \A p \in NotAfter(n) : Before(p, m) /\ ~Before(m, p)
<1> DEFINE k == Len(n)
<1>1. m \in Leaves
  BY MovedStack DEF Leaves
<1>2. k \in Nat \ {0} /\ Len(m) = k /\ IsChain(n) /\ IsChain(m)
  BY MovedStack DEF Moves, HasLine, IsStack
<1>3. ASSUME NEW p \in Leaves PROVE Before(n, p) <=> Before(m, p) \/ p = m
  <2>1. IsPlace(Files(p[1].file), p) /\ IsChain(p)
    BY LeafIs DEF IsPlace
  <2>2. Before(n, p) <=> Before(m, p) \/ (k \in DOMAIN p /\ \A i \in 1 .. k : p[i] = m[i])
    BY <1>2, <2>1, Moved DEF Moves
  <2>3. ASSUME k \in DOMAIN p, \A i \in 1 .. k : p[i] = m[i] PROVE p = m
    <3>1. Len(p) \in Nat /\ DOMAIN p = 1 .. Len(p) /\ k <= Len(p)
      BY <2>1, <2>3 DEF IsChain
    <3>2. p[1] = m[1] /\ p[k] = m[k]
      BY <1>2, <2>3
    <3>3. Setting(m) = Files(p[1].file)[p[k].file][p[k].line]
      BY <1>2, <3>2 DEF Setting, LineOf, Last
    <3>4. Len(p) = k
      <4> SUFFICES ASSUME k < Len(p) PROVE FALSE
        BY <1>2, <3>1
      <4>1. k \in 1 .. Len(p) - 1
        BY <1>2, <3>1
      <4> QED
        BY <2>1, <3>3, <4>1 DEF IsPlace
    <3>5. p = [i \in 1 .. k |-> p[i]] /\ m = [i \in 1 .. k |-> m[i]]
      BY <1>2, <2>1, <3>4 DEF IsChain
    <3>6. [i \in 1 .. k |-> p[i]] = [i \in 1 .. k |-> m[i]]
      BY <2>3
    <3> QED
      BY <3>5, <3>6
  <2>4. p = m => k \in DOMAIN p /\ \A i \in 1 .. k : p[i] = m[i]
    BY <1>2 DEF IsChain
  <2> QED
    BY <2>2, <2>3, <2>4
<1>4. ~Before(m, m)
  BY <1>2, NotBeforeItself
<1>5. ASSUME NEW p \in NotAfter(n) PROVE Before(p, m) /\ ~Before(m, p)
  BY <1>1, <1>3, <1>5, Comparable DEF NotAfter
<1> QED
  BY <1>1, <1>3, <1>4, <1>5 DEF NotAfter

(* m is n with one more line read, which names a file, now open.           *)
Opens(n, m, file) ==
    /\ IsChain(m) /\ Len(m) = Len(n) + 1 /\ \A i \in 1 .. Len(n) - 1 : n[i] = m[i]
    /\ m[Len(n)].file = n[Len(n)].file /\ m[Len(n)].line = n[Len(n)].line + 1
    /\ m[Len(n) + 1] = Opened(file)

(* A line that names a file is read: nothing has been heard by opening it. *)
LEMMA OpensFile ==
    ASSUME Texts, NEW n, NEW m, NEW file, HasLine(n), Opens(n, m, file), Len(n) <= MaxOpen,
           Files(n[1].file)[n[Len(n)].file][n[Len(n)].line + 1].name = "config",
           Files(n[1].file)[n[Len(n)].file][n[Len(n)].line + 1].value = file,
           file \in DOMAIN Files(n[1].file), file # argv
    PROVE  m[1].file = n[1].file /\ IsStack(Files(n[1].file), m) /\ NotAfter(m) = NotAfter(n)
<1> DEFINE k == Len(n) l == [i \in 1 .. k |-> m[i]] files == Files(n[1].file)
<1>1. k \in Nat \ {0} /\ IsChain(n)
  BY DEF HasLine, IsStack, IsChain
<1>2. Len(l) = k /\ IsChain(l)
  <2>1. Len(m) = k + 1 /\ \A i \in 1 .. k + 1 : IsSpot(m[i])
    BY DEF Opens, IsChain
  <2>2. Len(l) = k
    BY <1>1
  <2> QED
    BY <1>1, <2>1, <2>2 DEF IsChain
<1>3. Moves(n, l)
  BY <1>1, <1>2 DEF Opens, Moves
<1>4. l[1].file = n[1].file /\ IsStack(files, l)
  BY <1>3, MovedStack
<1>5. m[1].file = n[1].file
  BY <1>1, <1>4
<1>6. MaxOpen \in Nat
  BY ConfigAssumption
<1>7. IsStack(files, m)
  <2>1. Len(m) = k + 1 /\ Len(m) \in 0 .. MaxOpen + 1
    BY <1>1, <1>6 DEF Opens
  <2>2. \A i \in 1 .. k + 1 : m[i].file \in DOMAIN files /\ m[i].line \in 0 .. Len(files[m[i].file])
    <3> TAKE i \in 1 .. k + 1
    <3>1. CASE i = k + 1
      <4>1. Len(files[file]) \in Nat
        BY FilesAreTexts DEF IsText
      <4>2. m[i].file = file /\ m[i].line = 0
        BY <3>1 DEF Opens, Opened
      <4> QED
        BY <4>1, <4>2
    <3>2. CASE i # k + 1
      <4>1. i \in 1 .. k /\ l[i] = m[i]
        BY <1>1, <3>2
      <4> QED
        BY <1>2, <1>4, <4>1 DEF IsStack
    <3> QED
      BY <3>1, <3>2
  <2>3. ASSUME NEW i \in 1 .. k
        PROVE  LET s == files[m[i].file][m[i].line]
               IN m[i].line > 0 /\ s.name = "config" /\ m[i + 1].file = s.value /\ s.value # argv
    <3>1. CASE i = k
      <4>1. n[k].line \in Nat
        BY <1>1 DEF IsChain, IsSpot
      <4>2. m[k].file = n[k].file /\ m[k].line = n[k].line + 1 /\ m[k + 1].file = file
        BY DEF Opens, Opened
      <4> QED
        BY <3>1, <4>1, <4>2
    <3>2. CASE i # k
      <4>1. i \in 1 .. k - 1 /\ l[i] = m[i] /\ l[i + 1] = m[i + 1]
        BY <1>1, <3>2
      <4> QED
        BY <1>2, <1>4, <4>1 DEF IsStack
    <3> QED
      BY <3>1, <3>2
  <2>4. IsChain(m) /\ Len(m) - 1 = k
    BY <1>1, <2>1 DEF Opens
  <2> QED
    BY <2>1, <2>2, <2>3, <2>4 DEF IsStack
<1>8. ASSUME NEW p \in Leaves PROVE Before(n, p) <=> Before(m, p)
  <2>1. IsPlace(Files(p[1].file), p) /\ IsChain(p)
    BY LeafIs DEF IsPlace
  <2>2. Before(n, p) <=> Before(l, p) \/ (k \in DOMAIN p /\ \A i \in 1 .. k : p[i] = l[i])
    <3>1. /\ \A i \in 1 .. k - 1 : n[i] = l[i]
          /\ l[k].file = n[k].file /\ l[k].line = n[k].line + 1
      BY <1>3 DEF Moves
    <3> HIDE DEF l
    <3> QED
      BY <1>1, <1>2, <2>1, <3>1, Moved
  <2>3. Before(m, p) <=> Before(l, p) \/ (k + 1 \in DOMAIN p /\ Earlier(m[k + 1], p[k + 1])
                                            /\ \A i \in 1 .. k : p[i] = m[i])
    <3> DEFINE j == k + 1
    <3>1. Len(m) = j /\ IsChain(m) /\ Len(l) = j - 1 /\ j \in Nat \ {0}
      BY <1>1, <1>2 DEF Opens
    <3>2. \A i \in 1 .. j - 1 : m[i] = l[i]
      BY <1>1
    <3>3. Before(m, p) <=> Before(l, p) \/ (j \in DOMAIN p /\ Earlier(m[j], p[j])
                                            /\ \A i \in 1 .. j - 1 : p[i] = m[i])
      <4> HIDE DEF l, j
      <4> QED
        BY <1>2, <2>1, <3>1, <3>2, Within
    <3>4. j - 1 = k
      BY <1>1
    <3> QED
      BY <3>3, <3>4
  <2>4. ASSUME k \in DOMAIN p, \A i \in 1 .. k : p[i] = l[i]
        PROVE  k + 1 \in DOMAIN p /\ Earlier(m[k + 1], p[k + 1])
    <3>1. Len(p) \in Nat /\ DOMAIN p = 1 .. Len(p) /\ k <= Len(p)
      BY <2>1, <2>4 DEF IsChain
    <3>2. p[1] = m[1] /\ p[k] = m[k]
      BY <1>1, <2>4
    <3>3. Files(p[1].file)[p[k].file][p[k].line].name = "config" /\
          Files(p[1].file)[p[k].file][p[k].line].value = file
      BY <1>5, <3>2 DEF Opens
    <3>4. k # Len(p)
      BY <3>3, LeafIs
    <3>5. k \in 1 .. Len(p) - 1 /\ k + 1 \in DOMAIN p
      BY <1>1, <3>1, <3>4
    <3>6. p[k + 1].file = file
      BY <2>1, <3>3, <3>5 DEF IsPlace
    <3>7. p[k + 1].file \in DOMAIN Files(p[1].file) /\ p[k + 1].line \in DOMAIN Files(p[1].file)[p[k + 1].file]
      BY <2>1, <3>1, <3>5 DEF IsPlace
    <3>8. p[k + 1].line > 0 /\ p[k + 1].line \in Nat
      BY <3>7, FilesAreTexts DEF IsText
    <3> QED
      BY <3>5, <3>6, <3>8 DEF Opens, Opened, Earlier
  <2>5. \A i \in 1 .. k : l[i] = m[i]
    OBVIOUS
  <2>6. k + 1 \in DOMAIN p => k \in DOMAIN p
    BY <1>1, <2>1 DEF IsChain
  <2> QED
    BY <2>2, <2>3, <2>4, <2>5, <2>6
<1> QED
  BY <1>5, <1>7, <1>8 DEF NotAfter

(* A file has been read to its end.                                        *)
Closes(n, m) == IsChain(m) /\ Len(m) = Len(n) - 1 /\ \A i \in 1 .. Len(n) - 1 : n[i] = m[i]

(* A file that is read to the end is closed: nothing has been heard by     *)
(* that.                                                                   *)
LEMMA ClosesFile ==
    ASSUME Texts, NEW n, NEW m, Len(n) > 0, n[1].file \in Tops, IsStack(Files(n[1].file), n), Closes(n, m),
           n[Len(n)].line = Len(Files(n[1].file)[n[Len(n)].file]),
           Len(n) = 1 => \A p \in Leaves : ~(Rank(n[1].file) < Rank(p[1].file))
    PROVE  /\ Len(n) > 1 => m[1].file = n[1].file /\ IsStack(Files(n[1].file), m)
           /\ NotAfter(m) = NotAfter(n)
<1> DEFINE k == Len(n) files == Files(n[1].file)
<1>1. k \in Nat \ {0} /\ IsChain(n) /\ IsChain(m) /\ Len(m) = k - 1
  BY DEF IsStack, IsChain, Closes
<1>2. ASSUME k > 1 PROVE m[1].file = n[1].file /\ IsStack(files, m)
  <2>1. m[1] = n[1]
    BY <1>1, <1>2 DEF Closes
  <2>2. Len(m) \in 0 .. MaxOpen + 1
    <3>1. k \in 0 .. MaxOpen + 1 /\ MaxOpen \in Nat
      BY ConfigAssumption DEF IsStack
    <3> QED
      BY <1>1, <3>1
  <2>3. \A i \in 1 .. Len(m) : n[i] = m[i] /\ i \in 1 .. Len(n)
    BY <1>1 DEF Closes
  <2>4. \A i \in 1 .. Len(m) - 1 : n[i] = m[i] /\ n[i + 1] = m[i + 1] /\ i \in 1 .. Len(n) - 1
    BY <1>1, <2>3
  <2> QED
    BY <1>1, <2>1, <2>2, <2>3, <2>4 DEF IsStack
<1>3. ASSUME NEW p \in Leaves PROVE Before(n, p) <=> Before(m, p)
  <2>1. IsPlace(Files(p[1].file), p) /\ IsChain(p)
    BY LeafIs DEF IsPlace
  <2>2. Before(n, p) <=> Before(m, p) \/ (k \in DOMAIN p /\ Earlier(n[k], p[k])
                                            /\ \A i \in 1 .. k - 1 : p[i] = n[i])
    BY <1>1, <2>1, Within DEF Closes
  <2>3. ASSUME k \in DOMAIN p, Earlier(n[k], p[k]), \A i \in 1 .. k - 1 : p[i] = n[i] PROVE FALSE
    <3>1. Len(p) \in Nat /\ DOMAIN p = 1 .. Len(p) /\ k <= Len(p)
      BY <2>1, <2>3 DEF IsChain
    <3>2. p[k].file = n[k].file /\ p[1].file = n[1].file
      <4>1. CASE k = 1
        <5>1. ~(Rank(n[1].file) < Rank(p[1].file))
          BY <4>1
        <5> QED
          BY <2>3, <4>1, <5>1 DEF Earlier
      <4>2. CASE k # 1
        <5>1. k - 1 \in 1 .. Len(p) - 1 /\ k - 1 \in 1 .. k - 1 /\ (k - 1) + 1 = k /\ 1 \in 1 .. k - 1
          BY <1>1, <3>1, <4>2
        <5>2. p[1] = n[1] /\ p[k - 1] = n[k - 1]
          BY <2>3, <5>1
        <5>3. p[k].file = Files(p[1].file)[p[k - 1].file][p[k - 1].line].value
          BY <2>1, <5>1 DEF IsPlace
        <5>4. n[k].file = files[n[k - 1].file][n[k - 1].line].value
          BY <5>1 DEF IsStack
        <5> QED
          BY <5>2, <5>3, <5>4
      <4> QED
        BY <4>1, <4>2
    <3>3. n[k].line < p[k].line
      <4>1. Rank(n[k].file) \in Int
        BY RankInt
      <4> QED
        BY <2>3, <3>2, <4>1 DEF Earlier
    <3>4. p[k].file \in DOMAIN files /\ p[k].line \in DOMAIN files[p[k].file]
      BY <1>1, <2>1, <3>1, <3>2 DEF IsPlace
    <3>5. p[k].line <= Len(files[p[k].file]) /\ p[k].line \in Nat /\ Len(files[p[k].file]) \in Nat
      BY <3>4, FilesAreTexts DEF IsText
    <3> QED
      BY <3>2, <3>3, <3>5
  <2> QED
    BY <2>2, <2>3
<1> QED
  BY <1>2, <1>3 DEF NotAfter

----------------------------------------------------------------------------
(* What counts of a history, and how it grows.                             *)

Sayers(T, f) == {p \in DOMAIN T : f \in DOMAIN T[p].says}
Lasts(T, f) == {p \in Sayers(T, f) : \A q \in Sayers(T, f) : ~Before(p, q)}
Counts(T, f, v) ==
    \/ Sayers(T, f) = {} /\ v = Default[f]
    \/ \E p : Lasts(T, f) = {p} /\ v = T[p].says[f]

(* What the last one says of a field counts.                               *)
LEMMA CountsSaid ==
    ASSUME NEW T, NEW U, NEW q, NEW e, Grown(T, U, q, e), NEW f, f \in DOMAIN e.says
    PROVE  Counts(U, f, e.says[f])
<1>1. /\ DOMAIN U = DOMAIN T \cup {q} /\ U[q] = e /\ q \notin DOMAIN T /\ ~Before(q, q)
      /\ \A p \in DOMAIN T : U[p] = T[p] /\ Before(p, q) /\ ~Before(q, p)
  BY DEF Grown
<1>2. Sayers(U, f) = Sayers(T, f) \cup {q}
  BY <1>1 DEF Sayers
<1>3. Lasts(U, f) = {q}
  BY <1>1, <1>2 DEF Lasts, Sayers
<1> QED
  BY <1>1, <1>3 DEF Counts

(* What counted still does if the last one says nothing of the field.      *)
LEMMA CountsGrown ==
    ASSUME NEW T, NEW U, NEW q, NEW e, Grown(T, U, q, e), NEW f, NEW v, Counts(T, f, v)
    PROVE  Counts(U, f, IF f \in DOMAIN e.says THEN e.says[f] ELSE v)
<1>1. /\ DOMAIN U = DOMAIN T \cup {q} /\ U[q] = e /\ q \notin DOMAIN T /\ ~Before(q, q)
      /\ \A p \in DOMAIN T : U[p] = T[p] /\ Before(p, q) /\ ~Before(q, p)
  BY DEF Grown
<1>2. CASE f \in DOMAIN e.says
  BY <1>2, CountsSaid
<1>3. CASE f \notin DOMAIN e.says
  <2>1. Sayers(U, f) = Sayers(T, f)
    BY <1>1, <1>3 DEF Sayers
  <2>2. Lasts(U, f) = Lasts(T, f)
    BY <2>1 DEF Lasts
  <2>3. CASE Sayers(T, f) = {} /\ v = Default[f]
    BY <1>3, <2>1, <2>3 DEF Counts
  <2>4. CASE \E p : Lasts(T, f) = {p} /\ v = T[p].says[f]
    <3>1. PICK p : Lasts(T, f) = {p} /\ v = T[p].says[f]
      BY <2>4
    <3>2. p \in DOMAIN T
      BY <3>1 DEF Lasts, Sayers
    <3> QED
      BY <1>1, <1>3, <2>2, <3>1, <3>2 DEF Counts
  <2> QED
    BY <2>3, <2>4 DEF Counts
<1> QED
  BY <1>2, <1>3

Called(T, name) == {p \in DOMAIN T : T[p].name = name}
Newest(S) == {p \in S : \A q \in S : ~Before(p, q)}
PathIs(default, T, S, path) ==
    \/ S = {} /\ path = default
    \/ \E q : Newest(S) = {q} /\ path = T[q].path

(* The inputs are opened at the places at, in their order.                 *)
OneOpenedAt(default, T, ins, at, k) ==
    /\ ins[k] = [path |-> T[at[k]].value, mapping |-> ins[k].mapping]
    /\ PathIs(default, T, {q \in Called(T, "mapping") : Before(q, at[k])}, ins[k].mapping)

OpenedAt(default, T, ins, at) ==
    /\ at \in [DOMAIN ins -> Called(T, "input")]
    /\ \A p \in Called(T, "input") : \E k \in DOMAIN ins : at[k] = p
    /\ \A j, k \in DOMAIN ins : j < k => Before(at[j], at[k])
    /\ \A k \in DOMAIN ins : OneOpenedAt(default, T, ins, at, k)

LEMMA CalledGrown ==
    ASSUME NEW T, NEW U, NEW q, NEW e, Grown(T, U, q, e), NEW name
    PROVE  Called(U, name) = IF e.name = name THEN Called(T, name) \cup {q} ELSE Called(T, name)
BY DEF Called, Grown

(* The mapping that was named last among some of the old places still is.  *)
LEMMA PathGrown ==
    ASSUME NEW default, NEW T, NEW U, NEW q, NEW e, Grown(T, U, q, e), NEW S \in SUBSET DOMAIN T, NEW path,
           PathIs(default, T, S, path)
    PROVE  PathIs(default, U, S, path)
<1>1. CASE S = {} /\ path = default
  BY <1>1 DEF PathIs
<1>2. CASE \E x : Newest(S) = {x} /\ path = T[x].path
  <2>1. PICK x : Newest(S) = {x} /\ path = T[x].path
    BY <1>2
  <2>2. x \in DOMAIN T
    BY <2>1 DEF Newest
  <2>3. U[x] = T[x]
    BY <2>2 DEF Grown
  <2> QED
    BY <2>1, <2>3 DEF PathIs
<1> QED
  BY <1>1, <1>2 DEF PathIs

(* Whatever comes after them all leaves the inputs that are open as they are. *)
LEMMA InputsStay ==
    ASSUME NEW default, NEW T, NEW U, NEW q, NEW e, Grown(T, U, q, e), NEW ins, NEW at, OpenedAt(default, T, ins, at)
    PROVE  \A k \in DOMAIN ins :
             at[k] \in Called(U, "input") /\ Before(at[k], q) /\ OneOpenedAt(default, U, ins, at, k)
<1> TAKE k \in DOMAIN ins
<1>1. at[k] \in DOMAIN T /\ at[k] \in Called(T, "input")
  BY DEF OpenedAt, Called
<1>2. U[at[k]] = T[at[k]] /\ Before(at[k], q) /\ ~Before(q, at[k])
  BY <1>1 DEF Grown
<1>3. {x \in Called(U, "mapping") : Before(x, at[k])} = {x \in Called(T, "mapping") : Before(x, at[k])}
  BY <1>2, CalledGrown
<1>4. {x \in Called(T, "mapping") : Before(x, at[k])} \in SUBSET DOMAIN T
  BY DEF Called
<1>5. PathIs(default, U, {x \in Called(U, "mapping") : Before(x, at[k])}, ins[k].mapping)
  <2>1. PathIs(default, T, {x \in Called(T, "mapping") : Before(x, at[k])}, ins[k].mapping)
    BY DEF OpenedAt, OneOpenedAt
  <2> QED
    BY <1>3, <1>4, <2>1, PathGrown
<1>6. ins[k] = [path |-> U[at[k]].value, mapping |-> ins[k].mapping]
  BY <1>2 DEF OpenedAt, OneOpenedAt
<1>7. at[k] \in Called(U, "input")
  BY <1>1, CalledGrown
<1> QED
  BY <1>2, <1>5, <1>6, <1>7 DEF OneOpenedAt

(* Nothing but an input opens an input.                                    *)
LEMMA OtherComes ==
    ASSUME NEW default, NEW T, NEW U, NEW q, NEW e, Grown(T, U, q, e), e.name # "input",
           NEW ins, NEW at, OpenedAt(default, T, ins, at)
    PROVE  OpenedAt(default, U, ins, at)
<1>1. Called(U, "input") = Called(T, "input")
  BY CalledGrown
<1>2. \A k \in DOMAIN ins : OneOpenedAt(default, U, ins, at, k)
  BY InputsStay
<1> QED
  BY <1>1, <1>2 DEF OpenedAt

(* An input is opened, with the mapping that is the last named.            *)
LEMMA InputComes ==
    ASSUME NEW default, NEW T, NEW U, NEW q, NEW e, Grown(T, U, q, e), e.name = "input",
           NEW S, NEW ins \in Seq(S), NEW at, OpenedAt(default, T, ins, at),
           NEW map, PathIs(default, T, Called(T, "mapping"), map)
    PROVE  \E to : OpenedAt(default, U, Append(ins, [path |-> e.value, mapping |-> map]), to)
<1> DEFINE new == [path |-> e.value, mapping |-> map]
           n == Len(ins) + 1
           to == [k \in 1 .. n |-> IF k = n THEN q ELSE at[k]]
           all == Append(ins, new)
<1>1. /\ DOMAIN all = 1 .. n /\ DOMAIN ins = 1 .. n - 1 /\ all[n] = new
      /\ n \in Nat \ {0} /\ \A k \in DOMAIN ins : all[k] = ins[k]
  <2>1. ins \in Seq(S \cup {new}) /\ Len(ins) \in Nat
    OBVIOUS
  <2> QED
    BY <2>1
<1>2. Called(U, "input") = Called(T, "input") \cup {q} /\ Called(U, "mapping") = Called(T, "mapping")
  BY CalledGrown
<1>3. to[n] = q /\ \A k \in DOMAIN ins : to[k] = at[k] /\ k < n
  BY <1>1
<1>4. \A k \in DOMAIN ins :
        at[k] \in Called(U, "input") /\ Before(at[k], q) /\ OneOpenedAt(default, U, ins, at, k)
  <2> HIDE DEF new, n, to, all
  <2> QED
    BY InputsStay
<1>5. U[q] = e
  BY DEF Grown
<1>6. {x \in Called(U, "mapping") : Before(x, q)} = Called(T, "mapping")
  BY <1>2 DEF Grown, Called
<1>7. PathIs(default, U, {x \in Called(U, "mapping") : Before(x, q)}, map)
  <2>1. Called(T, "mapping") \in SUBSET DOMAIN T
    BY DEF Called
  <2> QED
    BY <1>6, <2>1, PathGrown
<1>8. to \in [1 .. n -> Called(U, "input")]
  <2>1. ASSUME NEW k \in 1 .. n PROVE (IF k = n THEN q ELSE at[k]) \in Called(U, "input")
    <3>1. k = n \/ k \in DOMAIN ins
      BY <1>1
    <3> QED
      BY <1>2, <1>4, <3>1
  <2> QED
    BY <2>1
<1>9. ASSUME NEW p \in Called(U, "input") PROVE \E k \in 1 .. n : to[k] = p
  <2>1. CASE p = q
    BY <1>1, <1>3, <2>1
  <2>2. CASE p \in Called(T, "input")
    <3>1. PICK k \in DOMAIN ins : at[k] = p
      BY <2>2 DEF OpenedAt
    <3> QED
      BY <1>1, <1>3, <3>1
  <2> QED
    BY <1>2, <2>1, <2>2
<1>10. ASSUME NEW j \in 1 .. n, NEW k \in 1 .. n, j < k PROVE Before(to[j], to[k])
  <2>1. j \in DOMAIN ins /\ (k = n \/ k \in DOMAIN ins)
    BY <1>1, <1>10
  <2>2. to[j] = at[j] /\ Before(at[j], q)
    BY <1>3, <1>4, <2>1
  <2>3. CASE k = n
    BY <1>3, <2>2, <2>3
  <2>4. CASE k \in DOMAIN ins
    <3>1. to[k] = at[k] /\ Before(at[j], at[k])
      BY <1>3, <1>10, <2>1, <2>4 DEF OpenedAt
    <3> QED
      BY <2>2, <3>1
  <2> QED
    BY <2>1, <2>3, <2>4
<1>11. ASSUME NEW k \in 1 .. n PROVE OneOpenedAt(default, U, all, to, k)
  <2>1. CASE k = n
    BY <1>1, <1>3, <1>5, <1>7, <2>1 DEF OneOpenedAt
  <2>2. CASE k \in DOMAIN ins
    BY <1>1, <1>3, <1>4, <2>2 DEF OneOpenedAt
  <2> QED
    BY <1>1, <2>1, <2>2
<1>12. OpenedAt(default, U, all, to)
  <2> HIDE DEF all, to, n
  <2> QED
    BY <1>1, <1>8, <1>9, <1>10, <1>11 DEF OpenedAt
<1> QED
  BY <1>12

----------------------------------------------------------------------------
(* The steps that leave the files and what is typed as they are.           *)

(* What is typed is in no file, and no file is the host's while it has     *)
(* none.                                                                   *)
LEMMA NotFiles ==
    Texts => {argv, Nowhere} \cap (DOMAIN found \cup DOMAIN disk) = {}
<1>1. ~IsFile(argv)
  <2>1. argv[1] = "argv"
    BY DEF argv
  <2> QED
    BY <2>1 DEF IsFile, Place
<1>2. ~IsFile(Nowhere)
  BY DEF IsFile, Nowhere
<1> QED
  BY <1>1, <1>2 DEF Texts

(* get_path finds in the files of the model what it finds on the disk.     *)
LEMMA FilesPath ==
    ASSUME Texts, NEW top, NEW name, disk = found \/ top[1] = "hosts"
    PROVE  get_path(Files(top), name) = get_path(disk, name)
<1>1. CASE top[1] = "hosts"
  BY <1>1 DEF Files
<1>2. CASE top[1] # "hosts"
  <2>1. DOMAIN Files(top) = DOMAIN disk \cup {argv}
    BY <1>2 DEF Files
  <2>2. \A n \in DOMAIN Place : <<Place[n], name>> # argv
    <3>1. argv[1] = "argv"
      BY DEF argv
    <3>2. \A n \in DOMAIN Place : <<Place[n], name>>[1] # "argv"
      BY DEF Place
    <3> QED
      BY <3>1, <3>2
  <2>3. {n \in DOMAIN Place : <<Place[n], name>> \in DOMAIN Files(top)} =
        {n \in DOMAIN Place : <<Place[n], name>> \in DOMAIN disk}
    BY <2>1, <2>2
  <2> QED
    BY <2>3 DEF get_path
<1> QED
  BY <1>1, <1>2

(* Places are what they are whatever is written to the disk before the     *)
(* host's file is known: they are of the files the run found.              *)
LEMMA Unmoved ==
    ASSUME Texts, Texts', UNCHANGED <<found, typed, host_config_file>>,
           disk' = disk \/ host_config_file = Nowhere
    PROVE  Tops' = Tops /\ Leaves' = Leaves /\ \A p \in Leaves : Entry(p)' = Entry(p)
<1>1. Tops' = Tops
  <2>1. Nowhere \notin DOMAIN disk /\ Nowhere \notin DOMAIN disk'
    <3>1. (Texts => {argv, Nowhere} \cap (DOMAIN found \cup DOMAIN disk) = {})'
      BY NotFiles, PTL
    <3> QED
      BY <3>1, NotFiles
  <2>2. get_path(found, "moonlight.conf")' = get_path(found, "moonlight.conf")
    OBVIOUS
  <2>3. {host_config_file'} \cap DOMAIN disk' = {host_config_file} \cap DOMAIN disk
    BY <2>1
  <2> QED
    BY <2>2, <2>3 DEF Tops
<1>2. ASSUME NEW top \in Tops PROVE Files(top)' = Files(top)
  <2>1. disk' = disk \/ top[1] # "hosts"
    <3> SUFFICES ASSUME host_config_file = Nowhere PROVE top[1] # "hosts"
      OBVIOUS
    <3> QED
      BY TopsAre, NotFiles
  <2> QED
    BY <2>1 DEF Files
<1>3. \A p : p[1].file \in Tops => IsPlace(Files(p[1].file), p)' = IsPlace(Files(p[1].file), p)
  <2> SUFFICES ASSUME NEW p, p[1].file \in Tops
               PROVE  IsPlace(Files(p[1].file), p)' = IsPlace(Files(p[1].file), p)
    OBVIOUS
  <2> QED
    BY <1>2 DEF IsPlace
<1>4. (Texts => \A p : p \in Places <=> p[1].file \in Tops /\ IsPlace(Files(p[1].file), p))'
  BY AllPlaces, PTL
<1>5. \A p : p \in Places' <=> p \in Places
  BY <1>1, <1>3, <1>4, AllPlaces
<1>6. \A p \in Places : Setting(p)' = Setting(p)
  <2> TAKE p \in Places
  <2>1. p[1].file \in Tops
    BY AllPlaces
  <2> QED
    BY <1>2, <2>1 DEF Setting, LineOf
<1>7. Leaves' = Leaves
  BY <1>5, <1>6 DEF Leaves
<1>8. ASSUME NEW p \in Leaves PROVE Entry(p)' = Entry(p)
  <2>1. p \in Places /\ p[1].file \in Tops
    BY AllPlaces DEF Leaves
  <2>2. Setting(p)' = Setting(p) /\ Files(p[1].file)' = Files(p[1].file)
    BY <1>2, <1>6, <2>1
  <2>3. Says(p)' = Says(p)
    BY <2>2 DEF Says
  <2>4. get_path(Files(p[1].file), Setting(p).value)' = get_path(Files(p[1].file), Setting(p).value)
    BY <2>2
  <2> QED
    BY <2>2, <2>3, <2>4 DEF Entry
<1> QED
  BY <1>1, <1>7, <1>8

OpenFile == [file : DOMAIN disk, line : Nat]
NowShape ==
    /\ Len(Base) \in {0, 1} /\ (Len(Base) = 1 <=> stage \in {"args", "parsed"} /\ typed # <<>>)
    /\ Len(Base) = 1 => Base[1] = [file |-> argv, line |-> Len(typed)]
    /\ IsChain(Now) /\ Len(Now) = Len(Base) + Len(reading) /\ Len(reading) \in Nat
    /\ \A i \in 1 .. Len(Base) : Now[i] = Base[i]
    /\ \A i \in 1 .. Len(reading) : Now[Len(Base) + i] = reading[i]

(* The stack of lines read is the one that is typed, if any, and those of  *)
(* the open files.                                                         *)
LEMMA NowIs == Texts /\ reading \in Seq(OpenFile) => NowShape
<1> SUFFICES ASSUME Texts, reading \in Seq(OpenFile) PROVE NowShape
  OBVIOUS
<1>1. Len(typed) \in Nat /\ Len(reading) \in Nat
  BY DEF Texts, IsText
<1> DEFINE Spot == [file : {argv} \cup DOMAIN disk, line : Nat]
<1>2. Base \in Seq(Spot) /\ reading \in Seq(Spot)
  <2>1. OpenFile \subseteq Spot
    BY DEF OpenFile
  <2>2. [file |-> argv, line |-> Len(typed)] \in Spot
    BY <1>1
  <2> HIDE DEF Spot
  <2>3. reading \in Seq(Spot)
    BY <2>1
  <2>4. Base \in Seq(Spot)
    BY <2>2 DEF Base
  <2> QED
    BY <2>3, <2>4
<1>3. Now \in Seq(Spot)
  <2> HIDE DEF Spot
  <2> QED
    BY <1>2 DEF Now
<1>4. IsChain(Now)
  <2>1. Now = [i \in 1 .. Len(Now) |-> Now[i]] /\ Len(Now) \in Nat /\ DOMAIN Now = 1 .. Len(Now)
    BY <1>3, AsFunction
  <2>2. \A i \in 1 .. Len(Now) : Now[i] \in Spot
    <3> HIDE DEF Spot
    <3> QED
      BY <1>3
  <2> QED
    BY <2>1, <2>2 DEF IsChain, IsSpot
<1>5. Len(Now) = Len(Base) + Len(reading)
  BY <1>2 DEF Now
<1>6. \A i \in 1 .. Len(Base) : Now[i] = Base[i]
  BY <1>2 DEF Now
<1>7. \A i \in 1 .. Len(reading) : Now[Len(Base) + i] = reading[i]
  BY <1>2 DEF Now
<1> QED
  BY <1>1, <1>4, <1>5, <1>6, <1>7 DEF NowShape, Base

LEMMA NowIsNext == (Texts /\ reading \in Seq(OpenFile) => NowShape)'
BY NowIs, PTL

----------------------------------------------------------------------------
(* ReadLine.                                                               *)

Quiet == UNCHANGED <<disk, runs, stage, host_config_file, system, saved, typed, found>>

LEMMA ReadLineQuiet == ASSUME ReadLine, stage' # "exited" PROVE Quiet
BY DEF ReadLine, Quiet, FileLine, parse_argument, Simple, Input, Mapping, Include, Word, inputVars

(* No place is changed by reading.                                         *)
LEMMA QuietFiles ==
    ASSUME Texts, Quiet
    PROVE  /\ Texts' /\ Base' = Base /\ Tops' = Tops /\ Leaves' = Leaves
           /\ \A p \in Leaves : Entry(p)' = Entry(p)
           /\ \A top : Files(top)' = Files(top)
<1>1. Texts' /\ Base' = Base
  BY DEF Quiet, Texts, Base
<1>2. \A top : Files(top)' = Files(top)
  BY DEF Quiet, Files
<1>3. Tops' = Tops /\ Leaves' = Leaves /\ \A p \in Leaves : Entry(p)' = Entry(p)
  BY <1>1, Unmoved DEF Quiet
<1> QED
  BY <1>1, <1>2, <1>3

(* What is being read.                                                     *)
LEMMA Reading ==
    ASSUME Texts, Phase, Nested, reading # <<>>, stage # "exited"
    PROVE  /\ NowShape /\ Len(Now) \in Nat \ {0} /\ Len(reading) > 0 /\ Now[Len(Now)] = Last(reading)
           /\ Now[1].file \in Tops /\ IsStack(Files(Now[1].file), Now)
           /\ Last(reading).file \in DOMAIN disk /\ Last(reading).line \in Nat
           /\ DOMAIN Files(Now[1].file) \ {argv} = DOMAIN disk
           /\ \A f \in DOMAIN disk : disk[f] = Files(Now[1].file)[f]
           /\ disk = found \/ Now[1].file[1] = "hosts"
           /\ stage = "using" => Now[1].file = host_config_file
<1>1. NowShape
  BY NowIs DEF Nested, OpenFile
<1>2. Len(reading) \in Nat \ {0} /\ \A i \in 1 .. Len(reading) : reading[i] \in OpenFile
  <2>1. reading \in Seq(OpenFile) /\ reading # <<>>
    BY DEF Nested, OpenFile
  <2> QED
    BY <2>1
<1>3. Len(Now) \in Nat \ {0} /\ Now[Len(Now)] = reading[Len(reading)]
  BY <1>1, <1>2 DEF NowShape
<1>4. Now # <<>>
  BY <1>3
<1>5. Now[1].file \in Tops /\ IsStack(Files(Now[1].file), Now)
  BY <1>4 DEF Nested
<1>6. stage \in {"args", "parsed", "using"} /\ Nowhere \notin DOMAIN disk /\ argv \notin DOMAIN disk /\ argv \notin DOMAIN found
  BY NotFiles DEF Phase
<1>7. ASSUME stage = "using" PROVE Now[1].file = host_config_file /\ Now[1].file[1] = "hosts"
  <2>1. Len(Base) = 0 /\ Now[1] = reading[1]
    BY <1>1, <1>2, <1>7 DEF NowShape
  <2>2. Now[1].file = host_config_file /\ Now[1].file \in DOMAIN disk
    BY <1>2, <1>7, <2>1 DEF Phase, OpenFile
  <2>3. host_config_file # Nowhere
    BY <1>6, <2>2
  <2> QED
    BY <2>2, <2>3 DEF Texts
<1>8. disk = found \/ Now[1].file[1] = "hosts"
  BY <1>6, <1>7 DEF Phase
<1>9. (DOMAIN Files(Now[1].file)) \ {argv} = DOMAIN disk /\ \A f \in DOMAIN disk : disk[f] = Files(Now[1].file)[f]
  BY <1>6, <1>8 DEF Files
<1> QED
  BY <1>1, <1>2, <1>3, <1>5, <1>7, <1>8, <1>9 DEF Last, OpenFile

(* The stack when the files open are those of the step.                    *)
LEMMA NowNext ==
    ASSUME Texts', Base' = Base, reading' \in Seq(OpenFile'),
           NEW b, b = Len(Base)
    PROVE  /\ IsChain(Now') /\ Len(Now') = b + Len(reading') /\ Len(reading') \in Nat
           /\ \A i \in 1 .. b : Now'[i] = Base[i]
           /\ \A i \in 1 .. Len(reading') : Now'[b + i] = reading'[i]
BY NowIsNext DEF NowShape

(* The innermost file is closed.                                           *)
LEMMA Popped ==
    ASSUME Texts, Phase, Nested, Quiet, reading # <<>>, stage # "exited",
           Last(reading).line = Len(disk[Last(reading).file]), reading' = Front(reading)
    PROVE  Nested' /\ NotAfter(Now') = NotAfter(Now)
<1> DEFINE n == Now m == Now' b == Len(Base) r == Len(reading)
<1>1. /\ NowShape /\ Len(n) \in Nat \ {0} /\ r > 0 /\ n[Len(n)] = Last(reading)
      /\ n[1].file \in Tops /\ IsStack(Files(n[1].file), n)
      /\ disk[Last(reading).file] = Files(n[1].file)[Last(reading).file]
      /\ stage = "using" => n[1].file = host_config_file
  BY Reading
<1>2. Texts' /\ Base' = Base /\ Tops' = Tops /\ \A top : Files(top)' = Files(top)
  BY QuietFiles
<1>3. /\ reading \in Seq(OpenFile) /\ reading' = [i \in 1 .. r - 1 |-> reading[i]]
      /\ reading' \in Seq(OpenFile') /\ Len(reading') = r - 1
  <2>1. reading \in Seq(OpenFile)
    BY DEF Nested, OpenFile
  <2>2. OpenFile' = OpenFile
    BY DEF Quiet, OpenFile
  <2> HIDE DEF r
  <2>3. r = Len(reading) /\ r > 0
    BY <1>1 DEF r
  <2>4. reading' = SubSeq(reading, 1, r - 1)
    BY <2>3 DEF Front
  <2> QED
    BY <2>1, <2>2, <2>3, <2>4
<1>4. /\ IsChain(m) /\ Len(m) = b + (r - 1)
      /\ \A i \in 1 .. b : m[i] = Base[i]
      /\ \A i \in 1 .. r - 1 : m[b + i] = reading[i]
  BY <1>2, <1>3, NowNext
<1>5. b \in {0, 1} /\ r \in Nat /\ Len(n) = b + r /\ IsChain(n)
  BY <1>1 DEF NowShape
<1>6. \A i \in 1 .. Len(n) - 1 : n[i] = m[i]
  <2> TAKE i \in 1 .. Len(n) - 1
  <2>1. CASE i \in 1 .. b
    BY <1>1, <1>4, <2>1 DEF NowShape
  <2>2. CASE i \notin 1 .. b
    <3>1. i - b \in 1 .. r - 1 /\ i - b \in 1 .. r /\ b + (i - b) = i
      BY <1>5, <2>2
    <3>2. n[b + (i - b)] = reading[i - b] /\ m[b + (i - b)] = reading[i - b]
      BY <1>1, <1>4, <3>1 DEF NowShape
    <3> QED
      BY <3>1, <3>2
  <2> QED
    BY <2>1, <2>2
<1>7. Closes(n, m) /\ Len(m) = Len(n) - 1
  BY <1>4, <1>5, <1>6 DEF Closes
<1>8. n[Len(n)].line = Len(Files(n[1].file)[n[Len(n)].file])
  BY <1>1
<1>9. ASSUME Len(n) = 1, NEW p \in Leaves PROVE ~(Rank(n[1].file) < Rank(p[1].file))
  <2>1. p[1].file \in Tops
    BY LeafIs
  <2>2. b = 0 /\ r = 1 /\ n[1] = reading[1]
    BY <1>1, <1>5, <1>9 DEF NowShape
  <2>3. CASE stage = "using"
    <3>1. Rank(n[1].file) = 3
      <4>1. n[1].file = host_config_file /\ host_config_file # Nowhere
        BY <1>1, <2>2, <2>3, Reading, NotFiles DEF Last
      <4>2. n[1].file[1] = "hosts"
        BY <4>1 DEF Texts
      <4>3. n[1].file # argv
        <5>1. argv[1] = "argv"
          BY DEF argv
        <5> QED
          BY <4>2, <5>1
      <4> QED
        BY <4>2, <4>3 DEF Rank
    <3>2. Rank(p[1].file) \in {1, 2, 3}
      BY <2>1, TopsAre
    <3> QED
      BY <3>1, <3>2
  <2>4. CASE stage # "using"
    <3>1. stage \in {"args", "parsed"} /\ typed = <<>> /\ host_config_file = Nowhere
      BY <1>1, <2>2, <2>4 DEF Phase, NowShape
    <3>2. stage = "args"
      BY <3>1 DEF Phase
    <3>3. n[1].file = get_path(found, "moonlight.conf")
      BY <2>2, <3>1, <3>2 DEF Phase
    <3>4. p[1].file # argv
      <4> SUFFICES ASSUME p[1].file = argv PROVE FALSE
        OBVIOUS
      <4>1. p[1].line \in DOMAIN Files(argv)[argv]
        <5>1. IsPlace(Files(p[1].file), p) /\ 1 \in 1 .. Len(p)
          BY LeafIs DEF IsPlace, IsChain
        <5> QED
          BY <5>1 DEF IsPlace
      <4>2. Files(argv)[argv] = typed
        BY DEF Files, argv
      <4> QED
        BY <3>1, <4>1, <4>2
    <3>5. p[1].file = n[1].file
      BY <2>1, <3>1, <3>3, <3>4, NotFiles DEF Tops
    <3>6. Rank(n[1].file) \in Int
      BY RankInt
    <3> QED
      BY <3>5, <3>6
  <2> QED
    BY <2>3, <2>4
<1>10. /\ Len(n) > 1 => m[1].file = n[1].file /\ IsStack(Files(n[1].file), m)
       /\ NotAfter(m) = NotAfter(n)
  <2>1. Len(n) > 0
    BY <1>1
  <2> HIDE DEF n, m
  <2> QED
    BY <1>1, <1>7, <1>8, <1>9, <2>1, ClosesFile
<1>11. Nested'
  <2>1. m # <<>> => Len(n) > 1
    <3>1. Len(n) = 1 \/ Len(n) > 1
      <4>1. PICK k \in Nat : k = Len(n) /\ k # 0
        BY <1>1
      <4>2. k = 1 \/ k > 1
        BY <4>1
      <4> QED
        BY <4>1, <4>2
    <3> HIDE DEF n, m
    <3>2. ASSUME Len(n) = 1 PROVE m = <<>>
      <4>1. m = [i \in 1 .. 0 |-> m[i]]
        BY <1>4, <1>7, <3>2 DEF IsChain
      <4> QED
        BY <4>1
    <3> QED
      BY <3>1, <3>2, Zenon
  <2>2. ASSUME m # <<>> PROVE m[1].file \in Tops' /\ m[1].file = n[1].file /\ IsStack(Files(n[1].file), m)
    <3> HIDE DEF n, m
    <3> QED
      BY <1>1, <1>2, <1>10, <2>1, <2>2
  <2>3. m # <<>> => (Now[1].file \in Tops /\ IsStack(Files(Now[1].file), Now))'
    BY <1>2, <2>2 DEF IsStack
  <2>4. reading' \in Seq(OpenFile') /\ Len(reading') <= MaxOpen
    <3>1. MaxOpen \in Nat /\ r <= MaxOpen
      BY ConfigAssumption DEF Nested
    <3> QED
      BY <1>3, <1>5, <3>1
  <2> QED
    BY <2>3, <2>4 DEF Nested, OpenFile
<1> QED
  BY <1>10, <1>11

(* The stack of the next state, made of one that is like Now.              *)
LEMMA NestedNext ==
    ASSUME Texts, Quiet, reading' \in Seq(OpenFile), Len(reading') <= MaxOpen,
           Now[1].file \in Tops, Now'[1].file = Now[1].file, IsStack(Files(Now[1].file), Now')
    PROVE  Nested'
<1>1. Texts' /\ Base' = Base /\ Tops' = Tops /\ \A top : Files(top)' = Files(top)
  BY QuietFiles
<1>2. (Now[1].file \in Tops /\ IsStack(Files(Now[1].file), Now))'
  BY <1>1 DEF IsStack
<1>3. OpenFile' = OpenFile
  BY DEF OpenFile, Quiet
<1> QED
  BY <1>2, <1>3 DEF Nested, OpenFile

Advanced == Append(Front(reading), [Last(reading) EXCEPT !.line = @ + 1])

(* The innermost file with one more line read.                             *)
LEMMA AdvancedIs ==
    ASSUME reading \in Seq(OpenFile), reading # <<>>
    PROVE  /\ Len(reading) \in Nat \ {0} /\ Len(Advanced) = Len(reading) /\ Advanced \in Seq(OpenFile)
           /\ \A i \in 1 .. Len(reading) - 1 : Advanced[i] = reading[i]
           /\ Advanced[Len(reading)].file = Last(reading).file
           /\ Advanced[Len(reading)].line = Last(reading).line + 1
<1> DEFINE r == Len(reading) fd == Last(reading) new == [fd EXCEPT !.line = @ + 1]
<1>1. r \in Nat \ {0} /\ fd \in OpenFile
  BY DEF Last
<1>2. new \in OpenFile /\ new.file = fd.file /\ new.line = fd.line + 1
  BY <1>1 DEF OpenFile
<1>3. Front(reading) \in Seq(OpenFile) /\ Len(Front(reading)) = r - 1
      /\ \A i \in 1 .. r - 1 : Front(reading)[i] = reading[i]
  <2>1. Front(reading) = SubSeq(reading, 1, r - 1) /\ r = Len(reading)
    BY DEF Front
  <2> HIDE DEF r, new, fd
  <2> QED
    BY <1>1, <2>1
<1> HIDE DEF r, fd, new
<1>4. Advanced = Append(Front(reading), new)
  BY DEF Advanced, new, fd
<1>5. Len(Advanced) = r /\ Advanced \in Seq(OpenFile) /\ Advanced[r] = new
      /\ \A i \in 1 .. r - 1 : Advanced[i] = Front(reading)[i]
  BY <1>1, <1>2, <1>3, <1>4
<1> QED
  BY <1>1, <1>2, <1>3, <1>5 DEF r, fd

(* A line is read that names no file, with no file opened.                 *)
LEMMA LineRead ==
    ASSUME Texts, Phase, Nested, Quiet, reading # <<>>, stage # "exited",
           Last(reading).line < Len(disk[Last(reading).file]), reading' = Advanced,
           disk[Last(reading).file][Last(reading).line + 1].name # "config"
    PROVE  /\ Nested' /\ Now' \in Leaves /\ Now'[1].file = Now[1].file
           /\ Setting(Now') = disk[Last(reading).file][Last(reading).line + 1]
           /\ Last(Now').file = Last(reading).file
           /\ NotAfter(Now') = NotAfter(Now) \cup {Now'} /\ Now' \notin NotAfter(Now)
           /\ ~Before(Now', Now') /\ \A p \in NotAfter(Now) : Before(p, Now') /\ ~Before(Now', p)
<1> DEFINE n == Now m == Now' b == Len(Base) r == Len(reading)
<1>1. /\ NowShape /\ Len(n) \in Nat \ {0} /\ r > 0 /\ n[Len(n)] = Last(reading)
      /\ n[1].file \in Tops /\ IsStack(Files(n[1].file), n)
      /\ disk[Last(reading).file] = Files(n[1].file)[Last(reading).file]
  BY Reading
<1>2. Texts' /\ Base' = Base /\ Tops' = Tops
  BY QuietFiles
<1>3. /\ r \in Nat \ {0} /\ Len(reading') = r /\ reading' \in Seq(OpenFile)
      /\ \A i \in 1 .. r - 1 : reading'[i] = reading[i]
      /\ reading'[r].file = Last(reading).file
      /\ reading'[r].line = Last(reading).line + 1
  BY AdvancedIs DEF Nested, OpenFile
<1>4. /\ IsChain(m) /\ Len(m) = b + r
      /\ \A i \in 1 .. b : m[i] = Base[i]
      /\ \A i \in 1 .. r : m[b + i] = reading'[i]
  <2>1. OpenFile' = OpenFile
    BY DEF Quiet, OpenFile
  <2>2. reading' \in Seq(OpenFile')
    BY <1>3, <2>1
  <2>3. /\ IsChain(m) /\ Len(m) = b + Len(reading')
        /\ \A i \in 1 .. b : m[i] = Base[i]
        /\ \A i \in 1 .. Len(reading') : m[b + i] = reading'[i]
    BY <1>2, <2>2, NowNext
  <2> QED
    BY <1>3, <2>3
<1>5. b \in {0, 1} /\ Len(n) = b + r /\ IsChain(n)
  BY <1>1 DEF NowShape
<1>6. \A i \in 1 .. Len(n) - 1 : n[i] = m[i]
  <2> TAKE i \in 1 .. Len(n) - 1
  <2>1. CASE i \in 1 .. b
    BY <1>1, <1>4, <2>1 DEF NowShape
  <2>2. CASE i \notin 1 .. b
    <3>1. i - b \in 1 .. r - 1 /\ i - b \in 1 .. r /\ b + (i - b) = i
      BY <1>3, <1>5, <2>2
    <3>2. n[b + (i - b)] = reading[i - b] /\ m[b + (i - b)] = reading[i - b]
      BY <1>1, <1>3, <1>4, <3>1 DEF NowShape
    <3> QED
      BY <3>1, <3>2
  <2> QED
    BY <2>1, <2>2
<1>7. m[Len(n)].file = n[Len(n)].file /\ m[Len(n)].line = n[Len(n)].line + 1
  <2>1. m[b + r] = reading'[r]
    BY <1>3, <1>4
  <2> QED
    BY <1>1, <1>3, <1>5, <2>1
<1>8. Moves(n, m)
  BY <1>4, <1>5, <1>6, <1>7 DEF Moves
<1>9. HasLine(n)
  BY <1>1 DEF HasLine
<1>10. /\ m[1].file = n[1].file /\ IsStack(Files(n[1].file), m)
       /\ Setting(m) = Files(n[1].file)[n[Len(n)].file][n[Len(n)].line + 1]
  <2> HIDE DEF n, m
  <2> QED
    BY <1>8, <1>9, MovedStack
<1>11. Setting(m) = disk[Last(reading).file][Last(reading).line + 1]
  BY <1>1, <1>10
<1>12. /\ m \in Leaves /\ NotAfter(m) = NotAfter(n) \cup {m} /\ m \notin NotAfter(n)
       /\ ~Before(m, m) /\ \A p \in NotAfter(n) : Before(p, m) /\ ~Before(m, p)
  <2>1. Setting(m).name # "config"
    BY <1>11
  <2> HIDE DEF n, m
  <2> QED
    BY <1>8, <1>9, <2>1, ReadsLeaf
<1>13. Last(m).file = Last(reading).file
  BY <1>1, <1>4, <1>5, <1>7 DEF Last
<1>14. Nested'
  BY <1>1, <1>3, <1>10, NestedNext DEF Nested
<1> QED
  BY <1>10, <1>11, <1>12, <1>13, <1>14

(* A line is read that names a file, and that file is opened.              *)
LEMMA FileOpened ==
    ASSUME Texts, Phase, Nested, Quiet, reading # <<>>, stage # "exited",
           Last(reading).line < Len(disk[Last(reading).file]), Len(reading) < MaxOpen, NEW file \in DOMAIN disk,
           reading' = Append(Advanced, Opened(file)),
           disk[Last(reading).file][Last(reading).line + 1].name = "config",
           disk[Last(reading).file][Last(reading).line + 1].value = file
    PROVE  Nested' /\ NotAfter(Now') = NotAfter(Now)
<1> DEFINE n == Now m == Now' b == Len(Base) r == Len(reading)
<1>1. /\ NowShape /\ Len(n) \in Nat \ {0} /\ r > 0 /\ n[Len(n)] = Last(reading)
      /\ n[1].file \in Tops /\ IsStack(Files(n[1].file), n)
      /\ disk[Last(reading).file] = Files(n[1].file)[Last(reading).file]
      /\ DOMAIN Files(n[1].file) \ {argv} = DOMAIN disk
  BY Reading
<1>2. Texts' /\ Base' = Base /\ Tops' = Tops /\ MaxOpen \in Nat
  BY QuietFiles, ConfigAssumption
<1>3. /\ r \in Nat \ {0} /\ Len(reading') = r + 1 /\ reading' \in Seq(OpenFile)
      /\ \A i \in 1 .. r - 1 : reading'[i] = reading[i]
      /\ reading'[r].file = Last(reading).file
      /\ reading'[r].line = Last(reading).line + 1
      /\ reading'[r + 1] = Opened(file)
  <2>1. /\ r \in Nat \ {0} /\ Len(Advanced) = r /\ Advanced \in Seq(OpenFile)
        /\ \A i \in 1 .. r - 1 : Advanced[i] = reading[i]
        /\ Advanced[r].file = Last(reading).file
        /\ Advanced[r].line = Last(reading).line + 1
    BY AdvancedIs DEF Nested, OpenFile
  <2>2. Opened(file) \in OpenFile
    BY DEF Opened, OpenFile
  <2> HIDE DEF r
  <2>3. /\ Len(reading') = r + 1 /\ reading' \in Seq(OpenFile) /\ reading'[r + 1] = Opened(file)
        /\ \A i \in 1 .. r : reading'[i] = Advanced[i]
    BY <2>1, <2>2
  <2> QED
    BY <2>1, <2>3
<1>4. /\ IsChain(m) /\ Len(m) = b + (r + 1)
      /\ \A i \in 1 .. b : m[i] = Base[i]
      /\ \A i \in 1 .. r + 1 : m[b + i] = reading'[i]
  <2>1. OpenFile' = OpenFile
    BY DEF Quiet, OpenFile
  <2>2. reading' \in Seq(OpenFile')
    BY <1>3, <2>1
  <2>3. /\ IsChain(m) /\ Len(m) = b + Len(reading')
        /\ \A i \in 1 .. b : m[i] = Base[i]
        /\ \A i \in 1 .. Len(reading') : m[b + i] = reading'[i]
    BY <1>2, <2>2, NowNext
  <2> QED
    BY <1>3, <2>3
<1>5. b \in {0, 1} /\ Len(n) = b + r /\ IsChain(n)
  BY <1>1 DEF NowShape
<1>6. \A i \in 1 .. Len(n) - 1 : n[i] = m[i]
  <2> TAKE i \in 1 .. Len(n) - 1
  <2>1. CASE i \in 1 .. b
    BY <1>1, <1>4, <2>1 DEF NowShape
  <2>2. CASE i \notin 1 .. b
    <3>1. i - b \in 1 .. r - 1 /\ i - b \in 1 .. r /\ i - b \in 1 .. r + 1 /\ b + (i - b) = i
      BY <1>3, <1>5, <2>2
    <3>2. n[b + (i - b)] = reading[i - b] /\ m[b + (i - b)] = reading[i - b]
      BY <1>1, <1>3, <1>4, <3>1 DEF NowShape
    <3> QED
      BY <3>1, <3>2
  <2> QED
    BY <2>1, <2>2
<1>7. m[Len(n)].file = n[Len(n)].file /\ m[Len(n)].line = n[Len(n)].line + 1 /\ m[Len(n) + 1] = Opened(file)
  <2>1. m[b + r] = reading'[r] /\ m[b + (r + 1)] = reading'[r + 1]
    BY <1>3, <1>4
  <2>2. Len(n) = b + r /\ Len(n) + 1 = b + (r + 1)
    BY <1>3, <1>5
  <2> QED
    BY <1>1, <1>3, <2>1, <2>2
<1>8. Opens(n, m, file) /\ Len(n) <= MaxOpen
  <2>1. Len(m) = Len(n) + 1 /\ Len(n) <= MaxOpen
    <3>1. r < MaxOpen
      OBVIOUS
    <3> HIDE DEF r, b, n, m
    <3>2. Len(m) = b + (r + 1) /\ Len(n) = b + r /\ b \in {0, 1} /\ r \in Nat /\ MaxOpen \in Nat
      BY <1>2, <1>3, <1>4, <1>5
    <3> QED
      BY <3>1, <3>2
  <2> QED
    BY <1>4, <1>6, <1>7, <2>1 DEF Opens
<1>9. HasLine(n)
  BY <1>1 DEF HasLine
<1>10. /\ Files(n[1].file)[n[Len(n)].file][n[Len(n)].line + 1].name = "config"
       /\ Files(n[1].file)[n[Len(n)].file][n[Len(n)].line + 1].value = file
       /\ file \in DOMAIN Files(n[1].file) /\ file # argv
  BY <1>1, NotFiles
<1>11. m[1].file = n[1].file /\ IsStack(Files(n[1].file), m) /\ NotAfter(m) = NotAfter(n)
  <2> HIDE DEF n, m
  <2> QED
    BY <1>8, <1>9, <1>10, OpensFile
<1>12. Nested'
  BY <1>1, <1>2, <1>3, <1>11, NestedNext
<1> QED
  BY <1>11, <1>12

----------------------------------------------------------------------------
(* What a setting does.                                                    *)

LEMMA FieldIs ==
    Field = {"width", "height", "fps", "bitrate", "packetsize", "app", "sops", "localaudio", "remote",
             "windowed", "surround", "forcehevc", "unsupported", "forcehw", "platform", "audio", "keydir",
             "save", "action", "address"}
BY DEF Field, Default, Defaults

SetsWell(says) ==
    /\ "action" \notin DOMAIN says
    /\ "save" \in DOMAIN says => IsFile(says["save"])
    /\ "sops" \in DOMAIN says => says["sops"] \in BOOLEAN
    /\ "localaudio" \in DOMAIN says => says["localaudio"] \in BOOLEAN
    /\ "forcehevc" \in DOMAIN says => says["forcehevc"] = TRUE

(* What an option sets: fields, to its argument, none of which is the      *)
(* action.                                                                 *)
LEMMA SetsAre ==
    ASSUME NEW name, NEW value, name = "save" => IsFile(value)
    PROVE  /\ SetsWell(Sets(name, value)) /\ DOMAIN Sets(name, value) \subseteq Field
           /\ name \notin required_argument \cup no_argument => DOMAIN Sets(name, value) = {}
           /\ name \in {"input", "mapping", "config", ""} => DOMAIN Sets(name, value) = {}
           /\ name \in required_argument =>
                DOMAIN Sets(name, value) = {name} \cap Field /\ \A f \in {name} \cap Field : Sets(name, value)[f] = value
<1>1. CASE name \in {"720", "1080", "30fps", "60fps", "nosops"}
  <2>1. name \notin required_argument \cup {"input", "mapping", "config", ""} /\ name \in no_argument
    BY <1>1 DEF required_argument, no_argument
  <2>2. name \notin no_argument \cap Field /\ name \notin required_argument \cap Field
    BY <1>1, FieldIs DEF required_argument
  <2>3. DOMAIN Sets(name, value) \subseteq {"width", "height", "fps", "sops"} /\
        ("sops" \in DOMAIN Sets(name, value) => Sets(name, value)["sops"] = FALSE)
    <3>1. CASE name = "720"
      BY <2>2, <3>1 DEF Sets
    <3>2. CASE name = "1080"
      BY <2>2, <3>2 DEF Sets
    <3>3. CASE name = "30fps"
      BY <2>2, <3>3 DEF Sets
    <3>4. CASE name = "60fps"
      BY <2>2, <3>4 DEF Sets
    <3>5. CASE name = "nosops"
      BY <2>2, <3>5 DEF Sets
    <3> QED
      BY <1>1, <3>1, <3>2, <3>3, <3>4, <3>5
  <2> QED
    BY <2>1, <2>2, <2>3, FieldIs DEF SetsWell
<1>2. CASE name \in no_argument \cap Field
  <2>0. name \notin {"720", "1080", "30fps", "60fps", "nosops"} \cup required_argument
    BY <1>2, FieldIs DEF no_argument, required_argument
  <2>1. Sets(name, value) = [f \in {name} |-> TRUE]
    BY <1>2, <2>0 DEF Sets
  <2>2. name \notin required_argument /\ name \notin {"action", "save", "input", "mapping", "config", ""}
    BY <1>2, FieldIs DEF no_argument, required_argument
  <2> QED
    BY <1>2, <2>1, <2>2 DEF SetsWell
<1>3. CASE name \in required_argument \cap Field
  <2>0. name \notin {"720", "1080", "30fps", "60fps", "nosops"} \cup no_argument
    BY <1>3 DEF required_argument, no_argument
  <2>1. Sets(name, value) = [f \in {name} |-> value]
    BY <1>3, <2>0 DEF Sets
  <2>2. name \notin {"action", "sops", "localaudio", "forcehevc", "input", "mapping", "config", ""}
    BY <1>3, FieldIs DEF required_argument
  <2> QED
    BY <1>3, <2>1, <2>2 DEF SetsWell
<1>4. CASE name \notin {"720", "1080", "30fps", "60fps", "nosops"} /\ name \notin no_argument \cap Field
           /\ name \notin required_argument \cap Field
  <2>1. Sets(name, value) = [f \in {} |-> value]
    BY <1>4 DEF Sets
  <2> QED
    BY <1>4, <2>1 DEF SetsWell
<1> QED
  BY <1>1, <1>2, <1>3, <1>4

(* The rest of the state follows what is heard.                            *)
Heeds(e) ==
    /\ DOMAIN config' = Field
    /\ \A f \in Field \ {"action"} : config'[f] = IF f \in DOMAIN e.says THEN e.says[f] ELSE config[f]
    /\ \/ /\ e.name = "input" /\ inputs' = Append(inputs, [path |-> e.value, mapping |-> mapping])
          /\ inputAdded' = TRUE /\ mapped' = TRUE /\ UNCHANGED mapping
       \/ e.name = "mapping" /\ mapping' = e.path /\ mapped' = FALSE /\ UNCHANGED <<inputs, inputAdded>>
       \/ e.name \notin {"input", "mapping"} /\ UNCHANGED inputVars

(* Of an option, or a line, that neither names a file nor is a plain word. *)
LEMMA ArgumentHeeds ==
    ASSUME DOMAIN config = Field, NEW name, NEW value, NEW open, name \notin {"config", ""},
           parse_argument(name, value, open), stage' # "exited", name = "save" => IsFile(value),
           NEW e, e.says = Sets(name, value), e.name = name, e.value = value, e.path = get_path(disk, value)
    PROVE  Heeds(e) /\ reading' = open /\ config'["action"] = config["action"] /\ UNCHANGED stage
<1>1. "action" \in Field /\ "action" \notin DOMAIN Sets(name, value) /\ DOMAIN Sets(name, value) \subseteq Field
  <2>1. SetsWell(Sets(name, value)) /\ DOMAIN Sets(name, value) \subseteq Field
    BY SetsAre
  <2> QED
    BY <2>1, FieldIs DEF SetsWell
<1>2. CASE Simple(name, value, open)
  BY <1>1, <1>2 DEF Simple, Set, Heeds
<1>3. CASE name = "input" /\ Input(value, open)
  <2>1. DOMAIN e.says = {}
    BY <1>3, SetsAre
  <2> QED
    BY <1>3, <2>1 DEF Input, Heeds
<1>4. CASE name = "mapping" /\ Mapping(value, open)
  <2>1. DOMAIN e.says = {}
    BY <1>4, SetsAre
  <2> QED
    BY <1>4, <2>1 DEF Mapping, Heeds
<1> QED
  BY <1>2, <1>3, <1>4 DEF parse_argument

(* A plain word is the action, or else the address.                        *)
LEMMA WordHeeds ==
    ASSUME DOMAIN config = Field, NEW value, NEW open, parse_argument("", value, open), stage' # "exited",
           NEW e, e.name = "",
           e.says = [f \in {x \in {"address"} : config["action"] # NULL} |-> value]
    PROVE  /\ Heeds(e) /\ reading' = open /\ UNCHANGED stage
           /\ config'["action"] = IF config["action"] = NULL THEN value ELSE config["action"]
<1>1. Word(value, open)
  BY DEF parse_argument, Simple
<1>2. "action" \in Field /\ "address" \in Field
  BY FieldIs
<1>3. CASE config["action"] = NULL
  BY <1>1, <1>2, <1>3 DEF Word, Heeds
<1>4. CASE config["action"] # NULL
  BY <1>1, <1>2, <1>4 DEF Word, Heeds
<1> QED
  BY <1>3, <1>4

FileSays(s) ==
    CASE s.name \in {"sops", "localaudio"} -> [f \in {s.name} |-> s.value = "true"]
      [] s.name = "address" -> [f \in {s.name} |-> s.value]
      [] s.name \notin required_argument \cup {"sops", "localaudio", "address"} -> [f \in {} |-> s.value]
      [] OTHER -> Sets(s.name, s.value)

(* A line of a file sets what the reference says of it.                    *)
LEMMA LineHeeds ==
    ASSUME DOMAIN config = Field, NEW s, NEW open, s.name # "config",
           FileLine(s, open), stage' # "exited", s.name = "save" => IsFile(s.value),
           NEW e, e.says = FileSays(s), e.name = s.name, e.value = s.value, e.path = get_path(disk, s.value)
    PROVE  Heeds(e) /\ reading' = open /\ config'["action"] = config["action"]
<1>0. "action" \in Field /\ {"sops", "localaudio", "address"} \cap required_argument = {}
  BY FieldIs DEF required_argument
<1>1. CASE s.name \in {"sops", "localaudio"}
  <2>1. FileSays(s) = [f \in {s.name} |-> s.value = "true"]
    BY <1>1 DEF FileSays
  <2>2. /\ Set([f \in {s.name} |-> s.value = "true"])
        /\ reading' = open /\ UNCHANGED <<stage, inputVars>>
    BY <1>0, <1>1 DEF FileLine
  <2> QED
    BY <1>0, <1>1, <2>1, <2>2 DEF Heeds, Set
<1>2. CASE s.name = "address"
  <2>1. FileSays(s) = [f \in {s.name} |-> s.value]
    BY <1>2 DEF FileSays
  <2>2. /\ Set([f \in {s.name} |-> s.value])
        /\ reading' = open /\ UNCHANGED <<stage, inputVars>>
    BY <1>0, <1>2 DEF FileLine
  <2> QED
    BY <1>0, <1>2, <2>1, <2>2 DEF Heeds, Set
<1>3. CASE s.name \in required_argument
  <2>1. FileSays(s) = Sets(s.name, s.value)
    BY <1>0, <1>3 DEF FileSays
  <2>2. parse_argument(s.name, s.value, open) /\ s.name # ""
    BY <1>0, <1>3 DEF FileLine, required_argument
  <2> QED
    BY <2>1, <2>2, ArgumentHeeds
<1>4. CASE s.name \notin {"sops", "localaudio", "address"} \cup required_argument
  <2>1. FileSays(s) = [f \in {} |-> s.value]
    BY <1>4 DEF FileSays
  <2>2. reading' = open /\ UNCHANGED <<stage, config, inputVars>> /\ s.name \notin {"input", "mapping"}
    BY <1>4 DEF FileLine, required_argument
  <2> QED
    BY <2>1, <2>2 DEF Heeds
<1> QED
  BY <1>1, <1>2, <1>3, <1>4

LEMMA FileSaysWell ==
    ASSUME NEW s, s.name = "save" => IsFile(s.value)
    PROVE  SetsWell(FileSays(s)) /\ (s.name = "config" => DOMAIN FileSays(s) = {})
<1>1. CASE s.name \in {"sops", "localaudio"}
  BY <1>1 DEF FileSays, SetsWell
<1>2. CASE s.name = "address"
  BY <1>2 DEF FileSays, SetsWell
<1>3. CASE s.name \notin {"sops", "localaudio", "address"} \cup required_argument
  BY <1>3 DEF FileSays, SetsWell
<1>4. CASE s.name \notin {"sops", "localaudio", "address"} /\ s.name \in required_argument
  <2>1. FileSays(s) = Sets(s.name, s.value)
    BY <1>4 DEF FileSays
  <2>2. SetsWell(Sets(s.name, s.value)) /\ (s.name = "config" => DOMAIN Sets(s.name, s.value) = {})
    BY SetsAre
  <2> QED
    BY <2>1, <2>2
<1> QED
  BY <1>1, <1>2, <1>3, <1>4

LEMMA SaysInFile ==
    ASSUME NEW p, Last(p).file # argv
    PROVE  Says(p) = FileSays(Setting(p))
<1>1. {"sops", "localaudio", "address"} \cap required_argument = {}
  BY DEF required_argument
<1> QED
  BY <1>1 DEF Says, FileSays

LEMMA SaysTyped ==
    ASSUME NEW p, Last(p).file = argv
    PROVE  Says(p) =
             IF Setting(p).name = ""
             THEN [f \in {x \in {"address"} : \E n \in 1 .. Last(p).line - 1 : typed[n].name = ""} |->
                     Setting(p).value]
             ELSE Sets(Setting(p).name, Setting(p).value)
BY DEF Says

LEMMA ReadLinePhase ==
    ASSUME Texts, Phase, Nested, Quiet, reading # <<>>,
           \/ reading' = Front(reading) \/ reading' = Advanced
           \/ \E file : reading' = Append(Advanced, Opened(file)) /\ file \in DOMAIN disk
    PROVE  Phase'
<1> DEFINE r == Len(reading)
<1>1. r \in Nat \ {0} /\ reading \in Seq(OpenFile) /\ Len(Advanced) = r /\ Advanced \in Seq(OpenFile)
      /\ (\A i \in 1 .. r - 1 : Advanced[i] = reading[i]) /\ Advanced[r].file = Last(reading).file
  BY AdvancedIs DEF Nested, OpenFile
<1>2. reading' # <<>> => reading'[1].file = reading[1].file
  <2> HIDE DEF r
  <2>0. r = Len(reading)
    BY DEF r
  <2>1. Advanced[1].file = reading[1].file
    <3>1. CASE r = 1
      BY <1>1, <2>0, <3>1 DEF Last
    <3>2. CASE r # 1
      BY <1>1, <3>2
    <3> QED
      BY <3>1, <3>2
  <2>2. CASE reading' = Front(reading)
    BY <1>1, <2>0, <2>2 DEF Front
  <2>3. CASE reading' = Advanced
    BY <2>1, <2>3
  <2>4. ASSUME NEW file \in DOMAIN disk, reading' = Append(Advanced, Opened(file))
        PROVE  reading'[1].file = reading[1].file
    <3>1. Opened(file) \in OpenFile
      BY DEF Opened, OpenFile
    <3>2. reading'[1] = Advanced[1]
      BY <1>1, <2>4, <3>1
    <3> QED
      BY <2>1, <3>2
  <2> QED
    BY <2>2, <2>3, <2>4
<1> QED
  BY <1>2 DEF Phase, Quiet

(* config_file_parse reads a line, or closes the file: one more place is   *)
(* heard, or none.                                                         *)
LEMMA ReadLineStep ==
    ASSUME Texts, Phase, Nested, DOMAIN config = Field, ReadLine, stage' # "exited"
    PROVE  /\ Texts' /\ Phase' /\ Nested' /\ Quiet /\ stage # "start"
           /\ \/ Told' = Told /\ UNCHANGED <<config, inputVars>>
              \/ \E q : /\ Grown(Told, Told', q, Entry(q)) /\ Heeds(Entry(q)) /\ SetsWell(Entry(q).says)
                        /\ config'["action"] = config["action"]
                        /\ q[1].file \in Tops /\ (stage = "using" => q[1].file = host_config_file)
<1> DEFINE fd == Last(reading) lines == disk[fd.file]
<1>1. Quiet /\ reading # <<>> /\ stage # "exited"
  BY ReadLineQuiet DEF ReadLine
<1>2. stage # "start" /\ stage' = stage
  BY <1>1 DEF Phase, Quiet
<1>3. Texts' /\ Leaves' = Leaves /\ \A p \in Leaves : Entry(p)' = Entry(p)
  BY <1>1, QuietFiles
<1>4. Heard = NotAfter(Now) /\ Heard' = NotAfter(Now')
  BY <1>2, <1>3 DEF Heard, NotAfter
<1>5. /\ fd.file \in DOMAIN disk /\ fd.file # argv /\ fd.line \in Nat /\ IsText(lines)
      /\ Now[1].file \in Tops /\ (disk = found \/ Now[1].file[1] = "hosts")
      /\ stage = "using" => Now[1].file = host_config_file
  BY <1>1, Reading, NotFiles DEF Texts
<1>6. CASE fd.line = Len(lines) /\ reading' = Front(reading) /\ UNCHANGED <<stage, config, inputVars>>
  <2>1. Nested' /\ NotAfter(Now') = NotAfter(Now) /\ Phase'
    BY <1>1, <1>6, Popped, ReadLinePhase
  <2>2. Told' = Told
    BY <1>3, <1>4, <2>1 DEF Told, NotAfter
  <2> QED
    BY <1>1, <1>2, <1>3, <1>6, <2>1, <2>2
<1>7. CASE fd.line < Len(lines) /\ FileLine(lines[fd.line + 1], Advanced)
  <2> DEFINE s == lines[fd.line + 1]
  <2>1. s.name = "save" => IsFile(s.value)
    BY <1>5, <1>7 DEF IsText
  <2>2. CASE s.name = "config"
    <3>1. Include(s.value, Advanced)
      BY <1>7, <2>2 DEF FileLine, parse_argument, Simple, required_argument
    <3>2. Len(reading) < MaxOpen
      BY <1>1, <3>1, AdvancedIs DEF Include, Nested, OpenFile
    <3>3. s.value \in DOMAIN disk /\ reading' = Append(Advanced, Opened(s.value)) /\ UNCHANGED <<config, inputVars>>
      BY <3>1 DEF Include
    <3>4. Nested' /\ NotAfter(Now') = NotAfter(Now)
      BY <1>1, <1>7, <2>2, <3>2, <3>3, FileOpened
    <3>5. Phase'
      BY <1>1, <3>3, ReadLinePhase
    <3>6. Told' = Told
      BY <1>3, <1>4, <3>4 DEF Told, NotAfter
    <3> QED
      BY <1>1, <1>2, <1>3, <3>3, <3>4, <3>5, <3>6
  <2>3. CASE s.name # "config"
    <3> DEFINE q == Now' e == Entry(q)
    <3>1. reading' = Advanced
      BY <1>7, <2>3 DEF FileLine, parse_argument, Simple, Input, Mapping, Word, required_argument
    <3>2. /\ Nested' /\ q \in Leaves /\ q[1].file = Now[1].file
          /\ Setting(q) = s /\ Last(q).file = fd.file
          /\ NotAfter(q) = NotAfter(Now) \cup {q} /\ q \notin NotAfter(Now)
          /\ ~Before(q, q) /\ \A p \in NotAfter(Now) : Before(p, q) /\ ~Before(q, p)
      BY <1>1, <1>7, <2>3, <3>1, LineRead
    <3>3. Phase'
      BY <1>1, <3>1, ReadLinePhase
    <3> HIDE DEF q
    <3>4. e.says = FileSays(s) /\ e.name = s.name /\ e.value = s.value /\ e.path = get_path(disk, s.value)
      <4>1. Says(q) = FileSays(s)
        BY <1>5, <3>2, SaysInFile
      <4>2. get_path(Files(q[1].file), s.value) = get_path(disk, s.value)
        BY <1>5, <3>2, FilesPath
      <4> QED
        BY <3>2, <4>1, <4>2 DEF Entry
    <3>5. Heeds(e) /\ config'["action"] = config["action"] /\ SetsWell(e.says)
      <4> HIDE DEF e, s
      <4>1. FileLine(s, Advanced)
        BY <1>7 DEF s
      <4> QED
        BY <2>1, <2>3, <3>4, <4>1, LineHeeds, FileSaysWell
    <3>6. Grown(Told, Told', q, e)
      <4>1. Heard' = Heard \cup {q} /\ q \notin Heard /\ Heard \subseteq Leaves
        BY <1>4, <3>2 DEF NotAfter, q
      <4>2. Told' = [p \in Heard \cup {q} |-> IF p = q THEN e ELSE Told[p]]
        <5> HIDE DEF e
        <5>1. \A p \in Heard \cup {q} : Entry(p)' = IF p = q THEN e ELSE Told[p]
          BY <1>3, <3>2, <4>1 DEF Told, e
        <5> QED
          BY <4>1, <5>1 DEF Told
      <4> QED
        BY <1>4, <3>2, <4>1, <4>2 DEF Grown, Told
    <3>7. q[1].file \in Tops /\ (stage = "using" => q[1].file = host_config_file)
      BY <1>5, <3>2
    <3>8. \E x : /\ Grown(Told, Told', x, Entry(x)) /\ Heeds(Entry(x)) /\ SetsWell(Entry(x).says)
                 /\ config'["action"] = config["action"]
                 /\ x[1].file \in Tops /\ (stage = "using" => x[1].file = host_config_file)
      BY <3>5, <3>6, <3>7
    <3> QED
      BY <1>1, <1>2, <1>3, <3>2, <3>3, <3>8
  <2> QED
    BY <2>2, <2>3
<1> QED
  BY <1>6, <1>7 DEF ReadLine, Advanced

----------------------------------------------------------------------------
(* One more option is typed.                                               *)

(* Only the first line of a place may be typed.                            *)
LEMMA OnlyFirstTyped ==
    ASSUME NEW F, NEW p, IsPlace(F, p), NEW i \in 1 .. Len(p), p[i].file = argv
    PROVE  i = 1
<1> SUFFICES ASSUME i # 1 PROVE FALSE
  OBVIOUS
<1>1. i - 1 \in 1 .. Len(p) - 1 /\ (i - 1) + 1 = i
  BY DEF IsPlace, IsChain
<1>2. p[(i - 1) + 1].file # argv
  BY <1>1 DEF IsPlace
<1> QED
  BY <1>1, <1>2

Agree(F, G, p) ==
    /\ DOMAIN F = DOMAIN G /\ \A f \in DOMAIN F \ {argv} : F[f] = G[f]
    /\ p[1].file = argv => p[1].line \in DOMAIN G[argv] /\ F[argv][p[1].line] = G[argv][p[1].line]

(* A place is one in whatever files agree in its lines.                    *)
LEMMA PlaceAgrees ==
    ASSUME NEW F, NEW G, NEW p, IsPlace(F, p), Agree(F, G, p)
    PROVE  IsPlace(G, p) /\ F[p[Len(p)].file][p[Len(p)].line] = G[p[Len(p)].file][p[Len(p)].line]
<1>1. IsChain(p) /\ Len(p) \in Nat \ {0}
  BY DEF IsPlace, IsChain
<1>2. ASSUME NEW i \in 1 .. Len(p)
      PROVE  /\ p[i].file \in DOMAIN G /\ p[i].line \in DOMAIN G[p[i].file]
             /\ F[p[i].file][p[i].line] = G[p[i].file][p[i].line]
  <2>1. p[i].file \in DOMAIN F /\ p[i].line \in DOMAIN F[p[i].file]
    BY DEF IsPlace
  <2>2. CASE p[i].file # argv
    BY <2>1, <2>2 DEF Agree
  <2>3. CASE p[i].file = argv
    BY <2>1, <2>3, OnlyFirstTyped DEF Agree
  <2> QED
    BY <2>2, <2>3
<1>3. \A i \in 1 .. Len(p) - 1 : i \in 1 .. Len(p)
  BY <1>1
<1>4. IsPlace(G, p)
  BY <1>1, <1>2, <1>3 DEF IsPlace
<1>5. Len(p) \in 1 .. Len(p)
  BY <1>1
<1> QED
  BY <1>2, <1>4, <1>5

Prompt == <<[file |-> argv, line |-> Len(typed)]>>

(* What is after all that is typed.                                        *)
LEMMA PromptBefore ==
    ASSUME Texts, NEW p, p[1].file \in Tops, IsChain(p), Len(p) > 0, host_config_file = Nowhere
    PROVE  Before(Prompt, p) <=> p[1].file = argv /\ Len(typed) < p[1].line
<1>1. Rank(argv) = 2 /\ Rank(p[1].file) \in {1, 2} /\ (Rank(p[1].file) = 2 <=> p[1].file = argv)
  <2>1. p[1].file # host_config_file \/ p[1].file \notin DOMAIN disk
    BY NotFiles
  <2>2. (p[1].file = argv /\ Rank(p[1].file) = 2) \/ (p[1].file # argv /\ Rank(p[1].file) = 1)
    <3>1. PICK top \in Tops : top = p[1].file
      OBVIOUS
    <3>2. (top = argv /\ Rank(top) = 2) \/ (top # argv /\ Rank(top) = 1)
      BY <2>1, <3>1, TopsAre
    <3> QED
      BY <3>1, <3>2
  <2>3. Rank(argv) = 2
    BY DEF Rank, argv
  <2> QED
    BY <2>2, <2>3
<1>2. DOMAIN Prompt = {1} /\ Prompt[1] = [file |-> argv, line |-> Len(typed)]
  BY DEF Prompt
<1>3. 1 \in DOMAIN p /\ \A i \in 1 .. 1 - 1 : FALSE
  BY DEF IsChain
<1>4. Before(Prompt, p) <=> Earlier(Prompt[1], p[1])
  BY <1>2, <1>3 DEF Before
<1> QED
  BY <1>1, <1>2, <1>4 DEF Earlier

(* With one more option typed the places are the old ones and those under  *)
(* that option.                                                            *)
LEMMA TypedMore ==
    ASSUME Texts, Texts', stage = "args", reading = <<>>, host_config_file = Nowhere,
           UNCHANGED <<disk, found, host_config_file>>,
           NEW S, typed \in Seq(S), NEW o, typed' = Append(typed, o)
    PROVE  /\ argv \in Tops' /\ Tops' = Tops /\ Len(typed) \in Nat /\ Len(typed') = Len(typed) + 1
           /\ typed'[Len(typed) + 1] = o /\ \A i \in 1 .. Len(typed) : typed'[i] = typed[i]
           /\ \A p : p \in Leaves' /\ ~Before(Prompt, p) <=> p \in Leaves /\ ~Before(Now, p)
           /\ \A p \in Leaves : Entry(p)' = Entry(p)
<1>1. /\ Len(typed) \in Nat /\ Len(typed') = Len(typed) + 1 /\ DOMAIN typed = 1 .. Len(typed)
      /\ DOMAIN typed' = 1 .. Len(typed) + 1
      /\ typed'[Len(typed) + 1] = o /\ \A i \in 1 .. Len(typed) : typed'[i] = typed[i]
  <2>1. typed \in Seq(S \cup {o})
    OBVIOUS
  <2> QED
    BY <2>1
<1>2. argv \in Tops' /\ Tops' = Tops
  BY DEF Tops
<1>3. \A top \in Tops : top[1] # "hosts"
  <2>1. \A top \in Tops : top # host_config_file \/ top \notin DOMAIN disk
    BY NotFiles
  <2> QED
    BY <2>1, TopsAre
<1>4. ASSUME NEW top \in Tops
      PROVE  /\ DOMAIN Files(top)' = DOMAIN Files(top)
             /\ \A f \in DOMAIN Files(top) \ {argv} : Files(top)'[f] = Files(top)[f]
             /\ Files(top)[argv] = typed /\ Files(top)'[argv] = typed'
  BY <1>3 DEF Files
<1>5. \A p : p[1].file \in Tops' /\ IsPlace(Files(p[1].file), p)' <=> p \in Places'
  <2>1. (Texts => \A p : p \in Places <=> p[1].file \in Tops /\ IsPlace(Files(p[1].file), p))'
    BY AllPlaces, PTL
  <2> QED
    BY <2>1
<1>6. \A p : p \in Places => IsChain(p) /\ Len(p) > 0 /\ 1 \in 1 .. Len(p) /\ p[1].file \in Tops
               /\ (p[1].file = argv => p[1].line \in 1 .. Len(typed))
  <2> SUFFICES ASSUME NEW p \in Places
               PROVE  IsChain(p) /\ Len(p) > 0 /\ 1 \in 1 .. Len(p) /\ p[1].file \in Tops
                        /\ (p[1].file = argv => p[1].line \in 1 .. Len(typed))
    OBVIOUS
  <2>1. p[1].file \in Tops /\ IsPlace(Files(p[1].file), p)
    BY AllPlaces
  <2>2. IsChain(p) /\ Len(p) > 0 /\ 1 \in 1 .. Len(p)
    BY <2>1 DEF IsPlace, IsChain
  <2> QED
    BY <1>1, <1>4, <2>1, <2>2 DEF IsPlace
<1>7. ASSUME NEW p \in Places
      PROVE  p \in Places' /\ Setting(p)' = Setting(p)
  <2> DEFINE F == Files(p[1].file) G == Files(p[1].file)'
  <2>1. p[1].file \in Tops /\ IsPlace(F, p)
    BY AllPlaces
  <2>2. Agree(F, G, p)
    BY <1>1, <1>4, <1>6, <2>1 DEF Agree
  <2>3. IsPlace(G, p) /\ F[p[Len(p)].file][p[Len(p)].line] = G[p[Len(p)].file][p[Len(p)].line]
    <3> HIDE DEF F, G
    <3> QED
      BY <2>1, <2>2, PlaceAgrees
  <2>4. IsPlace(Files(p[1].file), p)'
    BY <2>3 DEF IsPlace
  <2> QED
    BY <1>2, <1>5, <2>1, <2>3, <2>4 DEF Setting, LineOf, Last
<1>8. ASSUME NEW p \in Places', p[1].file = argv => p[1].line <= Len(typed)
      PROVE  p \in Places /\ Setting(p)' = Setting(p)
  <2> DEFINE F == Files(p[1].file)' G == Files(p[1].file)
  <2>0. p[1].file \in Tops /\ IsPlace(Files(p[1].file), p)'
    BY <1>2, <1>5
  <2>1. IsPlace(F, p)
    BY <2>0 DEF IsPlace
  <2>2. Agree(F, G, p)
    <3>1. DOMAIN F = DOMAIN G /\ (\A f \in DOMAIN F \ {argv} : F[f] = G[f]) /\ G[argv] = typed /\ F[argv] = typed'
      BY <1>4, <2>0
    <3>2. p[1].file = argv => p[1].line \in DOMAIN typed'
      <4>1. 1 \in 1 .. Len(p)
        BY <2>1 DEF IsPlace
      <4>2. p[1].line \in DOMAIN F[p[1].file]
        BY <2>1, <4>1 DEF IsPlace
      <4> QED
        BY <3>1, <4>2
    <3> QED
      BY <1>1, <1>8, <3>1, <3>2 DEF Agree
  <2>3. IsPlace(G, p) /\ F[p[Len(p)].file][p[Len(p)].line] = G[p[Len(p)].file][p[Len(p)].line]
    <3> HIDE DEF F, G
    <3> QED
      BY <2>1, <2>2, PlaceAgrees
  <2> QED
    BY <2>0, <2>3, AllPlaces DEF Setting, LineOf, Last
<1>9. ASSUME NEW p, p \in Places \/ p \in Places'
      PROVE  Before(Prompt, p) <=> p[1].file = argv /\ Len(typed) < p[1].line
  <2>1. p \in Places'
    BY <1>7, <1>9
  <2>2. p[1].file \in Tops /\ IsPlace(Files(p[1].file), p)'
    BY <1>2, <1>5, <2>1
  <2>3. IsChain(p) /\ Len(p) > 0
    BY <2>2 DEF IsPlace, IsChain
  <2> QED
    BY <2>2, <2>3, PromptBefore
<1>10. ASSUME NEW p \in Places PROVE ~Before(Prompt, p) /\ ~Before(Now, p)
  <2>1. ~Before(Prompt, p)
    BY <1>1, <1>6, <1>9
  <2>2. CASE typed = <<>>
    <3>1. Now = <<>>
      BY <2>2 DEF Now, Base
    <3> QED
      BY <2>1, <3>1 DEF Before
  <2>3. CASE typed # <<>>
    <3>1. Now = Prompt
      BY <1>1, <2>3 DEF Now, Base, Prompt
    <3> QED
      BY <2>1, <3>1
  <2> QED
    BY <2>2, <2>3
<1>11. ASSUME NEW p
       PROVE  p \in Leaves' /\ ~Before(Prompt, p) <=> p \in Leaves /\ ~Before(Now, p)
  <2>1. ASSUME p \in Leaves PROVE p \in Leaves' /\ ~Before(Prompt, p) /\ ~Before(Now, p)
    BY <1>7, <1>10, <2>1 DEF Leaves
  <2>2. ASSUME p \in Leaves', ~Before(Prompt, p) PROVE p \in Leaves
    <3>1. p \in Places'
      BY <2>2 DEF Leaves
    <3>2. p[1].file = argv => p[1].line <= Len(typed)
      <4> SUFFICES ASSUME p[1].file = argv PROVE p[1].line <= Len(typed)
        OBVIOUS
      <4>1. p[1].line \in Nat
        <5>1. IsPlace(Files(p[1].file), p)'
          BY <1>5, <3>1
        <5> QED
          BY <5>1 DEF IsPlace, IsChain, IsSpot
      <4> QED
        BY <1>1, <1>9, <2>2, <3>1, <4>1
    <3> QED
      BY <1>8, <2>2, <3>1, <3>2 DEF Leaves
  <2> QED
    BY <2>1, <2>2
<1>12. ASSUME NEW p \in Leaves PROVE Entry(p)' = Entry(p)
  <2>1. p \in Places /\ Setting(p)' = Setting(p) /\ p[1].file \in Tops
    BY <1>6, <1>7 DEF Leaves
  <2>2. Says(p)' = Says(p)
    <3>1. CASE Last(p).file # argv
      <4>1. (Last(p).file # argv => Says(p) = FileSays(Setting(p)))'
        <5>1. Last(p).file # argv => Says(p) = FileSays(Setting(p))
          BY SaysInFile
        <5> QED
          BY <3>1, <2>1 DEF Says, FileSays
      <4> QED
        BY <2>1, <3>1, <4>1, SaysInFile
    <3>2. CASE Last(p).file = argv
      <4>1. Last(p).line \in 1 .. Len(typed)
        <5>1. IsPlace(Files(p[1].file), p) /\ Len(p) \in 1 .. Len(p)
          BY <1>6, <2>1, AllPlaces DEF IsChain
        <5>2. Len(p) = 1
          BY <3>2, <5>1, OnlyFirstTyped DEF Last
        <5> QED
          BY <1>6, <2>1, <3>2, <5>2 DEF Last
      <4>2. \A n \in 1 .. Last(p).line - 1 : typed'[n] = typed[n]
        BY <1>1, <4>1
      <4>3. {x \in {"address"} : \E n \in 1 .. Last(p).line - 1 : typed'[n].name = ""} =
            {x \in {"address"} : \E n \in 1 .. Last(p).line - 1 : typed[n].name = ""}
        BY <4>2
      <4>4. (Last(p).file = argv =>
               Says(p) =
                 IF Setting(p).name = ""
                 THEN [f \in {x \in {"address"} : \E n \in 1 .. Last(p).line - 1 : typed[n].name = ""} |->
                         Setting(p).value]
                 ELSE Sets(Setting(p).name, Setting(p).value))'
        BY DEF Says
      <4> QED
        BY <2>1, <3>2, <4>3, <4>4, SaysTyped
    <3> QED
      BY <3>1, <3>2
  <2>3. get_path(Files(p[1].file), Setting(p).value)' = get_path(Files(p[1].file), Setting(p).value)
    <3>1. DOMAIN Files(p[1].file)' = DOMAIN Files(p[1].file)
      BY <1>4, <2>1
    <3> QED
      BY <2>1, <3>1 DEF get_path
  <2> QED
    BY <2>1, <2>2, <2>3 DEF Entry
<1> QED
  BY <1>1, <1>2, <1>11, <1>12

ReadsLeaves ==
    \A n, m :
      HasLine(n) /\ Moves(n, m) /\ Setting(m).name # "config"
      => /\ m \in Leaves /\ NotAfter(m) = NotAfter(n) \cup {m} /\ m \notin NotAfter(n)
         /\ ~Before(m, m) /\ \A p \in NotAfter(n) : Before(p, m) /\ ~Before(m, p)

OpensFiles ==
    \A n, m, file :
      /\ HasLine(n) /\ Opens(n, m, file) /\ Len(n) <= MaxOpen
      /\ Files(n[1].file)[n[Len(n)].file][n[Len(n)].line + 1].name = "config"
      /\ Files(n[1].file)[n[Len(n)].file][n[Len(n)].line + 1].value = file
      /\ file \in DOMAIN Files(n[1].file) /\ file # argv
      => m[1].file = n[1].file /\ IsStack(Files(n[1].file), m) /\ NotAfter(m) = NotAfter(n)

LEMMA ReadsThem == Texts => ReadsLeaves /\ OpensFiles
<1>1. Texts => ReadsLeaves
  BY ReadsLeaf DEF ReadsLeaves
<1>2. Texts => OpensFiles
  BY OpensFile DEF OpensFiles
<1> QED
  BY <1>1, <1>2

LEMMA PromptIs ==
    ASSUME Texts, Texts', stage = "args", reading = <<>>, host_config_file = Nowhere,
           UNCHANGED <<disk, found, host_config_file>>,
           NEW S, typed \in Seq(S), NEW o, typed' = Append(typed, o), NEW n, n = Prompt
    PROVE  /\ HasLine(n)' /\ Len(n) = 1 /\ n[1] = [file |-> argv, line |-> Len(typed)]
           /\ Files(argv)'[argv] = typed' /\ Files(argv)'[argv][Len(typed) + 1] = o
           /\ DOMAIN Files(argv)' = DOMAIN found \cup {argv}
<1>1. /\ argv \in Tops' /\ Len(typed) \in Nat /\ Len(typed') = Len(typed) + 1 /\ typed'[Len(typed) + 1] = o
  BY TypedMore
<1>2. Len(n) = 1 /\ n[1] = [file |-> argv, line |-> Len(typed)] /\ DOMAIN n = 1 .. 1
      /\ n = [i \in 1 .. 1 |-> n[i]]
  BY DEF Prompt
<1>3. Files(argv)'[argv] = typed' /\ DOMAIN Files(argv)' = DOMAIN found \cup {argv}
  BY DEF Files, argv
<1>4. IsChain(n)
  BY <1>1, <1>2 DEF IsChain, IsSpot
<1>5. 1 \in 0 .. MaxOpen + 1
  <2>1. MaxOpen \in Nat
    BY ConfigAssumption
  <2> QED
    BY <2>1
<1>6. Len(typed) \in 0 .. Len(typed') /\ Len(typed) < Len(typed')
  BY <1>1
<1>7. IsStack(Files(argv), n)'
  BY <1>2, <1>3, <1>4, <1>5, <1>6 DEF IsStack
<1>8. (n[1].file \in Tops /\ n[Len(n)].line < Len(Files(n[1].file)[n[Len(n)].file]))'
  BY <1>1, <1>2, <1>3, <1>6
<1> QED
  BY <1>1, <1>2, <1>3, <1>7, <1>8 DEF HasLine

(* An option that names no file is the next to be heard.                   *)
LEMMA TypedLeaf ==
    ASSUME Texts, Texts', stage = "args", stage' = "args", reading = <<>>, reading' = <<>>,
           host_config_file = Nowhere, UNCHANGED <<disk, found, host_config_file>>,
           NEW S, typed \in Seq(S), NEW o, typed' = Append(typed, o), o.name # "config"
    PROVE  /\ Nested' /\ argv \in Tops'
           /\ \E q : /\ q[1].file = argv /\ Last(q) = [file |-> argv, line |-> Len(typed) + 1] /\ Setting(q)' = o
                     /\ Heard' = Heard \cup {q} /\ q \in Leaves' /\ q \notin Heard
                     /\ ~Before(q, q) /\ \A p \in Heard : Before(p, q) /\ ~Before(q, p)
<1>1. PICK n, q : n = Prompt /\ q = <<[file |-> argv, line |-> Len(typed) + 1]>>
  OBVIOUS
<1>2. /\ HasLine(n)' /\ Len(n) = 1 /\ n[1] = [file |-> argv, line |-> Len(typed)]
      /\ Files(argv)'[argv] = typed' /\ Files(argv)'[argv][Len(typed) + 1] = o
      /\ argv \in DOMAIN Files(argv)'
  BY <1>1, PromptIs
<1>3. /\ argv \in Tops' /\ Len(typed) \in Nat /\ Len(typed') = Len(typed) + 1 /\ typed' # <<>>
      /\ \A p : p \in Leaves' /\ ~Before(Prompt, p) <=> p \in Leaves /\ ~Before(Now, p)
  <2>1. Len(typed) \in Nat /\ Len(typed') = Len(typed) + 1
    BY TypedMore
  <2>2. typed' # <<>>
    BY <2>1
  <2> QED
    BY <2>1, <2>2, TypedMore
<1>4. IsChain(q) /\ Len(q) = 1 /\ q[1] = [file |-> argv, line |-> Len(typed) + 1]
  BY <1>1, <1>3 DEF IsChain, IsSpot
<1>5. Now' = q
  BY <1>1, <1>3 DEF Now, Base
<1>6. Moves(n, q)
  BY <1>2, <1>4 DEF Moves
<1>7. Setting(q)' = o /\ Last(q) = [file |-> argv, line |-> Len(typed) + 1]
  BY <1>2, <1>4 DEF Setting, LineOf, Last
<1>8. (/\ q \in Leaves /\ NotAfter(q) = NotAfter(n) \cup {q} /\ q \notin NotAfter(n)
       /\ ~Before(q, q) /\ \A p \in NotAfter(n) : Before(p, q) /\ ~Before(q, p))'
  <2>1. (Texts => ReadsLeaves /\ OpensFiles)'
    BY ReadsThem, PTL
  <2> QED
    BY <1>2, <1>6, <1>7, <2>1 DEF ReadsLeaves
<1>9. NotAfter(n)' = Heard
  BY <1>1, <1>3 DEF NotAfter, Heard
<1>10. Heard' = NotAfter(q)'
  BY <1>5 DEF NotAfter, Heard
<1>11. Nested'
  <2>0. MaxOpen \in Nat
    BY ConfigAssumption
  <2>1. Len(typed) + 1 \in 0 .. Len(typed') /\ 1 \in 0 .. MaxOpen + 1 /\ MaxOpen \in Nat
    BY <1>3, <2>0
  <2>2. IsStack(Files(argv), q)'
    BY <1>2, <1>4, <2>1 DEF IsStack
  <2>3. (Now # <<>> => Now[1].file \in Tops /\ IsStack(Files(Now[1].file), Now))'
    BY <1>3, <1>4, <1>5, <2>2
  <2>4. (reading \in Seq([file : DOMAIN disk, line : Nat]) /\ Len(reading) <= MaxOpen)'
    BY <2>1
  <2> QED
    BY <2>3, <2>4 DEF Nested
<1>12. /\ Heard' = Heard \cup {q} /\ q \in Leaves' /\ q \notin Heard
       /\ ~Before(q, q) /\ \A p \in Heard : Before(p, q) /\ ~Before(q, p)
  BY <1>8, <1>9, <1>10
<1> QED
  BY <1>3, <1>4, <1>7, <1>11, <1>12

(* An option that names a file makes nothing heard yet.                    *)
LEMMA TypedFile ==
    ASSUME Texts, Texts', stage = "args", stage' \in {"args", "parsed"}, reading = <<>>,
           host_config_file = Nowhere, UNCHANGED <<disk, found, host_config_file>>, disk = found,
           NEW S, typed \in Seq(S), NEW o, typed' = Append(typed, o), o.name = "config",
           o.value \in DOMAIN disk, reading' = <<Opened(o.value)>>
    PROVE  Nested' /\ Heard' = Heard
<1>0. PICK file : file = o.value
  OBVIOUS
<1>1. PICK n, m : n = Prompt /\ m = <<[file |-> argv, line |-> Len(typed) + 1], Opened(file)>>
  OBVIOUS
<1>2. /\ HasLine(n)' /\ Len(n) = 1 /\ n[1] = [file |-> argv, line |-> Len(typed)]
      /\ Files(argv)'[argv] = typed' /\ Files(argv)'[argv][Len(typed) + 1] = o
      /\ DOMAIN Files(argv)' = DOMAIN found \cup {argv}
  BY <1>1, PromptIs
<1>3. /\ argv \in Tops' /\ Len(typed) \in Nat /\ Len(typed') = Len(typed) + 1 /\ typed' # <<>>
      /\ \A p : p \in Leaves' /\ ~Before(Prompt, p) <=> p \in Leaves /\ ~Before(Now, p)
  <2>1. Len(typed) \in Nat /\ Len(typed') = Len(typed) + 1
    BY TypedMore
  <2>2. typed' # <<>>
    BY <2>1
  <2> QED
    BY <2>1, <2>2, TypedMore
<1>4. /\ IsChain(m) /\ Len(m) = 2 /\ m[1] = [file |-> argv, line |-> Len(typed) + 1] /\ m[2] = Opened(file)
  BY <1>1, <1>3 DEF IsChain, IsSpot, Opened
<1>5. Now' = m
  <2>1. Now' = <<[file |-> argv, line |-> Len(typed) + 1]>> \o <<Opened(file)>>
    BY <1>0, <1>3 DEF Now, Base
  <2> QED
    BY <1>1, <2>1, TwoElements
<1>6. Opens(n, m, file) /\ MaxOpen \in Nat /\ Len(n) <= MaxOpen
  <2>1. MaxOpen \in Nat \ {0}
    BY ConfigAssumption
  <2> QED
    BY <1>2, <1>4, <2>1 DEF Opens
<1>7. (m[1].file = n[1].file /\ IsStack(Files(n[1].file), m) /\ NotAfter(m) = NotAfter(n))'
  <2>1. (Texts => ReadsLeaves /\ OpensFiles)'
    BY ReadsThem, PTL
  <2>2. (/\ Files(n[1].file)[n[Len(n)].file][n[Len(n)].line + 1].name = "config"
         /\ Files(n[1].file)[n[Len(n)].file][n[Len(n)].line + 1].value = file
         /\ file \in DOMAIN Files(n[1].file) /\ file # argv)'
    <3>1. file # argv
      BY <1>0, NotFiles
    <3> QED
      BY <1>0, <1>2, <3>1
  <2> QED
    BY <1>2, <1>6, <2>1, <2>2 DEF OpensFiles
<1>8. NotAfter(n)' = Heard
  BY <1>1, <1>3 DEF NotAfter, Heard
<1>9. Heard' = NotAfter(m)'
  BY <1>5 DEF NotAfter, Heard
<1>10. Nested'
  <2>1. (Now # <<>> => Now[1].file \in Tops /\ IsStack(Files(Now[1].file), Now))'
    BY <1>2, <1>3, <1>4, <1>5, <1>7
  <2>2. (reading \in Seq([file : DOMAIN disk, line : Nat]) /\ Len(reading) <= MaxOpen)'
    <3>1. MaxOpen \in Nat \ {0}
      BY ConfigAssumption
    <3>2. 1 <= MaxOpen
      BY <3>1
    <3> QED
      BY <1>0, <3>2 DEF Opened
  <2> QED
    BY <2>1, <2>2 DEF Nested
<1> QED
  BY <1>7, <1>8, <1>9, <1>10

Words ==
    stage \in {"start", "args"} =>
      (config["action"] = NULL <=> \A n \in DOMAIN typed : typed[n].name # "")

(* Something more is heard, and what is not heard yet is heard next.       *)
HearsOf(q, e) ==
    /\ Grown(Told, Told', q, e) /\ Heeds(e) /\ SetsWell(e.says)
    /\ q[1].file \in Tops
    /\ stage = "using" => (q[1].file = host_config_file /\ config'["action"] = config["action"])

Hears == \E q, e : HearsOf(q, e)

LEMMA OptionIs ==
    ASSUME NEW o \in Options
    PROVE  (o.name = "" => o.value # NULL) /\ (o.name = "save" => IsFile(o.value))
BY ConfigAssumption

LEMMA TextsTyped ==
    ASSUME Texts, UNCHANGED <<disk, found, host_config_file>>,
           NEW S, typed \in Seq(S), NEW o, typed' = Append(typed, o), o.name = "save" => IsFile(o.value)
    PROVE  Texts' /\ \E R : typed' \in Seq(R)
<1>1. typed' \in Seq(S \cup {o}) /\ Len(typed) \in Nat /\ DOMAIN typed = 1 .. Len(typed)
      /\ Len(typed') = Len(typed) + 1
      /\ typed'[Len(typed) + 1] = o /\ \A i \in 1 .. Len(typed) : typed'[i] = typed[i]
  <2>1. typed \in Seq(S \cup {o})
    OBVIOUS
  <2> QED
    BY <2>1
<1>2. DOMAIN typed' = 1 .. Len(typed')
  BY <1>1
<1>3. \A n \in DOMAIN typed' : typed'[n].name = "save" => IsFile(typed'[n].value)
  <2> SUFFICES ASSUME NEW n \in DOMAIN typed', typed'[n].name = "save" PROVE IsFile(typed'[n].value)
    OBVIOUS
  <2>1. n = Len(typed) + 1 \/ n \in DOMAIN typed
    BY <1>1, <1>2
  <2> QED
    BY <1>1, <2>1 DEF Texts, IsText
<1>4. IsText(typed)'
  BY <1>1, <1>2, <1>3 DEF IsText
<1>5. Texts'
  BY <1>4 DEF Texts
<1> QED
  BY <1>1, <1>5

(* parse_argument takes an option: one more place is heard, or none.       *)
LEMMA TypeStep ==
    ASSUME Texts, Phase, Nested, Words, DOMAIN config = Field, NEW S, typed \in Seq(S),
           NEW option \in Options, Type(option), stage' # "exited"
    PROVE  /\ Texts' /\ Phase' /\ Nested' /\ Words' /\ stage = "args" /\ stage' = "args"
           /\ \E R : typed' \in Seq(R)
           /\ UNCHANGED <<disk, found, host_config_file, saved>>
           /\ (Told' = Told /\ UNCHANGED <<config, inputVars>>) \/ Hears
<1> DEFINE name == option.name value == option.value
<1>1. /\ stage = "args" /\ reading = <<>> /\ typed' = Append(typed, option)
      /\ parse_argument(name, value, <<>>) /\ UNCHANGED <<disk, found, host_config_file, saved>>
  BY DEF Type, At
<1>2. host_config_file = Nowhere /\ disk = found
  BY <1>1 DEF Phase
<1>3. (name = "" => value # NULL) /\ (name = "save" => IsFile(value))
  BY OptionIs
<1>4. Texts' /\ \E R : typed' \in Seq(R)
  BY <1>1, <1>3, TextsTyped
<1>5. Tops' = Tops /\ argv \in Tops /\ \A p \in Leaves : Entry(p)' = Entry(p)
  BY <1>1, <1>2, <1>4, TypedMore
<1>6. /\ Len(typed) \in Nat /\ typed'[Len(typed) + 1] = option /\ \A i \in 1 .. Len(typed) : typed'[i] = typed[i]
      /\ DOMAIN typed = 1 .. Len(typed) /\ DOMAIN typed' = 1 .. Len(typed) + 1 /\ typed' # <<>>
  <2>0. Len(typed) \in Nat /\ Len(typed') = Len(typed) + 1
        /\ typed'[Len(typed) + 1] = option /\ \A i \in 1 .. Len(typed) : typed'[i] = typed[i]
    BY <1>1, <1>2, <1>4, TypedMore
  <2>1. DOMAIN typed = 1 .. Len(typed) /\ DOMAIN typed' = 1 .. Len(typed')
    BY <1>4 DEF Texts, IsText
  <2>2. typed' # <<>>
    BY <2>0
  <2> QED
    BY <2>0, <2>1, <2>2
<1>7. ASSUME stage' = "args", reading' = <<>> \/ name = "config" PROVE Phase'
  BY <1>1, <1>2, <1>6, <1>7 DEF Phase
<1>8. ASSUME name # "", config'["action"] = config["action"] PROVE Words'
  <2>1. (\A n \in DOMAIN typed' : typed'[n].name # "") <=> \A n \in DOMAIN typed : typed[n].name # ""
    <3>1. \A n \in DOMAIN typed' : n = Len(typed) + 1 \/ n \in DOMAIN typed
      BY <1>6
    <3>2. \A n \in DOMAIN typed : n \in DOMAIN typed' /\ typed'[n] = typed[n]
      BY <1>6
    <3> QED
      BY <1>6, <1>8, <3>1, <3>2
  <2> QED
    BY <1>1, <1>8, <2>1 DEF Words
<1>9. CASE name = "config"
  <2>1. Include(value, <<>>)
    BY <1>1, <1>9 DEF parse_argument, Simple
  <2>2. value \in DOMAIN disk /\ reading' = <<Opened(value)>> /\ UNCHANGED <<stage, config, inputVars>>
    BY <2>1 DEF Include
  <2>3. Nested' /\ Heard' = Heard
    BY <1>1, <1>2, <1>4, <1>9, <2>2, TypedFile
  <2>4. Told' = Told
    BY <1>5, <2>3 DEF Told, Heard
  <2> QED
    BY <1>1, <1>4, <1>7, <1>8, <1>9, <2>2, <2>3, <2>4
<1>10. CASE name # "config"
  <2>1. reading' = <<>> /\ stage' = "args"
    BY <1>1, <1>10 DEF parse_argument, Simple, Input, Mapping, Word
  <2>2. Nested'
    BY <1>1, <1>2, <1>4, <1>10, <2>1, TypedLeaf
  <2>3. PICK q : /\ q[1].file = argv /\ Last(q) = [file |-> argv, line |-> Len(typed) + 1]
                 /\ Setting(q)' = option
                 /\ Heard' = Heard \cup {q} /\ q \in Leaves' /\ q \notin Heard
                 /\ ~Before(q, q) /\ \A p \in Heard : Before(p, q) /\ ~Before(q, p)
    BY <1>1, <1>2, <1>4, <1>10, <2>1, TypedLeaf
  <2>4. PICK e : e = Entry(q)'
    OBVIOUS
  <2>5. Grown(Told, Told', q, e)
    <3>1. Told' = [p \in Heard \cup {q} |-> IF p = q THEN e ELSE Told[p]]
      <4>1. \A p \in Heard \cup {q} : Entry(p)' = IF p = q THEN e ELSE Told[p]
        BY <1>5, <2>3, <2>4 DEF Told, Heard
      <4>2. Told' = [p \in Heard' |-> Entry(p)']
        BY DEF Told
      <4> QED
        BY <2>3, <4>1, <4>2
    <3> QED
      BY <2>3, <3>1 DEF Grown, Told
  <2>6. e.name = name /\ e.value = value /\ e.path = get_path(disk, value) /\ e.says = Says(q)'
    <3>1. e.path = get_path(Files(q[1].file)', value)
      BY <2>3, <2>4 DEF Entry
    <3>2. get_path(Files(argv)', value) = get_path(disk, value)
      <4>1. (Texts => (disk = found => get_path(Files(argv), value) = get_path(disk, value)))'
        <5>1. Texts => (disk = found => get_path(Files(argv), value) = get_path(disk, value))
          BY FilesPath
        <5>2. DOMAIN Files(argv)' = DOMAIN found \cup {argv}
          BY <1>1 DEF Files, argv
        <5>3. \A n \in DOMAIN Place : <<Place[n], value>> # argv
          <6>1. argv[1] = "argv" /\ \A n \in DOMAIN Place : <<Place[n], value>>[1] # "argv"
            BY DEF argv, Place
          <6> QED
            BY <6>1
        <5>4. {n \in DOMAIN Place : <<Place[n], value>> \in DOMAIN Files(argv)'} =
              {n \in DOMAIN Place : <<Place[n], value>> \in DOMAIN disk'}
          BY <1>1, <1>2, <5>2, <5>3
        <5> QED
          BY <1>1, <5>4 DEF get_path
      <4> QED
        BY <1>1, <1>2, <1>4, <4>1
    <3> QED
      BY <2>3, <2>4, <3>1, <3>2 DEF Entry
  <2>7. q[1].file \in Tops
    BY <1>5, <2>3
  <2>8. e.says = IF name = ""
                 THEN [f \in {x \in {"address"} : \E n \in 1 .. (Len(typed) + 1) - 1 : typed'[n].name = ""} |-> value]
                 ELSE Sets(name, value)
    <3>1. Last(q).file = argv /\ Last(q).line = Len(typed) + 1
      BY <2>3
    <3>2. Says(q)' = IF Setting(q)'.name = ""
                     THEN [f \in {x \in {"address"} : \E n \in 1 .. Last(q).line - 1 : typed'[n].name = ""} |->
                             Setting(q)'.value]
                     ELSE Sets(Setting(q)'.name, Setting(q)'.value)
      BY <3>1 DEF Says
    <3> QED
      BY <2>3, <2>6, <3>1, <3>2
  <2>9. CASE name # ""
    <3>1. e.says = Sets(name, value)
      BY <2>8, <2>9
    <3>2. Heeds(e) /\ config'["action"] = config["action"]
      <4> HIDE DEF name, value
      <4> QED
        BY <1>1, <1>3, <1>10, <2>1, <2>6, <2>9, <3>1, ArgumentHeeds
    <3>3. SetsWell(e.says)
      <4> HIDE DEF name, value
      <4>1. SetsWell(Sets(name, value))
        BY <1>3, SetsAre
      <4> QED
        BY <3>1, <4>1
    <3>4. Words'
      BY <1>8, <2>9, <3>2
    <3>5. Hears
      BY <1>1, <2>5, <2>7, <3>2, <3>3 DEF Hears, HearsOf
    <3> QED
      BY <1>1, <1>4, <1>7, <2>1, <2>2, <3>4, <3>5
  <2>10. CASE name = ""
    <3>1. (\E n \in 1 .. (Len(typed) + 1) - 1 : typed'[n].name = "") <=> config["action"] # NULL
      <4>1. (\E n \in 1 .. (Len(typed) + 1) - 1 : typed'[n].name = "") <=>
            \E n \in DOMAIN typed : typed[n].name = ""
        <5>1. 1 .. (Len(typed) + 1) - 1 = DOMAIN typed
          BY <1>6
        <5> QED
          BY <1>6, <5>1
      <4> QED
        BY <1>1, <4>1 DEF Words
    <3>2. e.says = [f \in {x \in {"address"} : config["action"] # NULL} |-> value]
      BY <2>8, <2>10, <3>1
    <3>3. Heeds(e) /\ config'["action"] = IF config["action"] = NULL THEN value ELSE config["action"]
      BY <1>1, <2>1, <2>6, <2>10, <3>2, WordHeeds
    <3>4. SetsWell(e.says)
      BY <3>2 DEF SetsWell
    <3>5. Words'
      <4>1. config'["action"] # NULL
        BY <1>3, <2>10, <3>3
      <4>2. typed'[Len(typed) + 1].name = "" /\ Len(typed) + 1 \in DOMAIN typed'
        <5>1. Len(typed) + 1 \in 1 .. Len(typed) + 1
          BY <1>6
        <5> QED
          BY <1>6, <2>10, <5>1
      <4> QED
        BY <4>1, <4>2 DEF Words
    <3>6. Hears
      BY <1>1, <2>5, <2>7, <3>3, <3>4 DEF Hears, HearsOf
    <3> QED
      BY <1>1, <1>4, <1>7, <2>1, <2>2, <3>5, <3>6
  <2> QED
    BY <2>9, <2>10
<1> QED
  BY <1>9, <1>10

----------------------------------------------------------------------------
(* How the settings, the inputs and the mapping go with what has been heard. *)

Common == Field \ {"action", "address", "bitrate", "keydir", "forcehw", "forcehevc"}
Derived == stage \in {"main", "host", "using"}
EarlyTold == [p \in {q \in DOMAIN Told : q[1].file # host_config_file} |-> Told[p]]
HostSays(T, f) == \E p \in DOMAIN T : p[1].file = host_config_file /\ f \in DOMAIN T[p].says

FieldsTold ==
    /\ \A f \in Common : Counts(Told, f, config[f])
    /\ ~Derived => Counts(Told, "keydir", config["keydir"])

RateFrom(b, h, r) == IF b = -1 THEN Bitrate(h, r) ELSE b
RateTold ==
    /\ ~Derived => Counts(Told, "bitrate", config["bitrate"])
    /\ Derived => \E b, h, r :
         /\ Counts(EarlyTold, "bitrate", b) /\ Counts(EarlyTold, "height", h) /\ Counts(EarlyTold, "fps", r)
         /\ HostSays(Told, "bitrate") => Counts(Told, "bitrate", config["bitrate"])
         /\ ~HostSays(Told, "bitrate") => config["bitrate"] = RateFrom(b, h, r)

Addressed(v, w) ==
    /\ Counts(EarlyTold, "address", v) /\ Counts(Told, "address", w) /\ w \in {NULL, config["address"]}
    /\ config["action"] # "map" =>
         \E a \in Address \cup {v} : host_config_file = <<"hosts", a>> /\ v \in {NULL, a}

AddressTold ==
    /\ stage \notin {"host", "using"} => Counts(Told, "address", config["address"])
    /\ stage = "host" =>
         \E v : Counts(Told, "address", v) /\ v \in {NULL, config["address"]} /\ config["address"] \in Address \cup {v}
    /\ stage = "using" => \E v, w : Addressed(v, w)

(* The platform is the one that was told of before the host's file; with   *)
(* it comes HEVC, whatever was told of that.                               *)
HevcFrom(v, n) ==
    /\ Counts(Told, "forcehevc", v) /\ config["forcehevc"] = (v \/ platform_supports_hevc(system))
    /\ Counts(EarlyTold, "platform", n) /\ system \in platform_check(n) \ {NULL}

SystemTold ==
    /\ stage \notin {"host", "using"} => Counts(Told, "forcehevc", config["forcehevc"])
    /\ stage \in {"host", "using"} => \E v, n : HevcFrom(v, n)

DefaultPath == get_path(found, "default.map")
InputsTold ==
    /\ \E at : OpenedAt(DefaultPath, Told, inputs, at)
    /\ PathIs(DefaultPath, Told, Called(Told, "mapping"), mapping)
    /\ inputAdded \in BOOLEAN /\ mapped \in BOOLEAN /\ (inputAdded <=> Called(Told, "input") # {})

Shape ==
    /\ DOMAIN config = Field /\ config["sops"] \in BOOLEAN /\ config["localaudio"] \in BOOLEAN
    /\ config["save"] = NULL \/ IsFile(config["save"])
    /\ stage \in {"save", "fclose"} => config["save"] # NULL
    /\ \E S : inputs \in Seq(S)
    /\ \E S : typed \in Seq(S)

(* The files that nothing names are files.                                 *)
LEMMA TopsAreFiles == Texts => \A top \in Tops : top # Nowhere
<1>1. argv # Nowhere
  BY DEF argv, Nowhere
<1>2. Texts => get_path(found, "moonlight.conf") \in {NULL} \cup DOMAIN found
  BY GetPath
<1> QED
  BY <1>1, <1>2, NotFiles DEF Tops

LEMMA ToldIs == Told = [p \in DOMAIN Told |-> Told[p]] /\ DOMAIN Told = Heard /\ Heard \subseteq Leaves
BY DEF Told, Heard

(* Before the host's file is read, all that is told is told early.         *)
LEMMA EarlyAll ==
    Texts /\ host_config_file = Nowhere => EarlyTold = Told /\ \A f : ~HostSays(Told, f)
<1> SUFFICES ASSUME Texts, host_config_file = Nowhere
             PROVE  EarlyTold = Told /\ \A f : ~HostSays(Told, f)
  OBVIOUS
<1>1. \A p \in DOMAIN Told : p[1].file # host_config_file
  BY ToldIs, LeafIs, TopsAreFiles
<1>2. {q \in DOMAIN Told : q[1].file # host_config_file} = DOMAIN Told
  BY <1>1
<1> QED
  BY <1>1, <1>2, ToldIs DEF EarlyTold, HostSays

LEMMA EarlyAllNext ==
    (Texts /\ host_config_file = Nowhere => EarlyTold = Told /\ \A f : ~HostSays(Told, f))'
BY EarlyAll, PTL

LEMMA CommonIs ==
    /\ \A f \in Common : f \in Field \ {"action"}
    /\ {"bitrate", "address", "save", "sops", "localaudio", "forcehevc", "keydir"} \subseteq Field \ {"action"}
    /\ {"height", "fps", "platform"} \subseteq Common
BY FieldIs DEF Common

(* What is told grows: the counts of the early ones stay in the host's file. *)
LEMMA EarlyGrown ==
    ASSUME NEW q, NEW e, Grown(Told, Told', q, e), q[1].file = host_config_file, UNCHANGED host_config_file
    PROVE  EarlyTold' = EarlyTold /\ \A f : HostSays(Told, f)' <=> HostSays(Told, f) \/ f \in DOMAIN e.says
<1>1. DOMAIN Told' = DOMAIN Told \cup {q} /\ Told'[q] = e /\ q \notin DOMAIN Told
      /\ \A p \in DOMAIN Told : Told'[p] = Told[p]
  BY DEF Grown
<1>2. {x \in DOMAIN Told' : x[1].file # host_config_file'} = {x \in DOMAIN Told : x[1].file # host_config_file}
  BY <1>1
<1>3. EarlyTold' = EarlyTold
  BY <1>1, <1>2 DEF EarlyTold
<1>4. \A f : HostSays(Told, f)' <=> HostSays(Told, f) \/ f \in DOMAIN e.says
  BY <1>1 DEF HostSays
<1> QED
  BY <1>3, <1>4

(* Each part of the state goes with what has been heard when one more      *)
(* place is.                                                               *)
LEMMA FieldsHear ==
    ASSUME Hears, FieldsTold, UNCHANGED stage
    PROVE  FieldsTold'
<1>0. PICK q, e : HearsOf(q, e)
  BY DEF Hears
<1>1. Grown(Told, Told', q, e) /\ Heeds(e)
  BY <1>0 DEF HearsOf
<1>2. ASSUME NEW f \in Common \cup {"keydir"}, Counts(Told, f, config[f]) PROVE Counts(Told', f, config'[f])
  <2>1. config'[f] = IF f \in DOMAIN e.says THEN e.says[f] ELSE config[f]
    BY <1>1, CommonIs DEF Heeds
  <2>2. Counts(Told', f, IF f \in DOMAIN e.says THEN e.says[f] ELSE config[f])
    BY <1>1, <1>2, CountsGrown
  <2> QED
    BY <2>1, <2>2
<1>3. Derived' <=> Derived
  BY DEF Derived
<1> QED
  BY <1>2, <1>3 DEF FieldsTold

LEMMA RateHear ==
    ASSUME Texts, Hears, RateTold, Derived => stage = "using", UNCHANGED <<stage, host_config_file>>
    PROVE  RateTold'
<1>0. PICK q, e : HearsOf(q, e)
  BY DEF Hears
<1>1. Grown(Told, Told', q, e) /\ Heeds(e) /\ (stage = "using" => q[1].file = host_config_file)
  BY <1>0 DEF HearsOf
<1>2. config'["bitrate"] = IF "bitrate" \in DOMAIN e.says THEN e.says["bitrate"] ELSE config["bitrate"]
  BY <1>1, CommonIs DEF Heeds
<1>3. \A v : Counts(Told, "bitrate", v)
             => Counts(Told', "bitrate", IF "bitrate" \in DOMAIN e.says THEN e.says["bitrate"] ELSE v)
  BY <1>1, CountsGrown
<1>4. CASE ~Derived
  BY <1>2, <1>3, <1>4 DEF RateTold, Derived
<1>5. CASE Derived
  <2>1. EarlyTold' = EarlyTold /\ \A f : HostSays(Told, f)' <=> HostSays(Told, f) \/ f \in DOMAIN e.says
    BY <1>1, <1>5, EarlyGrown
  <2>2. PICK b, h, r :
         /\ Counts(EarlyTold, "bitrate", b) /\ Counts(EarlyTold, "height", h) /\ Counts(EarlyTold, "fps", r)
         /\ HostSays(Told, "bitrate") => Counts(Told, "bitrate", config["bitrate"])
         /\ ~HostSays(Told, "bitrate") => config["bitrate"] = RateFrom(b, h, r)
    BY <1>5 DEF RateTold
  <2>3. HostSays(Told, "bitrate")' => Counts(Told', "bitrate", config'["bitrate"])
    <3>1. CASE "bitrate" \in DOMAIN e.says
      BY <1>1, <1>2, <3>1, CountsSaid
    <3>2. CASE "bitrate" \notin DOMAIN e.says
      BY <1>2, <1>3, <2>1, <2>2, <3>2
    <3> QED
      BY <3>1, <3>2
  <2>4. ~HostSays(Told, "bitrate")' => config'["bitrate"] = RateFrom(b, h, r)
    BY <1>2, <2>1, <2>2
  <2>5. Derived'
    BY <1>5 DEF Derived
  <2> QED
    BY <2>1, <2>2, <2>3, <2>4, <2>5 DEF RateTold
<1> QED
  BY <1>4, <1>5

----------------------------------------------------------------------------
LEMMA AddressHear ==
    ASSUME Texts, Hears, AddressTold, Derived => stage = "using", UNCHANGED <<stage, host_config_file>>
    PROVE  AddressTold'
<1>0. PICK q, e : HearsOf(q, e)
  BY DEF Hears
<1>1. Grown(Told, Told', q, e) /\ Heeds(e)
  BY <1>0 DEF HearsOf
<1>2. config'["address"] = IF "address" \in DOMAIN e.says THEN e.says["address"] ELSE config["address"]
  BY <1>1, CommonIs DEF Heeds
<1>3. \A v : Counts(Told, "address", v)
             => Counts(Told', "address", IF "address" \in DOMAIN e.says THEN e.says["address"] ELSE v)
  BY <1>1, CountsGrown
<1>4. CASE stage # "using"
  <2>1. stage \notin {"host", "using"} /\ stage' = stage
    BY <1>4 DEF Derived
  <2>2. Counts(Told', "address", config'["address"])
    BY <1>2, <1>3, <2>1 DEF AddressTold
  <2> QED
    BY <2>1, <2>2 DEF AddressTold
<1>5. CASE stage = "using"
  <2>1. q[1].file = host_config_file /\ config'["action"] = config["action"]
    BY <1>0, <1>5 DEF HearsOf
  <2>2. EarlyTold' = EarlyTold
    BY <1>1, <2>1, EarlyGrown
  <2>3. PICK v, w : Addressed(v, w)
    BY <1>5 DEF AddressTold
  <2>4. PICK u : u = IF "address" \in DOMAIN e.says THEN e.says["address"] ELSE w
    OBVIOUS
  <2>5. Counts(Told', "address", u)
    BY <1>3, <2>3, <2>4 DEF Addressed
  <2>6. u \in {NULL, config'["address"]}
    BY <1>2, <2>3, <2>4 DEF Addressed
  <2>7. Addressed(v, u)'
    BY <2>1, <2>2, <2>3, <2>5, <2>6 DEF Addressed
  <2> QED
    BY <1>5, <2>7 DEF AddressTold
<1> QED
  BY <1>4, <1>5

LEMMA SystemHear ==
    ASSUME Texts, Hears, SystemTold, Derived => stage = "using",
           UNCHANGED <<stage, host_config_file, system>>
    PROVE  SystemTold'
<1>0. PICK q, e : HearsOf(q, e)
  BY DEF Hears
<1>1. Grown(Told, Told', q, e) /\ Heeds(e) /\ ("forcehevc" \in DOMAIN e.says => e.says["forcehevc"] = TRUE)
  BY <1>0 DEF HearsOf, SetsWell
<1>2. config'["forcehevc"] = IF "forcehevc" \in DOMAIN e.says THEN e.says["forcehevc"] ELSE config["forcehevc"]
  BY <1>1, CommonIs DEF Heeds
<1>3. \A v : Counts(Told, "forcehevc", v)
             => Counts(Told', "forcehevc", IF "forcehevc" \in DOMAIN e.says THEN e.says["forcehevc"] ELSE v)
  BY <1>1, CountsGrown
<1>4. CASE stage # "using"
  <2>1. stage \notin {"host", "using"} /\ stage' = stage
    BY <1>4 DEF Derived
  <2>2. Counts(Told', "forcehevc", config'["forcehevc"])
    BY <1>2, <1>3, <2>1 DEF SystemTold
  <2> QED
    BY <2>1, <2>2 DEF SystemTold
<1>5. CASE stage = "using"
  <2>1. EarlyTold' = EarlyTold
    <3>1. q[1].file = host_config_file
      BY <1>0, <1>5 DEF HearsOf
    <3> QED
      BY <1>1, <3>1, EarlyGrown
  <2>2. PICK v, n : HevcFrom(v, n)
    BY <1>5 DEF SystemTold
  <2>3. PICK u : u = IF "forcehevc" \in DOMAIN e.says THEN e.says["forcehevc"] ELSE v
    OBVIOUS
  <2>4. Counts(Told', "forcehevc", u)
    BY <1>3, <2>2, <2>3 DEF HevcFrom
  <2>5. config'["forcehevc"] = (u \/ platform_supports_hevc(system'))
    <3>1. CASE "forcehevc" \in DOMAIN e.says
      BY <1>1, <1>2, <2>3, <3>1
    <3>2. CASE "forcehevc" \notin DOMAIN e.says
      BY <1>2, <2>2, <2>3, <3>2 DEF HevcFrom
    <3> QED
      BY <3>1, <3>2
  <2>6. HevcFrom(u, n)'
    BY <2>1, <2>2, <2>4, <2>5 DEF HevcFrom
  <2> QED
    BY <1>5, <2>6 DEF SystemTold
<1> QED
  BY <1>4, <1>5

LEMMA InputsHear ==
    ASSUME Hears, InputsTold,
           UNCHANGED <<stage, host_config_file, found>>, NEW S, inputs \in Seq(S)
    PROVE  InputsTold' /\ \E R : inputs' \in Seq(R)
<1>0. PICK q, e : HearsOf(q, e)
  BY DEF Hears
<1>1. Grown(Told, Told', q, e) /\ Heeds(e)
  BY <1>0 DEF HearsOf
<1>2. PICK at : OpenedAt(DefaultPath, Told, inputs, at)
  BY DEF InputsTold
<1>3. DefaultPath' = DefaultPath
  BY DEF DefaultPath
<1>4. \A name : Called(Told', name) = IF e.name = name THEN Called(Told, name) \cup {q} ELSE Called(Told, name)
  BY <1>1, CalledGrown
<1>5. /\ Told'[q] = e /\ q \in DOMAIN Told' /\ ~Before(q, q)
      /\ \A p \in DOMAIN Told : Before(p, q) /\ ~Before(q, p)
  BY <1>1 DEF Grown
<1>6. PathIs(DefaultPath, Told, Called(Told, "mapping"), mapping)
  BY DEF InputsTold
<1>7. \A p : PathIs(DefaultPath, Told, Called(Told, "mapping"), p)
             => PathIs(DefaultPath, Told', Called(Told, "mapping"), p)
  <2>1. Called(Told, "mapping") \in SUBSET DOMAIN Told
    BY DEF Called
  <2> QED
    BY <1>1, <2>1, PathGrown
<1>9. CASE e.name = "input"
  <2>1. /\ inputs' = Append(inputs, [path |-> e.value, mapping |-> mapping])
        /\ inputAdded' = TRUE /\ mapped' = TRUE /\ UNCHANGED mapping
    BY <1>1, <1>9 DEF Heeds
  <2>2. \E to : OpenedAt(DefaultPath, Told', inputs', to)
    <3>1. PICK to : OpenedAt(DefaultPath, Told', Append(inputs, [path |-> e.value, mapping |-> mapping]), to)
      BY <1>1, <1>2, <1>6, <1>9, InputComes
    <3> QED
      BY <2>1, <3>1
  <2>3. PathIs(DefaultPath, Told', Called(Told', "mapping"), mapping')
    BY <1>4, <1>6, <1>7, <1>9, <2>1
  <2>4. q \in Called(Told', "input")
    BY <1>4, <1>9
  <2>6. inputs' \in Seq(S \cup {[path |-> e.value, mapping |-> mapping]})
    <3>1. inputs \in Seq(S \cup {[path |-> e.value, mapping |-> mapping]})
      OBVIOUS
    <3> QED
      BY <2>1, <3>1
  <2> QED
    BY <1>3, <2>1, <2>2, <2>3, <2>4, <2>6 DEF InputsTold
<1>10. CASE e.name # "input"
  <2>1. \E to : OpenedAt(DefaultPath, Told', inputs, to)
    BY <1>1, <1>2, <1>10, OtherComes
  <2>2. inputs' = inputs /\ inputAdded' = inputAdded /\ Called(Told', "input") = Called(Told, "input")
    BY <1>1, <1>4, <1>10 DEF Heeds, inputVars
  <2>3. PathIs(DefaultPath, Told', Called(Told', "mapping"), mapping') /\ mapped' \in BOOLEAN
    <3>1. CASE e.name = "mapping"
      <4>1. mapping' = e.path /\ mapped' = FALSE
        BY <1>1, <3>1 DEF Heeds
      <4>2. Newest(Called(Told', "mapping")) = {q}
        <5>1. Called(Told', "mapping") = Called(Told, "mapping") \cup {q}
          BY <1>4, <3>1
        <5>2. \A p \in Called(Told, "mapping") : Before(p, q) /\ ~Before(q, p)
          BY <1>5 DEF Called
        <5> QED
          BY <1>5, <5>1, <5>2 DEF Newest
      <4> QED
        BY <1>5, <4>1, <4>2 DEF PathIs
    <3>2. CASE e.name # "mapping"
      <4>1. mapping' = mapping /\ mapped' = mapped /\ Called(Told', "mapping") = Called(Told, "mapping")
        BY <1>1, <1>4, <1>10, <3>2 DEF Heeds, inputVars
      <4> QED
        BY <1>6, <1>7, <4>1 DEF InputsTold
    <3> QED
      BY <3>1, <3>2
  <2> QED
    BY <1>3, <2>1, <2>2, <2>3 DEF InputsTold
<1> QED
  BY <1>9, <1>10

Follows == Shape /\ FieldsTold /\ RateTold /\ AddressTold /\ SystemTold /\ InputsTold

LEMMA AllHear ==
    ASSUME Texts, Hears, Follows, stage \in {"args", "parsed", "using"},
           UNCHANGED <<stage, host_config_file, system, found>>, NEW S, typed' \in Seq(S)
    PROVE  Follows'
<1>1. Derived => stage = "using"
  BY DEF Derived
<1>2. FieldsTold' /\ RateTold' /\ AddressTold' /\ SystemTold'
  BY <1>1, FieldsHear, RateHear, AddressHear, SystemHear DEF Follows
<1>3. InputsTold' /\ \E R : inputs' \in Seq(R)
  BY InputsHear DEF Follows, Shape
<1>4. PICK q, e : HearsOf(q, e)
  BY DEF Hears
<1>5. Heeds(e) /\ SetsWell(e.says)
  BY <1>4 DEF HearsOf
<1>6. /\ DOMAIN config' = Field /\ config'["sops"] \in BOOLEAN /\ config'["localaudio"] \in BOOLEAN
      /\ (config'["save"] = NULL \/ IsFile(config'["save"]))
  BY <1>5, CommonIs DEF Heeds, SetsWell, Follows, Shape
<1>7. Shape'
  BY <1>3, <1>6 DEF Shape
<1> QED
  BY <1>2, <1>3, <1>7 DEF Follows

(* Nothing is heard, and main has not changed anything.                    *)
LEMMA AllStay ==
    ASSUME Told' = Told, Follows, UNCHANGED <<inputVars, host_config_file, system, found>>,
           DOMAIN config' = Field, \A f \in Field \ {"action"} : config'[f] = config[f],
           config'["action"] = config["action"] \/ stage' # "using",
           NEW S, typed' \in Seq(S),
           stage' = stage \/ {stage, stage'} \cap {"main", "host", "using"} = {},
           stage' \in {"save", "fclose"} => config["save"] # NULL
    PROVE  Follows'
<1>1. EarlyTold' = EarlyTold /\ \A f : HostSays(Told, f)' <=> HostSays(Told, f)
  BY DEF EarlyTold, HostSays
<1>2. (Derived' <=> Derived) /\ (stage' \in {"host", "using"} \/ stage \in {"host", "using"} => stage' = stage)
  BY DEF Derived
<1>3. FieldsTold'
  <2>1. \A f \in Common \cup {"keydir"} : config'[f] = config[f]
    BY CommonIs
  <2> QED
    BY <1>2, <2>1 DEF FieldsTold, Follows
<1>4. RateTold'
  BY <1>1, <1>2, CommonIs DEF RateTold, Follows
<1>5. AddressTold'
  <2>0. config'["address"] = config["address"]
    BY CommonIs
  <2>1. stage' = "using" => \A v, w : Addressed(v, w)' <=> Addressed(v, w)
    BY <1>1, <2>0 DEF Addressed
  <2> QED
    BY <1>2, <2>0, <2>1 DEF AddressTold, Follows
<1>6. InputsTold'
  BY DEF InputsTold, Follows, DefaultPath, inputVars
<1>8. SystemTold'
  <2>0. config'["forcehevc"] = config["forcehevc"]
    BY CommonIs
  <2>1. \A v, n : HevcFrom(v, n)' <=> HevcFrom(v, n)
    BY <1>1, <2>0 DEF HevcFrom
  <2> QED
    BY <1>2, <2>0, <2>1 DEF SystemTold, Follows
<1>7. Shape'
  <2>1. \A f \in {"save", "sops", "localaudio"} : config'[f] = config[f]
    BY CommonIs
  <2> QED
    BY <2>1 DEF Shape, Follows, inputVars
<1> QED
  BY <1>3, <1>4, <1>5, <1>6, <1>7, <1>8 DEF Follows

----------------------------------------------------------------------------
(* The other steps that read.                                              *)

(* With nothing typed the only places are those of the file that is always *)
(* read.                                                                   *)
LEMMA NoLeafTyped ==
    ASSUME Texts, typed = <<>>, host_config_file = Nowhere, NEW p \in Leaves
    PROVE  /\ p[1].file = get_path(found, "moonlight.conf") /\ p[1].file # NULL
           /\ IsChain(p) /\ Len(p) \in Nat \ {0} /\ p[1].line \in Nat \ {0}
<1>1. p[1].file \in Tops /\ IsPlace(Files(p[1].file), p)
  BY LeafIs
<1>2. IsChain(p) /\ Len(p) \in Nat \ {0} /\ p[1].file \in DOMAIN Files(p[1].file)
      /\ p[1].line \in DOMAIN Files(p[1].file)[p[1].file]
  BY <1>1 DEF IsPlace, IsChain
<1>3. p[1].file # argv
  <2>0. argv[1] # "hosts"
    BY DEF argv
  <2>1. Files(argv)[argv] = <<>> /\ DOMAIN <<>> = {}
    BY <2>0 DEF Files
  <2> QED
    BY <1>2, <2>1
<1>4. p[1].line \in Nat \ {0}
  <2>1. IsText(Files(p[1].file)[p[1].file])
    BY <1>2, FilesAreTexts
  <2> QED
    BY <1>2, <2>1 DEF IsText
<1> QED
  BY <1>1, <1>2, <1>3, <1>4, NotFiles DEF Tops

LEMMA TextsStay ==
    ASSUME Texts, UNCHANGED <<disk, found, typed>>,
           UNCHANGED host_config_file \/ \E a : host_config_file' = <<"hosts", a>>
    PROVE  Texts'
BY DEF Texts

TopsRead == \A top \in Tops : top \in DOMAIN Files(top) /\ Len(Files(top)[top]) \in Nat
LEMMA TopsReadIs == Texts => TopsRead
BY TopsAre, FilesAreTexts DEF TopsRead, IsText

LEMMA TopsReadNext == (Texts => TopsRead)'
BY TopsReadIs, PTL

(* The file that is always read is opened, if there is one: nothing has    *)
(* been heard yet.                                                         *)
LEMMA BaseStep ==
    ASSUME Texts, Phase, Nested, Words, Follows, BaseFile
    PROVE  Texts' /\ Phase' /\ Nested' /\ Words' /\ Follows'
<1>0. PICK file : file = get_path(found, "moonlight.conf")
  OBVIOUS
<1>1. /\ stage = "start" /\ stage' = "args" /\ typed = <<>> /\ reading = <<>> /\ host_config_file = Nowhere
      /\ disk = found /\ UNCHANGED <<config, inputVars, host_config_file, system, disk, saved, typed, found>>
      /\ reading' = IF file = NULL THEN <<>> ELSE <<Opened(file)>>
  BY <1>0 DEF BaseFile, At, Keeps, Phase
<1>2. Texts' /\ Tops' = Tops /\ Leaves' = Leaves /\ \A p \in Leaves : Entry(p)' = Entry(p)
  BY <1>1, TextsStay, Unmoved
<1>3. file # NULL => file \in DOMAIN disk /\ file \in Tops /\ file # argv
  BY <1>0, <1>1, GetPath, NotFiles DEF Tops
<1>4. Now' = reading'
  <2>1. Base' = <<>>
    BY <1>1 DEF Base
  <2> QED
    BY <1>1, <2>1 DEF Now
<1>5. Heard' = {}
  <2> SUFFICES ASSUME NEW p \in Leaves PROVE Before(Now', p)
    BY <1>1, <1>2 DEF Heard
  <2>1. p[1].file = file /\ file # NULL /\ IsChain(p) /\ Len(p) \in Nat \ {0} /\ p[1].line \in Nat \ {0}
    BY <1>0, <1>1, NoLeafTyped
  <2>2. Now' = <<Opened(file)>>
    BY <1>1, <1>4, <2>1
  <2>3. 1 \in DOMAIN p \cap DOMAIN Now' /\ Earlier(Now'[1], p[1])
    BY <2>1, <2>2 DEF IsChain, Earlier, Opened
  <2> QED
    BY <2>3 DEF Before
<1>6. Told' = Told
  BY <1>1, <1>5 DEF Told, Heard
<1>7. Nested'
  <2>1. MaxOpen \in Nat \ {0}
    BY ConfigAssumption
  <2>2. CASE file = NULL
    <3>1. reading' = <<>> /\ Now' = <<>>
      BY <1>1, <1>4, <2>2
    <3> QED
      BY <2>1, <3>1 DEF Nested
  <2>3. CASE file # NULL
    <3>1. reading' = <<Opened(file)>> /\ Now' = <<Opened(file)>> /\ file \in DOMAIN disk
      BY <1>1, <1>3, <1>4, <2>3
    <3>0. Opened(file) \in [file : DOMAIN disk', line : Nat] /\ Opened(file) = [file |-> file, line |-> 0]
      BY <1>1, <3>1 DEF Opened
    <3>2. /\ reading' \in Seq([file : DOMAIN disk', line : Nat]) /\ Len(reading') = 1
          /\ Len(Now') = 1 /\ Now'[1] = [file |-> file, line |-> 0]
      BY <3>0, <3>1
    <3>3. IsChain(Now')
      BY <3>1, <3>2 DEF IsChain, IsSpot
    <3>4. TopsRead'
      BY <1>2, TopsReadNext
    <3>5. file \in DOMAIN Files(file)' /\ Len(Files(file)'[file]) \in Nat
      BY <1>2, <1>3, <2>3, <3>4 DEF TopsRead
    <3>6. IsStack(Files(file)', Now')
      BY <2>1, <3>2, <3>3, <3>4, <3>5 DEF IsStack
    <3> QED
      BY <1>2, <1>3, <2>1, <2>3, <3>2, <3>6 DEF Nested
  <2> QED
    BY <2>2, <2>3
<1>8. Phase'
  BY <1>0, <1>1 DEF Phase, Opened
<1>9. Words'
  BY <1>1 DEF Words
<1>10. Follows'
  <2>1. PICK S : typed' \in Seq(S)
    BY <1>1 DEF Follows, Shape
  <2> QED
    BY <1>1, <1>6, <2>1, AllStay DEF Follows, Shape
<1> QED
  BY <1>2, <1>7, <1>8, <1>9, <1>10

(* The only argument is a file, which is opened.                           *)
LEMMA OnlyAFileStep ==
    ASSUME Texts, Phase, Nested, Words, Follows, OnlyAFile
    PROVE  Texts' /\ Phase' /\ Nested' /\ Words' /\ Follows'
<1>1. /\ stage = "args" /\ stage' = "parsed" /\ typed = <<>> /\ reading = <<>> /\ host_config_file = Nowhere
      /\ disk = found /\ UNCHANGED <<host_config_file, system, disk, saved, found, inputVars>>
      /\ config' = [config EXCEPT !.action = "stream"]
  BY DEF OnlyAFile, At, Phase
<1>2. PICK o : /\ o.name = "config" /\ o.value \in DOMAIN disk /\ reading' = <<Opened(o.value)>>
               /\ typed' = Append(typed, o)
  <2>1. PICK file \in DOMAIN disk : /\ reading' = <<Opened(file)>>
                                    /\ typed' = <<[name |-> "config", value |-> file]>>
    BY DEF OnlyAFile
  <2>2. typed' = Append(typed, [name |-> "config", value |-> file])
    BY <1>1, <2>1
  <2> QED
    BY <2>1, <2>2
<1>3. typed \in Seq({})
  BY <1>1
<1>4. Texts' /\ \E R : typed' \in Seq(R)
  BY <1>1, <1>2, <1>3, TextsTyped
<1>5. Nested' /\ Heard' = Heard
  BY <1>1, <1>2, <1>3, <1>4, TypedFile
<1>6. /\ \A p \in Leaves : Entry(p)' = Entry(p)
      /\ Len(typed) \in Nat /\ Len(typed') = Len(typed) + 1
  BY <1>1, <1>2, <1>3, <1>4, TypedMore
<1>7. Told' = Told
  BY <1>5, <1>6 DEF Told, Heard
<1>8. Phase'
  BY <1>1, <1>6 DEF Phase
<1>9. Words'
  BY <1>1 DEF Words
<1>10. Follows'
  <2>1. PICK R : typed' \in Seq(R)
    BY <1>4
  <2>2. DOMAIN config = Field
    BY DEF Follows, Shape
  <2>3. DOMAIN config' = Field /\ \A f \in Field \ {"action"} : config'[f] = config[f]
    BY <1>1, <2>2
  <2> QED
    BY <1>1, <1>7, <2>1, <2>3, AllStay
<1> QED
  BY <1>4, <1>5, <1>8, <1>9, <1>10

----------------------------------------------------------------------------
(* The lines that are saved.                                               *)

(* SetToSeq lists a finite set.                                            *)
LEMMA SequenceOf ==
    ASSUME NEW S, IsFiniteSet(S)
    PROVE  /\ Cardinality(S) \in Nat /\ SetToSeq(S) \in [1 .. Cardinality(S) -> S]
           /\ \A x \in S : \E i \in 1 .. Cardinality(S) : SetToSeq(S)[i] = x
<1> DEFINE n == Cardinality(S) q == SetToSeq(S)
<1>1. n \in Nat /\ ExistsBijection(1 .. n, S)
  BY FS_CardinalityType
<1>2. \E f \in [1 .. n -> S] : IsInjective(f)
  <2>1. PICK f : f \in Bijection(1 .. n, S)
    BY <1>1 DEF ExistsBijection
  <2> QED
    BY <2>1 DEF Bijection, Injection
<1>3. q \in [1 .. n -> S] /\ IsInjective(q)
  BY <1>2 DEF SetToSeq
<1> DEFINE T == {q[i] : i \in 1 .. n}
<1> HIDE DEF n, q
<1>4. q \in Bijection(1 .. n, T)
  BY <1>3 DEF Bijection, Injection, Surjection
<1>5. IsFiniteSet(T) /\ Cardinality(T) = n
  <2>1. ExistsBijection(1 .. n, T)
    BY <1>4 DEF ExistsBijection
  <2>2. IsFiniteSet(T)
    BY <1>1, <2>1, FS_NatBijection
  <2>3. Cardinality(T) = n
    <3> HIDE DEF T
    <3> QED
      BY <1>1, <2>1, FS_CountingElements
  <2> QED
    BY <2>2, <2>3
<1>6. T \in SUBSET S
  BY <1>3
<1>7. T = S
  <2> HIDE DEF T
  <2> QED
    BY <1>5, <1>6, FS_Subset DEF n
<1> QED
  BY <1>1, <1>3, <1>7 DEF n, q

(* The settings to save are those fields whose values are not the default. *)
LEMMA LinesAre ==
    ASSUME NEW conf
    PROVE  /\ IsText(LinesToSave(conf))
           /\ \A n \in DOMAIN LinesToSave(conf) :
                \E f \in SavedField : conf[f] # Default[f] /\ LinesToSave(conf)[n] = LineToSave(conf, f)
           /\ \A f \in SavedField : conf[f] # Default[f] =>
                \E n \in DOMAIN LinesToSave(conf) : LinesToSave(conf)[n] = LineToSave(conf, f)
<1> DEFINE S == {LineToSave(conf, f) : f \in {g \in SavedField : conf[g] # Default[g]}}
           n == Cardinality(S) q == SetToSeq(S)
<1>1. IsFiniteSet(S)
  <2> DEFINE L(f) == LineToSave(conf, f)
             all == {L("width"), L("height"), L("fps"), L("bitrate"), L("packetsize"), L("app"), L("sops"), L("localaudio")}
  <2>1. S \in SUBSET all
    BY DEF SavedField
  <2>2. IsFiniteSet(all)
    <3> HIDE DEF L
    <3>1. IsFiniteSet({L("width")})
      BY FS_Singleton
    <3>2. IsFiniteSet({L("width")} \cup {L("height")})
      BY <3>1, FS_AddElement
    <3>3. IsFiniteSet({L("width")} \cup {L("height")} \cup {L("fps")})
      BY <3>2, FS_AddElement
    <3>4. IsFiniteSet({L("width")} \cup {L("height")} \cup {L("fps")} \cup {L("bitrate")})
      BY <3>3, FS_AddElement
    <3>5. IsFiniteSet({L("width")} \cup {L("height")} \cup {L("fps")} \cup {L("bitrate")} \cup {L("packetsize")})
      BY <3>4, FS_AddElement
    <3>6. IsFiniteSet({L("width")} \cup {L("height")} \cup {L("fps")} \cup {L("bitrate")} \cup {L("packetsize")}
                      \cup {L("app")})
      BY <3>5, FS_AddElement
    <3>7. IsFiniteSet({L("width")} \cup {L("height")} \cup {L("fps")} \cup {L("bitrate")} \cup {L("packetsize")}
                      \cup {L("app")} \cup {L("sops")})
      BY <3>6, FS_AddElement
    <3>8. IsFiniteSet({L("width")} \cup {L("height")} \cup {L("fps")} \cup {L("bitrate")} \cup {L("packetsize")}
                      \cup {L("app")} \cup {L("sops")} \cup {L("localaudio")})
      BY <3>7, FS_AddElement
    <3>9. all = {L("width")} \cup {L("height")} \cup {L("fps")} \cup {L("bitrate")} \cup {L("packetsize")}
                \cup {L("app")} \cup {L("sops")} \cup {L("localaudio")}
      OBVIOUS
    <3> QED
      BY <3>8, <3>9
  <2> QED
    BY <2>1, <2>2, FS_Subset
<1>2. n \in Nat /\ q \in [1 .. n -> S] /\ \A x \in S : \E i \in 1 .. n : q[i] = x
  BY <1>1, SequenceOf
<1>3. LinesToSave(conf) = q
  BY DEF LinesToSave
<1>4. q \in Seq(S) /\ DOMAIN q = 1 .. n /\ Len(q) = n
  <2> HIDE DEF S, n, q
  <2> QED
    BY <1>2
<1>5. \A f \in SavedField : LineToSave(conf, f).name = f /\ f # "save"
  BY DEF LineToSave, SavedField
<1>6. \A i \in 1 .. n : \E f \in SavedField : conf[f] # Default[f] /\ q[i] = LineToSave(conf, f)
  <2> HIDE DEF n, q
  <2> QED
    BY <1>2
<1>7. \A f \in SavedField : conf[f] # Default[f] => \E i \in 1 .. n : q[i] = LineToSave(conf, f)
  <2> HIDE DEF n, q
  <2> QED
    BY <1>2
<1>8. IsText(q)
  <2> HIDE DEF n, q, S
  <2>1. \A i \in 1 .. n : q[i].name # "save"
    BY <1>5, <1>6
  <2> QED
    BY <1>2, <1>4, <2>1 DEF IsText
<1> HIDE DEF n, q
<1> QED
  BY <1>3, <1>4, <1>6, <1>7, <1>8

----------------------------------------------------------------------------
(* The steps that do not read.                                             *)

AllRead == stage \notin {"start", "args", "parsed"} /\ reading = <<>>

(* With nothing left to read all has been heard.                           *)
LEMMA AllHeard == AllRead => Now = <<>> /\ Heard = Leaves
<1> SUFFICES ASSUME AllRead PROVE Now = <<>> /\ Heard = Leaves
  OBVIOUS
<1>1. Now = <<>>
  <2>1. Base = <<>>
    BY DEF Base, AllRead
  <2> QED
    BY <2>1 DEF Now, AllRead
<1>2. \A p : ~Before(<<>>, p)
  <2>1. DOMAIN <<>> = {}
    OBVIOUS
  <2> QED
    BY <2>1 DEF Before
<1> QED
  BY <1>1, <1>2 DEF Heard, AllRead

LEMMA AllHeardNext == (AllRead => Now = <<>> /\ Heard = Leaves)'
BY AllHeard, PTL

LEMMA NothingOpen ==
    ASSUME AllRead'
    PROVE  Nested'
<1>1. MaxOpen \in Nat \ {0}
  BY ConfigAssumption
<1>2. Now' = <<>> /\ reading' = <<>>
  BY AllHeardNext DEF AllRead
<1> QED
  BY <1>1, <1>2 DEF Nested

(* The last option is taken: nothing is left that has not been heard.      *)
LEMMA OptionsEndStep ==
    ASSUME Texts, Phase, Nested, Words, Follows, OptionsEnd
    PROVE  Texts' /\ Phase' /\ Nested' /\ Words' /\ Follows'
<1>1. /\ stage \in {"args", "parsed"} /\ reading = <<>> /\ host_config_file = Nowhere /\ disk = found
      /\ stage' = IF config.save = NULL THEN "derive" ELSE "save"
      /\ UNCHANGED <<reading, config, inputVars, host_config_file, system, disk, saved, typed, found>>
  BY DEF OptionsEnd, At, Keeps, Phase
<1>2. Texts' /\ Leaves' = Leaves /\ \A p \in Leaves : Entry(p)' = Entry(p)
  BY <1>1, TextsStay, Unmoved
<1>3. AllRead'
  BY <1>1 DEF AllRead
<1>4. Nested' /\ Heard' = Leaves
  BY <1>2, <1>3, NothingOpen, AllHeardNext
<1>5. Heard = NotAfter(Now)
  BY <1>1 DEF Heard, NotAfter
<1>6. \A p : ~Before(<<>>, p)
  <2>1. DOMAIN <<>> = {}
    OBVIOUS
  <2> QED
    BY <2>1 DEF Before
<1>7. NotAfter(Now) = Leaves
  <2>1. CASE typed = <<>>
    <3>1. Base = <<>>
      BY <2>1 DEF Base
    <3>2. Now = <<>>
      BY <1>1, <3>1 DEF Now
    <3> QED
      BY <1>6, <3>2 DEF NotAfter
  <2>2. CASE typed # <<>>
    <3>1. Base = <<[file |-> argv, line |-> Len(typed)]>>
      BY <1>1, <2>2 DEF Base
    <3>2. Now = Base
      BY <1>1, <3>1 DEF Now
    <3>3. Len(Now) = 1 /\ Now[1] = [file |-> argv, line |-> Len(typed)] /\ Now # <<>>
      BY <3>1, <3>2
    <3>4. Now[1].file \in Tops /\ IsStack(Files(Now[1].file), Now)
      BY <3>3 DEF Nested
    <3>5. Closes(Now, <<>>)
      <4>1. IsChain(<<>>) /\ Len(<<>>) = 0
        BY DEF IsChain
      <4> QED
        BY <3>3, <4>1 DEF Closes
    <3>6. Now[Len(Now)].line = Len(Files(Now[1].file)[Now[Len(Now)].file])
      <4>1. argv[1] # "hosts"
        BY DEF argv
      <4>2. Files(argv)[argv] = typed
        BY <4>1 DEF Files
      <4> QED
        BY <3>3, <4>2
    <3>7. \A p \in Leaves : ~(Rank(Now[1].file) < Rank(p[1].file))
      <4> SUFFICES ASSUME NEW p \in Leaves PROVE ~(Rank(Now[1].file) < Rank(p[1].file))
        OBVIOUS
      <4>0. argv[1] # "hosts"
        BY DEF argv
      <4>1. Rank(Now[1].file) = 2
        BY <3>3, <4>0 DEF Rank
      <4>2. p[1].file \in Tops
        BY LeafIs
      <4>3. p[1].file # Nowhere
        BY <4>2, TopsAreFiles
      <4>4. Rank(p[1].file) \in {1, 2}
        BY <1>1, <4>2, <4>3, TopsAre
      <4> QED
        BY <4>1, <4>4
    <3>8. NotAfter(<<>>) = NotAfter(Now)
      BY <3>3, <3>4, <3>5, <3>6, <3>7, ClosesFile
    <3> QED
      BY <1>6, <3>8 DEF NotAfter
  <2> QED
    BY <2>1, <2>2
<1>8. Told' = Told
  BY <1>2, <1>4, <1>5, <1>7 DEF Told
<1>9. Phase' /\ Words'
  BY <1>1 DEF Phase, Words
<1>10. Follows'
  <2>1. PICK S : typed' \in Seq(S)
    BY <1>1 DEF Follows, Shape
  <2>2. stage' \in {"save", "fclose"} => config["save"] # NULL
    BY <1>1
  <2> QED
    BY <1>1, <1>8, <2>1, <2>2, AllStay DEF Follows, Shape
<1> QED
  BY <1>2, <1>4, <1>9, <1>10

SavedIs ==
    saved = NULL \/ /\ saved.file \in DOMAIN disk /\ disk[saved.file] = LinesToSave(saved.config)
                    /\ saved.config["sops"] \in BOOLEAN /\ saved.config["localaudio"] \in BOOLEAN

LEMMA WrittenTexts ==
    ASSUME Texts, NEW file, IsFile(file), NEW lines, IsText(lines), disk' = Written(file, lines),
           UNCHANGED <<found, typed, host_config_file>>
    PROVE  Texts' /\ file \in DOMAIN disk' /\ disk'[file] = lines
<1>1. DOMAIN disk' = DOMAIN disk \cup {file}
      /\ \A f \in DOMAIN disk' : disk'[f] = IF f = file THEN lines ELSE disk[f]
  BY DEF Written
<1>2. \A f \in DOMAIN disk' : IsFile(f) /\ IsText(disk'[f])
  BY <1>1 DEF Texts
<1> QED
  BY <1>1, <1>2 DEF Texts

(* Saving changes the files, but none that the places are in.              *)
LEMMA SavingStep ==
    ASSUME Texts, Texts', Phase, Nested, Words, Follows,
           stage \in {"save", "fclose"}, stage' \in {"fclose", "derive"}, reading = <<>>, UNCHANGED runVars
    PROVE  Phase' /\ Nested' /\ Words' /\ Follows'
<1>1. /\ host_config_file = Nowhere /\ reading' = <<>>
      /\ UNCHANGED <<found, typed, host_config_file, system, config, inputVars>>
  BY DEF Phase, runVars, inputVars
<1>2. Leaves' = Leaves /\ \A p \in Leaves : Entry(p)' = Entry(p)
  BY <1>1, Unmoved
<1>3. AllRead /\ AllRead'
  BY <1>1 DEF AllRead
<1>4. Nested' /\ Heard' = Leaves' /\ Heard = Leaves
  BY <1>3, NothingOpen, AllHeard, AllHeardNext
<1>5. Told' = Told
  BY <1>2, <1>4 DEF Told
<1>6. Phase' /\ Words'
  BY <1>1 DEF Phase, Words
<1>7. Follows'
  <2>1. PICK S : typed' \in Seq(S)
    BY <1>1 DEF Follows, Shape
  <2>2. config["save"] # NULL
    BY DEF Follows, Shape
  <2> QED
    BY <1>1, <1>5, <2>1, <2>2, AllStay DEF Follows, Shape
<1> QED
  BY <1>4, <1>6, <1>7

LEMMA SaveOpensStep ==
    ASSUME Texts, SavedIs, Phase, Nested, Words, Follows, SaveOpens
    PROVE  Texts' /\ SavedIs' /\ (stage' # "exited" => Phase' /\ Nested' /\ Words' /\ Follows')
<1>1. stage = "save" /\ reading = <<>>
  BY DEF SaveOpens, At
<1>2. CASE /\ stage' = "fclose" /\ disk' = Written(config.save, <<>>)
           /\ saved' = NULL /\ UNCHANGED runVars
  <2>1. IsFile(config.save)
    BY <1>1 DEF Follows, Shape
  <2>2. IsText(<<>>)
    BY DEF IsText
  <2>3. Texts'
    BY <1>2, <2>1, <2>2, WrittenTexts DEF runVars
  <2>4. SavedIs'
    BY <1>2 DEF SavedIs
  <2> QED
    BY <1>1, <1>2, <2>3, <2>4, SavingStep
<1>3. CASE Exits /\ UNCHANGED <<disk, saved>>
  <2>1. UNCHANGED <<found, typed, host_config_file>> /\ stage' = "exited"
    BY <1>3 DEF Exits, runVars
  <2> QED
    BY <1>3, <2>1, TextsStay DEF SavedIs
<1> QED
  BY <1>2, <1>3 DEF SaveOpens

LEMMA SaveClosesStep ==
    ASSUME Texts, Phase, Nested, Words, Follows, SaveCloses
    PROVE  Texts' /\ SavedIs' /\ Phase' /\ Nested' /\ Words' /\ Follows'
<1>1. /\ stage = "fclose" /\ reading = <<>> /\ stage' = "derive" /\ UNCHANGED runVars
      /\ disk' = Written(config.save, LinesToSave(config))
      /\ saved' = [file |-> config.save, config |-> config]
  BY DEF SaveCloses, At
<1>2. IsFile(config.save) /\ IsText(LinesToSave(config))
  BY <1>1, LinesAre DEF Follows, Shape
<1>3. Texts' /\ config.save \in DOMAIN disk' /\ disk'[config.save] = LinesToSave(config)
  BY <1>1, <1>2, WrittenTexts DEF runVars
<1>4. SavedIs'
  <2>1. saved'.file = config.save /\ saved'.config = config
    BY <1>1
  <2> QED
    BY <1>3, <2>1 DEF SavedIs, Follows, Shape
<1> QED
  BY <1>1, <1>3, <1>4, SavingStep

----------------------------------------------------------------------------
(* What main makes of what it has read.                                    *)

(* The directory and the rate are made up.                                 *)
LEMMA DeriveStep ==
    ASSUME Texts, Phase, Nested, Words, Follows, Derive, stage' # "exited"
    PROVE  Texts' /\ Phase' /\ Nested' /\ Words' /\ Follows'
<1>1. /\ stage = "derive" /\ stage' = "main" /\ reading = <<>> /\ host_config_file = Nowhere
      /\ config' = [config EXCEPT
                 !.keydir = IF @ = NULL THEN "cache" ELSE @,
                 !.bitrate = IF @ = -1 THEN Bitrate(config.height, config.fps) ELSE @]
      /\ UNCHANGED <<reading, host_config_file, inputVars, typed, found, disk, saved>>
  BY DEF Derive, At, Exits, Phase
<1>2. Texts' /\ Leaves' = Leaves /\ \A p \in Leaves : Entry(p)' = Entry(p)
  BY <1>1, TextsStay, Unmoved
<1>3. AllRead /\ AllRead'
  BY <1>1 DEF AllRead
<1>4. Nested' /\ Heard' = Heard
  BY <1>2, <1>3, NothingOpen, AllHeard, AllHeardNext
<1>5. Told' = Told
  BY <1>2, <1>4, AllHeard, <1>3 DEF Told
<1>6. Phase' /\ Words'
  BY <1>1 DEF Phase, Words
<1>7. EarlyTold' = Told /\ \A f : ~HostSays(Told, f)'
  BY <1>1, <1>2, <1>5, EarlyAllNext
<1>8. DOMAIN config = Field /\ DOMAIN config' = Field
      /\ (\A f \in Field \ {"keydir", "bitrate"} : config'[f] = config[f])
      /\ config'["bitrate"] = RateFrom(config["bitrate"], config["height"], config["fps"])
  <2>1. DOMAIN config = Field
    BY DEF Follows, Shape
  <2> QED
    BY <1>1, <2>1, FieldIs DEF RateFrom
<1>9. ~Derived /\ Derived' /\ stage \notin {"host", "using"} /\ stage' \notin {"host", "using"}
  BY <1>1 DEF Derived
<1>10. FieldsTold'
  <2>1. \A f \in Common : config'[f] = config[f]
    BY <1>8 DEF Common
  <2> QED
    BY <1>5, <1>9, <2>1 DEF FieldsTold, Follows
<1>11. RateTold'
  <2>1. /\ Counts(Told, "bitrate", config["bitrate"]) /\ Counts(Told, "height", config["height"])
        /\ Counts(Told, "fps", config["fps"])
    BY <1>9, CommonIs DEF Follows, FieldsTold, RateTold
  <2> QED
    BY <1>7, <1>8, <1>9, <2>1 DEF RateTold
<1>12. AddressTold'
  <2>1. config'["address"] = config["address"]
    BY <1>8, FieldIs
  <2> QED
    BY <1>5, <1>9, <2>1 DEF AddressTold, Follows
<1>13. InputsTold'
  <2>1. /\ inputs' = inputs /\ mapping' = mapping /\ inputAdded' = inputAdded /\ mapped' = mapped
        /\ DefaultPath' = DefaultPath
    BY <1>1 DEF inputVars, DefaultPath
  <2> QED
    BY <1>5, <2>1 DEF Follows, InputsTold
<1>15. SystemTold'
  <2>1. config'["forcehevc"] = config["forcehevc"]
    BY <1>8, FieldIs
  <2> QED
    BY <1>5, <1>9, <2>1 DEF SystemTold, Follows
<1>14. Shape'
  <2>1. config'["sops"] = config["sops"] /\ config'["localaudio"] = config["localaudio"]
        /\ config'["save"] = config["save"]
    BY <1>8, FieldIs
  <2> QED
    BY <1>1, <1>8, <2>1 DEF Shape, Follows, inputVars
<1> QED
  BY <1>2, <1>4, <1>6, <1>10, <1>11, <1>12, <1>13, <1>14, <1>15 DEF Follows

(* main finds the host, or has its address.                                *)
LEMMA MainStep ==
    ASSUME Texts, Phase, Nested, Words, Follows, Main, stage' # "exited"
    PROVE  Texts' /\ Phase' /\ Nested' /\ Words' /\ Follows'
<1>1. /\ stage = "main" /\ reading = <<>> /\ host_config_file = Nowhere
      /\ UNCHANGED <<reading, host_config_file, inputVars, typed, found, disk, saved>>
      /\ config.action \notin {NULL, "help"} /\ system' \in platform_check(config.platform) \ {NULL}
      /\ stage' = IF config.action = "map" THEN "using" ELSE "host"
      /\ \E address \in IF config.address = NULL /\ config.action # "map"
                       THEN Address ELSE {config.address} \ {NULL} :
           config' = [config EXCEPT
             !.forcehevc = @ \/ platform_supports_hevc(system'),
             !.address = address]
  BY DEF Main, At, Exits, Phase, runVars, inputVars
<1>2. Texts' /\ Leaves' = Leaves /\ \A p \in Leaves : Entry(p)' = Entry(p)
  BY <1>1, TextsStay, Unmoved
<1>3. AllRead /\ AllRead'
  BY <1>1 DEF AllRead
<1>4. Nested' /\ Heard' = Heard
  BY <1>2, <1>3, NothingOpen, AllHeard, AllHeardNext
<1>5. Told' = Told
  BY <1>2, <1>3, <1>4, AllHeard DEF Told
<1>6. Phase' /\ Words'
  BY <1>1 DEF Phase, Words
<1>7. EarlyTold = Told /\ EarlyTold' = Told /\ \A f : ~HostSays(Told, f) /\ ~HostSays(Told, f)'
  BY <1>1, <1>2, <1>5, EarlyAll, EarlyAllNext
<1>8. /\ DOMAIN config = Field /\ DOMAIN config' = Field
      /\ \A f \in Field \ {"address", "forcehevc"} : config'[f] = config[f]
      /\ config'["forcehevc"] = (config["forcehevc"] \/ platform_supports_hevc(system'))
      /\ config'["address"] \in IF config.address = NULL /\ config.action # "map"
                                THEN Address ELSE {config.address} \ {NULL}
  <2>1. DOMAIN config = Field
    BY DEF Follows, Shape
  <2> QED
    BY <1>1, <2>1, FieldIs
<1>9. Derived /\ Derived' /\ Counts(Told, "address", config["address"])
  BY <1>1 DEF Derived, AddressTold, Follows
<1>10. FieldsTold'
  <2>1. \A f \in Common : config'[f] = config[f]
    BY <1>8 DEF Common
  <2> QED
    BY <1>5, <1>9, <2>1 DEF FieldsTold, Follows
<1>11. RateTold'
  <2>1. config'["bitrate"] = config["bitrate"]
    BY <1>8, FieldIs
  <2> QED
    BY <1>5, <1>7, <1>9, <2>1 DEF RateTold, Follows
<1>12. AddressTold'
  <2>1. CASE config.action = "map"
    <3>1. config'["address"] = config["address"] /\ config'["action"] = "map" /\ stage' = "using"
      BY <1>1, <1>8, <2>1, FieldIs
    <3>2. Addressed(config["address"], config["address"])'
      BY <1>5, <1>7, <1>9, <3>1 DEF Addressed
    <3> QED
      BY <3>1, <3>2 DEF AddressTold
  <2>2. CASE config.action # "map"
    <3>1. PICK v : v = config["address"]
      OBVIOUS
    <3>2. Counts(Told', "address", v) /\ v \in {NULL, config'["address"]} /\ config'["address"] \in Address \cup {v}
      BY <1>5, <1>8, <1>9, <2>2, <3>1
    <3> QED
      BY <1>1, <2>2, <3>2 DEF AddressTold
  <2> QED
    BY <2>1, <2>2
<1>13. InputsTold'
  <2>1. /\ inputs' = inputs /\ mapping' = mapping /\ inputAdded' = inputAdded /\ mapped' = mapped
        /\ DefaultPath' = DefaultPath
    BY <1>1 DEF inputVars, DefaultPath
  <2> QED
    BY <1>5, <2>1 DEF Follows, InputsTold
<1>15. SystemTold'
  <2>1. Counts(Told, "forcehevc", config["forcehevc"]) /\ Counts(Told, "platform", config["platform"])
    BY <1>1, CommonIs DEF Follows, FieldsTold, SystemTold
  <2>2. PICK v, n : v = config["forcehevc"] /\ n = config["platform"]
    OBVIOUS
  <2>3. Counts(Told', "forcehevc", v) /\ Counts(EarlyTold', "platform", n)
    BY <1>5, <1>7, <2>1, <2>2
  <2>4. config'["forcehevc"] = (v \/ platform_supports_hevc(system')) /\ system' \in platform_check(n) \ {NULL}
    BY <1>1, <1>8, <2>2
  <2>5. HevcFrom(v, n)'
    BY <2>3, <2>4 DEF HevcFrom
  <2>6. stage' \in {"host", "using"}
    BY <1>1
  <2> QED
    BY <2>5, <2>6 DEF SystemTold
<1>14. Shape'
  <2>1. config'["sops"] = config["sops"] /\ config'["localaudio"] = config["localaudio"]
        /\ config'["save"] = config["save"]
    BY <1>8, FieldIs
  <2> QED
    BY <1>1, <1>8, <2>1 DEF Shape, Follows, inputVars
<1> QED
  BY <1>2, <1>4, <1>6, <1>10, <1>11, <1>12, <1>13, <1>14, <1>15 DEF Follows

LeafFrom(p) == IsPlace(Files(p[1].file), p) /\ Setting(p).name # "config"
LeavesFrom == \A p : p \in Leaves <=> p[1].file \in Tops /\ LeafFrom(p)
LEMMA LeavesAre == Texts => LeavesFrom
BY PlacesAre DEF LeavesFrom, LeafFrom, Leaves

LEMMA LeavesAreNext == (Texts => LeavesFrom)'
BY LeavesAre, PTL

LEMMA EarlyTop ==
    ASSUME Texts, host_config_file = Nowhere, NEW p \in Leaves
    PROVE  Rank(p[1].file) \in {1, 2} /\ p[1].file[1] # "hosts"
<1>1. p[1].file \in Tops
  BY LeafIs
<1>2. p[1].file # Nowhere
  BY <1>1, TopsAreFiles
<1> QED
  BY <1>1, <1>2, TopsAre

(* The host's file is opened: all that was heard stays heard, and all that *)
(* is in it is not.                                                        *)
LEMMA HostFileStep ==
    ASSUME Texts, Phase, Nested, Words, Follows, HostFile
    PROVE  Texts' /\ Phase' /\ Nested' /\ Words' /\ Follows'
<1>0. PICK host : host = <<"hosts", config.address>>
  OBVIOUS
<1>1. /\ stage = "host" /\ stage' = "using" /\ reading = <<>> /\ host_config_file = Nowhere
      /\ host_config_file' = host /\ host[1] = "hosts"
      /\ reading' = IF host \in DOMAIN disk THEN <<Opened(host)>> ELSE <<>>
      /\ UNCHANGED <<config, system, inputVars, disk, saved, typed, found>>
  BY <1>0 DEF HostFile, At, Phase
<1>2. Texts'
  BY <1>0, <1>1, TextsStay
<1>3. Tops' = Tops \cup ({host} \cap DOMAIN disk)
  <2>1. Nowhere \notin DOMAIN disk
    BY NotFiles
  <2> QED
    BY <1>1, <2>1 DEF Tops
<1>4. \A top : Files(top)' = Files(top)
  BY <1>1 DEF Files
<1>5. /\ \A p : LeafFrom(p)' <=> LeafFrom(p)
      /\ \A p : Entry(p)' = Entry(p)
  <2>1. \A p : Setting(p)' = Setting(p)
    BY <1>4 DEF Setting, LineOf
  <2>2. \A p : Says(p)' = Says(p)
    BY <1>1, <2>1 DEF Says
  <2> QED
    BY <1>4, <2>1, <2>2 DEF Entry, LeafFrom
<1>6. \A p : p \in Leaves' <=> p \in Leaves \/ (host \in DOMAIN disk /\ p[1].file = host /\ LeafFrom(p))
  BY <1>2, <1>3, <1>5, LeavesAre, LeavesAreNext DEF LeavesFrom
<1>7. \A p \in Leaves : Rank(p[1].file) \in {1, 2} /\ p[1].file # host
  BY <1>1, EarlyTop
<1>8. Heard = Leaves
  BY <1>1, AllHeard DEF AllRead
<1>9. Now' = reading'
  <2>1. Base' = <<>>
    BY <1>1 DEF Base
  <2> QED
    BY <1>1, <2>1 DEF Now
<1>10. Heard' = Leaves
  <2>1. CASE host \in DOMAIN disk
    <3>1. Len(Now') = 1 /\ Now'[1] = [file |-> host, line |-> 0] /\ DOMAIN Now' = {1}
      BY <1>1, <1>9, <2>1 DEF Opened
    <3>2. ASSUME NEW p \in Leaves PROVE ~Before(Now', p)
      <4>0. argv[1] # "hosts"
        BY DEF argv
      <4>1. host # argv
        BY <1>1, <4>0
      <4>2. Rank(host) = 3
        BY <1>1, <4>1 DEF Rank
      <4>3. ~Earlier(Now'[1], p[1])
        BY <1>7, <3>1, <4>2 DEF Earlier
      <4> QED
        BY <3>1, <4>3 DEF Before
    <3>3. ASSUME NEW p, p[1].file = host, LeafFrom(p) PROVE Before(Now', p)
      <4>1. /\ IsChain(p) /\ Len(p) \in 1 .. MaxOpen + 1 /\ host \in DOMAIN Files(host)
            /\ p[1].line \in DOMAIN Files(host)[host]
        <5>1. MaxOpen \in Nat \ {0}
          BY ConfigAssumption
        <5>2. IsPlace(Files(host), p)
          BY <3>3 DEF LeafFrom
        <5>3. 1 \in 1 .. Len(p)
          BY <5>1, <5>2 DEF IsPlace
        <5> QED
          BY <3>3, <5>2, <5>3 DEF IsPlace
      <4>2. IsText(Files(host)[host])
        BY <4>1, FilesAreTexts
      <4>3. 0 < p[1].line
        BY <4>1, <4>2 DEF IsText
      <4>4. Earlier(Now'[1], p[1])
        BY <3>1, <3>3, <4>3 DEF Earlier
      <4>5. 1 \in DOMAIN p
        <5>1. MaxOpen \in Nat \ {0}
          BY ConfigAssumption
        <5> QED
          BY <4>1, <5>1 DEF IsChain
      <4> QED
        BY <3>1, <4>4, <4>5 DEF Before
    <3> QED
      BY <1>1, <1>6, <3>2, <3>3 DEF Heard
  <2>2. CASE host \notin DOMAIN disk
    <3>1. AllRead'
      BY <1>1, <2>2 DEF AllRead
    <3> QED
      BY <1>6, <2>2, <3>1, AllHeardNext
  <2> QED
    BY <2>1, <2>2
<1>11. Told' = Told
  BY <1>5, <1>8, <1>10 DEF Told
<1>12. Nested'
  <2>1. CASE host \in DOMAIN disk
    <3>0. Opened(host) \in [file : DOMAIN disk', line : Nat] /\ Opened(host) = [file |-> host, line |-> 0]
      BY <1>1, <2>1 DEF Opened
    <3>1. MaxOpen \in Nat \ {0}
      BY ConfigAssumption
    <3>2. /\ reading' \in Seq([file : DOMAIN disk', line : Nat]) /\ Len(reading') = 1
          /\ Now' = <<Opened(host)>> /\ Len(Now') = 1 /\ Now'[1] = [file |-> host, line |-> 0]
      BY <1>1, <1>9, <2>1, <3>0
    <3>3. IsChain(Now')
      BY <3>0, <3>2 DEF IsChain, IsSpot
    <3>4. host \in Tops'
      BY <1>3, <2>1
    <3>5. host \in DOMAIN Files(host)' /\ Len(Files(host)'[host]) \in Nat
      BY <1>2, <3>4, TopsReadNext DEF TopsRead
    <3>6. IsStack(Files(host)', Now')
      BY <3>1, <3>2, <3>3, <3>5 DEF IsStack
    <3> QED
      BY <3>1, <3>2, <3>4, <3>6 DEF Nested
  <2>2. CASE host \notin DOMAIN disk
    <3>1. AllRead'
      BY <1>1, <2>2 DEF AllRead
    <3> QED
      BY <3>1, NothingOpen
  <2> QED
    BY <2>1, <2>2
<1>13. Phase' /\ Words'
  BY <1>1 DEF Phase, Words, Opened
<1>14. EarlyTold = Told /\ \A f : ~HostSays(Told, f)
  BY <1>1, EarlyAll
<1>15. EarlyTold' = Told /\ \A f : ~HostSays(Told, f)'
  <2>1. \A p \in DOMAIN Told : p[1].file # host
    BY <1>7, <1>8, ToldIs
  <2>2. {q \in DOMAIN Told : q[1].file # host} = DOMAIN Told
    BY <2>1
  <2> QED
    BY <1>1, <1>11, <2>1, <2>2, ToldIs DEF EarlyTold, HostSays
<1>16. FieldsTold' /\ Shape'
  <2>1. Derived'
    BY <1>1 DEF Derived
  <2> QED
    BY <1>1, <1>11, <2>1 DEF Follows, FieldsTold, Shape, inputVars
<1>17. RateTold'
  <2>1. Derived /\ Derived'
    BY <1>1 DEF Derived
  <2> QED
    BY <1>1, <1>11, <1>14, <1>15, <2>1 DEF Follows, RateTold
<1>18. AddressTold'
  <2>1. PICK v : /\ Counts(Told, "address", v) /\ v \in {NULL, config["address"]}
                 /\ config["address"] \in Address \cup {v}
    BY <1>1 DEF Follows, AddressTold
  <2>2. PICK a : a = config["address"]
    OBVIOUS
  <2>3. a \in Address \cup {v} /\ host = <<"hosts", a>> /\ v \in {NULL, a} /\ config'["address"] = a
    BY <1>0, <1>1, <2>1, <2>2
  <2>4. Addressed(v, v)'
    BY <1>1, <1>11, <1>15, <2>1, <2>3 DEF Addressed
  <2> QED
    BY <1>1, <2>4 DEF AddressTold
<1>19. InputsTold'
  <2>1. /\ inputs' = inputs /\ mapping' = mapping /\ inputAdded' = inputAdded /\ mapped' = mapped
        /\ DefaultPath' = DefaultPath
    BY <1>1 DEF inputVars, DefaultPath
  <2> QED
    BY <1>11, <2>1 DEF Follows, InputsTold
<1>20. SystemTold'
  <2>1. PICK v, n : HevcFrom(v, n)
    BY <1>1 DEF Follows, SystemTold
  <2>2. HevcFrom(v, n)'
    BY <1>1, <1>11, <1>14, <1>15, <2>1 DEF HevcFrom
  <2> QED
    BY <1>1, <2>2 DEF SystemTold
<1> QED
  BY <1>2, <1>12, <1>13, <1>16, <1>17, <1>18, <1>19, <1>20 DEF Follows

----------------------------------------------------------------------------
(* The invariant.                                                          *)

Fresh ==
    /\ stage = "start" /\ typed = <<>> /\ found = disk /\ reading = <<>> /\ host_config_file = Nowhere
    /\ \E garbage \in BOOLEAN : config = Defaults(garbage)
    /\ inputs = <<>> /\ mapping = get_path(disk, "default.map") /\ inputAdded = FALSE /\ mapped = TRUE

Going == Phase /\ Nested /\ Words /\ Follows

(* A run starts with nothing heard and the defaults.                       *)
LEMMA FreshGoes == Fresh => Going
<1> SUFFICES ASSUME Fresh PROVE Going
  OBVIOUS
<1>1. Now = <<>>
  <2>1. Base = <<>>
    BY DEF Base, Fresh
  <2> QED
    BY <2>1 DEF Now, Fresh
<1>2. Phase
  BY DEF Phase, Fresh
<1>3. Nested
  <2>1. MaxOpen \in Nat \ {0}
    BY ConfigAssumption
  <2> QED
    BY <1>1, <2>1 DEF Nested, Fresh
<1>4. PICK garbage \in BOOLEAN : config = Defaults(garbage)
  BY DEF Fresh
<1>5. /\ DOMAIN config = Field /\ config["action"] = NULL
      /\ config["sops"] = TRUE /\ config["localaudio"] = FALSE /\ config["save"] = NULL
      /\ \A f \in Field \ {"forcehw"} : config[f] = Default[f]
  <2>1. DOMAIN config = Field
    BY <1>4 DEF Defaults, Default, Field
  <2>2. /\ config["action"] = NULL
        /\ config["sops"] = TRUE /\ config["localaudio"] = FALSE /\ config["save"] = NULL
    BY <1>4 DEF Defaults
  <2>3. \A f \in Field \ {"forcehw"} : config[f] = Default[f]
    <3>1. /\ config["width"] = Default["width"] /\ config["height"] = Default["height"]
          /\ config["fps"] = Default["fps"] /\ config["bitrate"] = Default["bitrate"]
          /\ config["packetsize"] = Default["packetsize"] /\ config["app"] = Default["app"]
          /\ config["sops"] = Default["sops"] /\ config["localaudio"] = Default["localaudio"]
          /\ config["remote"] = Default["remote"] /\ config["windowed"] = Default["windowed"]
          /\ config["surround"] = Default["surround"] /\ config["forcehevc"] = Default["forcehevc"]
          /\ config["unsupported"] = Default["unsupported"] /\ config["platform"] = Default["platform"]
          /\ config["audio"] = Default["audio"] /\ config["keydir"] = Default["keydir"]
          /\ config["save"] = Default["save"] /\ config["action"] = Default["action"]
          /\ config["address"] = Default["address"]
      BY <1>4 DEF Default, Defaults
    <3> QED
      BY <3>1, FieldIs
  <2> QED
    BY <2>1, <2>2, <2>3
<1>6. Words
  BY <1>5 DEF Words, Fresh
<1>7. DOMAIN Told = {} /\ \A f, v : v = Default[f] => Counts(Told, f, v)
  <2>1. DOMAIN Told = {}
    BY DEF Told, Heard, Fresh
  <2> QED
    BY <2>1 DEF Counts, Sayers
<1>8. FieldsTold
  <2>1. \A f \in Common \cup {"keydir"} : config[f] = Default[f]
    BY <1>5, FieldIs DEF Common
  <2> QED
    BY <1>7, <2>1 DEF FieldsTold
<1>9. ~Derived /\ stage \notin {"host", "using", "save", "fclose"}
  BY DEF Derived, Fresh
<1>10. /\ config["bitrate"] = Default["bitrate"] /\ config["address"] = Default["address"]
       /\ config["forcehevc"] = Default["forcehevc"]
  BY <1>5, FieldIs
<1>11. RateTold /\ AddressTold /\ SystemTold
  BY <1>7, <1>9, <1>10 DEF RateTold, AddressTold, SystemTold
<1>12. \A name : Called(Told, name) = {}
  BY <1>7 DEF Called
<1>13. \E at : OpenedAt(DefaultPath, Told, inputs, at)
  <2>1. DOMAIN inputs = {}
    BY DEF Fresh
  <2>2. [k \in {} |-> k] \in [DOMAIN inputs -> Called(Told, "input")]
    BY <2>1
  <2>3. OpenedAt(DefaultPath, Told, inputs, [k \in {} |-> k])
    BY <1>12, <2>1, <2>2 DEF OpenedAt
  <2> QED
    BY <2>3
<1>14. InputsTold
  BY <1>9, <1>12, <1>13 DEF InputsTold, Fresh, PathIs, DefaultPath
<1>15. inputs \in Seq({}) /\ typed \in Seq({})
  BY DEF Fresh
<1>16. Shape
  BY <1>5, <1>9, <1>15 DEF Shape
<1> QED
  BY <1>2, <1>3, <1>6, <1>8, <1>11, <1>14, <1>16 DEF Going, Follows

LEMMA FreshGoesNext == (Fresh => Going)'
BY FreshGoes, PTL

ConfigIInv == Texts /\ SavedIs /\ (stage # "exited" => Going)

LEMMA ConfigInitIInv == ConfigInit => ConfigIInv
<1> SUFFICES ASSUME ConfigInit PROVE ConfigIInv
  OBVIOUS
<1>1. PICK d \in Disks : d = disk
  BY DEF ConfigInit
<1>2. \A f \in DOMAIN d : IsFile(f) /\ IsText(d[f])
  BY ConfigAssumption
<1>3. IsText(<<>>)
  BY DEF IsText
<1>4. Texts
  BY <1>1, <1>2, <1>3 DEF Texts, ConfigInit
<1>5. Fresh
  BY DEF ConfigInit, Fresh
<1>6. SavedIs
  BY DEF ConfigInit, SavedIs
<1> QED
  BY <1>4, <1>5, <1>6, FreshGoes DEF ConfigIInv

LEMMA RestartIInv ==
    ASSUME ConfigIInv, Restart
    PROVE  ConfigIInv'
<1>1. Fresh' /\ UNCHANGED <<disk, saved>> /\ typed' = <<>> /\ found' = disk /\ host_config_file' = Nowhere
  BY DEF Restart, Fresh
<1>2. IsText(<<>>)
  BY DEF IsText
<1>3. Texts'
  BY <1>1, <1>2 DEF ConfigIInv, Texts
<1>4. SavedIs'
  BY <1>1 DEF ConfigIInv, SavedIs
<1> QED
  BY <1>1, <1>3, <1>4, FreshGoesNext DEF ConfigIInv

(* A step that leaves the files alone.                                     *)
LEMMA SavedStays ==
    ASSUME SavedIs, UNCHANGED <<disk, saved>>
    PROVE  SavedIs'
BY DEF SavedIs

LEMMA ReadLineIInv ==
    ASSUME ConfigIInv, ReadLine
    PROVE  ConfigIInv'
<1>1. Texts /\ SavedIs /\ Going /\ UNCHANGED <<disk, saved, typed, found, host_config_file, system>>
  BY DEF ConfigIInv, ReadLine
<1>2. Texts' /\ SavedIs'
  BY <1>1, TextsStay, SavedStays
<1>3. ASSUME stage' # "exited" PROVE Going'
  <2>1. DOMAIN config = Field
    BY <1>1 DEF Going, Follows, Shape
  <2>2. /\ Phase' /\ Nested' /\ Quiet /\ stage # "start"
        /\ \/ Told' = Told /\ UNCHANGED <<config, inputVars>>
           \/ \E q : /\ Grown(Told, Told', q, Entry(q)) /\ Heeds(Entry(q)) /\ SetsWell(Entry(q).says)
                     /\ config'["action"] = config["action"]
                     /\ q[1].file \in Tops /\ (stage = "using" => q[1].file = host_config_file)
    BY <1>1, <1>3, <2>1, ReadLineStep DEF Going
  <2>3. UNCHANGED <<stage, host_config_file, found, typed>> /\ stage \in {"args", "parsed", "using"}
    BY <1>1, <2>2 DEF Quiet, Going, Phase, ReadLine
  <2>4. PICK S : typed' \in Seq(S)
    BY <1>1 DEF Going, Follows, Shape
  <2>5. CASE Told' = Told /\ UNCHANGED <<config, inputVars>>
    <3>1. Follows'
      BY <1>1, <2>1, <2>3, <2>4, <2>5, AllStay DEF Going
    <3>2. Words'
      BY <1>1, <2>3, <2>5 DEF Going, Words
    <3> QED
      BY <2>2, <3>1, <3>2 DEF Going
  <2>6. CASE \E q : /\ Grown(Told, Told', q, Entry(q)) /\ Heeds(Entry(q)) /\ SetsWell(Entry(q).says)
                    /\ config'["action"] = config["action"]
                    /\ q[1].file \in Tops /\ (stage = "using" => q[1].file = host_config_file)
    <3>1. PICK q : /\ Grown(Told, Told', q, Entry(q)) /\ Heeds(Entry(q)) /\ SetsWell(Entry(q).says)
                   /\ config'["action"] = config["action"]
                   /\ q[1].file \in Tops /\ (stage = "using" => q[1].file = host_config_file)
      BY <2>6
    <3>2. HearsOf(q, Entry(q))
      BY <3>1 DEF HearsOf
    <3>3. Hears
      BY <3>2 DEF Hears
    <3>4. Follows'
      BY <1>1, <2>3, <2>4, <3>3, AllHear DEF Going
    <3>5. Words'
      BY <1>1, <2>3, <3>1 DEF Going, Words
    <3> QED
      BY <2>2, <3>4, <3>5 DEF Going
  <2> QED
    BY <2>2, <2>5, <2>6
<1> QED
  BY <1>2, <1>3 DEF ConfigIInv

LEMMA TypeIInv ==
    ASSUME ConfigIInv, NEW option \in Options, Type(option)
    PROVE  ConfigIInv'
<1>1. /\ Texts /\ SavedIs /\ Going /\ UNCHANGED <<disk, saved, found, host_config_file, system>> /\ stage = "args"
      /\ typed' = Append(typed, option)
  BY DEF ConfigIInv, Type, At
<1>2. PICK S : typed \in Seq(S)
  BY <1>1 DEF Going, Follows, Shape
<1>3. option.name = "save" => IsFile(option.value)
  BY OptionIs
<1>4. Texts' /\ SavedIs' /\ \E R : typed' \in Seq(R)
  BY <1>1, <1>2, <1>3, TextsTyped, SavedStays
<1>5. ASSUME stage' # "exited" PROVE Going'
  <2>1. DOMAIN config = Field
    BY <1>1 DEF Going, Follows, Shape
  <2>2. /\ Phase' /\ Nested' /\ Words' /\ stage' = "args"
        /\ (Told' = Told /\ UNCHANGED <<config, inputVars>>) \/ Hears
    BY <1>1, <1>2, <1>5, <2>1, TypeStep DEF Going
  <2>3. PICK R : typed' \in Seq(R)
    BY <1>4
  <2>4. CASE Told' = Told /\ UNCHANGED <<config, inputVars>>
    <3>1. Follows'
      BY <1>1, <2>1, <2>2, <2>3, <2>4, AllStay DEF Going
    <3> QED
      BY <2>2, <3>1 DEF Going
  <2>5. CASE Hears
    <3>1. Follows'
      BY <1>1, <2>2, <2>3, <2>5, AllHear DEF Going
    <3> QED
      BY <2>2, <3>1 DEF Going
  <2> QED
    BY <2>2, <2>4, <2>5
<1> QED
  BY <1>4, <1>5 DEF ConfigIInv

(* The process ends, and leaves what there is.                             *)
LEMMA ExitsIInv ==
    ASSUME ConfigIInv, Exits, UNCHANGED <<disk, saved>>
    PROVE  ConfigIInv'
<1>1. UNCHANGED <<disk, saved, typed, found, host_config_file>> /\ stage' = "exited"
  BY DEF Exits, runVars
<1> QED
  BY <1>1, TextsStay, SavedStays DEF ConfigIInv

LEMMA NothingMoves ==
    ASSUME ConfigIInv, UNCHANGED configVars
    PROVE  ConfigIInv'
<1>1. /\ UNCHANGED <<disk, stage, reading, host_config_file, system, config, inputVars, typed, found, saved>>
  BY DEF configVars, runVars, inputVars
<1>2. Texts' /\ SavedIs'
  BY <1>1, TextsStay, SavedStays DEF ConfigIInv
<1>3. ASSUME stage' # "exited" PROVE Going'
  <2>1. Texts /\ Phase /\ Nested /\ Words /\ Follows
    BY <1>1, <1>3 DEF ConfigIInv, Going
  <2>2. Leaves' = Leaves /\ Tops' = Tops /\ (\A p \in Leaves : Entry(p)' = Entry(p))
    BY <1>1, <1>2, <2>1, Unmoved
  <2>3. Now' = Now /\ \A top : Files(top)' = Files(top)
    BY <1>1 DEF Now, Base, Files
  <2>4. Told' = Told
    BY <1>1, <2>2, <2>3 DEF Told, Heard
  <2>5. Nested'
    BY <1>1, <2>1, <2>2, <2>3 DEF Nested
  <2>6. Phase' /\ Words'
    BY <1>1, <2>1 DEF Phase, Words
  <2>7. Follows'
    <3>1. PICK S : typed' \in Seq(S)
      BY <1>1, <2>1 DEF Follows, Shape
    <3>2. stage' \in {"save", "fclose"} => config["save"] # NULL
      BY <1>1, <2>1 DEF Follows, Shape
    <3> QED
      BY <1>1, <2>1, <2>4, <3>1, <3>2, AllStay DEF Follows, Shape
  <2> QED
    BY <2>5, <2>6, <2>7 DEF Going
<1> QED
  BY <1>2, <1>3 DEF ConfigIInv

(* Every step keeps the invariant.                                         *)
LEMMA ConfigNextIInv == ConfigIInv /\ [ConfigNext]_configVars => ConfigIInv'
<1> SUFFICES ASSUME ConfigIInv, [ConfigNext]_configVars PROVE ConfigIInv'
  OBVIOUS
<1>1. CASE ReadLine
  BY <1>1, ReadLineIInv
<1>2. CASE BaseFile
  <2>1. stage = "start" /\ UNCHANGED <<disk, saved>>
    BY <1>2 DEF BaseFile, At, Keeps
  <2> QED
    BY <1>2, <2>1, BaseStep, SavedStays DEF ConfigIInv, Going
<1>3. CASE OnlyAFile
  <2>1. stage = "args" /\ UNCHANGED <<disk, saved>>
    BY <1>3 DEF OnlyAFile, At
  <2> QED
    BY <1>3, <2>1, OnlyAFileStep, SavedStays DEF ConfigIInv, Going
<1>4. CASE OptionsEnd
  <2>1. stage # "exited" /\ UNCHANGED <<disk, saved>>
    BY <1>4 DEF OptionsEnd, Keeps
  <2> QED
    BY <1>4, <2>1, OptionsEndStep, SavedStays DEF ConfigIInv, Going
<1>5. CASE SaveOpens
  <2>1. stage = "save"
    BY <1>5 DEF SaveOpens, At
  <2> QED
    BY <1>5, <2>1, SaveOpensStep DEF ConfigIInv, Going
<1>6. CASE SaveCloses
  <2>1. stage = "fclose"
    BY <1>6 DEF SaveCloses, At
  <2> QED
    BY <1>6, <2>1, SaveClosesStep DEF ConfigIInv, Going
<1>7. CASE Killed
  BY <1>7, ExitsIInv DEF Killed
<1>8. CASE Derive
  <2>1. stage = "derive" /\ UNCHANGED <<disk, saved>>
    BY <1>8 DEF Derive, At
  <2>2. CASE stage' = "exited"
    <3>1. Exits
      BY <1>8, <2>2 DEF Derive
    <3> QED
      BY <2>1, <3>1, ExitsIInv
  <2>3. CASE stage' # "exited"
    BY <1>8, <2>1, <2>3, DeriveStep, SavedStays DEF ConfigIInv, Going
  <2> QED
    BY <2>2, <2>3
<1>9. CASE Main
  <2>1. stage = "main" /\ UNCHANGED <<disk, saved>>
    BY <1>9 DEF Main, At
  <2>2. CASE stage' = "exited"
    <3>1. Exits
      BY <1>9, <2>2 DEF Main
    <3> QED
      BY <2>1, <3>1, ExitsIInv
  <2>3. CASE stage' # "exited"
    BY <1>9, <2>1, <2>3, MainStep, SavedStays DEF ConfigIInv, Going
  <2> QED
    BY <2>2, <2>3
<1>10. CASE HostFile
  <2>1. stage = "host" /\ UNCHANGED <<disk, saved>>
    BY <1>10 DEF HostFile, At
  <2> QED
    BY <1>10, <2>1, HostFileStep, SavedStays DEF ConfigIInv, Going
<1>11. CASE Restart
  BY <1>11, RestartIInv
<1>12. CASE \E option \in Options : Type(option)
  BY <1>12, TypeIInv
<1>13. CASE UNCHANGED configVars
  BY <1>13, NothingMoves
<1> QED
  BY <1>1, <1>2, <1>3, <1>4, <1>5, <1>6, <1>7, <1>8, <1>9, <1>10, <1>11, <1>12, <1>13 DEF ConfigNext

LEMMA ConfigSpecIInv == ConfigSpec => []ConfigIInv
BY ConfigInitIInv, ConfigNextIInv, PTL DEF ConfigSpec

----------------------------------------------------------------------------
(* What the documents say.                                                 *)

(* A setting that names a file says nothing of any field.                  *)
LEMMA SaysNothing ==
    ASSUME NEW p, Setting(p).name = "config"
    PROVE  DOMAIN Says(p) = {}
<1>1. "config" \in required_argument /\ "config" \notin no_argument /\ "config" \notin Field
  BY FieldIs DEF required_argument, no_argument
<1>2. Says(p) = Sets("config", Setting(p).value)
  BY <1>1 DEF Says
<1>3. Sets("config", Setting(p).value) = [f \in {} |-> Setting(p).value]
  BY <1>1 DEF Sets
<1> QED
  BY <1>2, <1>3

(* What counts of what is told is what the reference says last.            *)
LEMMA LastIs ==
    ASSUME NEW places, NEW f, NEW v,
           NEW T, T = [p \in {x \in places : Setting(x).name # "config"} |-> Entry(p)], Counts(T, f, v)
    PROVE  LastSaid(places, f) = v
<1>1. /\ DOMAIN T = {x \in places : Setting(x).name # "config"}
      /\ \A p \in DOMAIN T : T[p].says = Says(p)
  BY DEF Entry
<1>2. Sayers(T, f) = {p \in places : f \in DOMAIN Says(p)}
  BY <1>1, SaysNothing DEF Sayers
<1>3. Lasts(T, f) = Lasting(places, f)
  BY <1>2 DEF Lasts, Lasting
<1>4. CASE Sayers(T, f) = {} /\ v = Default[f]
  BY <1>2, <1>4 DEF LastSaid
<1>5. CASE \E p : Lasts(T, f) = {p} /\ v = T[p].says[f]
  <2>1. PICK p : Lasts(T, f) = {p} /\ v = T[p].says[f]
    BY <1>5
  <2>2. p \in Sayers(T, f) /\ p \in DOMAIN T
    BY <2>1 DEF Lasts, Sayers
  <2>3. (CHOOSE x \in Lasting(places, f) : TRUE) = p
    BY <1>3, <2>1
  <2>4. v = Says(p)[f]
    BY <1>1, <2>1, <2>2
  <2>5. \E x \in places : f \in DOMAIN Says(x)
    BY <1>2, <2>2
  <2> QED
    BY <2>3, <2>4, <2>5 DEF LastSaid
<1> QED
  BY <1>4, <1>5 DEF Counts

LEMMA AllTold ==
    ASSUME AllRead
    PROVE  /\ Told = [p \in {x \in Places : Setting(x).name # "config"} |-> Entry(p)]
           /\ EarlyTold = [p \in {x \in Places \ OfHost(Places) : Setting(x).name # "config"} |-> Entry(p)]
<1>1. Heard = Leaves
  BY AllHeard
<1>2. Told = [p \in Leaves |-> Entry(p)]
  BY <1>1 DEF Told
<1>3. {q \in DOMAIN Told : q[1].file # host_config_file} =
      {x \in Places \ OfHost(Places) : Setting(x).name # "config"}
  BY <1>2 DEF Leaves, OfHost
<1>4. \A p \in {x \in Places \ OfHost(Places) : Setting(x).name # "config"} : Told[p] = Entry(p)
  BY <1>2 DEF Leaves
<1> QED
  BY <1>2, <1>3, <1>4 DEF EarlyTold, Leaves

LEMMA HostSaysIs ==
    ASSUME AllRead, NEW f
    PROVE  HostSays(Told, f) <=> \E p \in OfHost(Places) : f \in DOMAIN Says(p)
<1>1. DOMAIN Told = {x \in Places : Setting(x).name # "config"} /\ \A p \in DOMAIN Told : Told[p].says = Says(p)
  BY AllTold DEF Entry
<1> QED
  BY <1>1, SaysNothing DEF HostSays, OfHost

LEMMA UsedLast == ConfigIInv => LastSettingWins
<1> SUFFICES ASSUME ConfigIInv, Used PROVE LastSettingWins
  BY DEF LastSettingWins
<1> DEFINE all == Places early == Places \ OfHost(Places)
<1>1. Texts /\ Follows /\ AllRead /\ Derived /\ stage = "using"
  BY DEF Used, ConfigIInv, Going, AllRead, Derived
<1>2. \A f, v : Counts(Told, f, v) => LastSaid(all, f) = v
  BY <1>1, AllTold, LastIs
<1>3. \A f, v : Counts(EarlyTold, f, v) => LastSaid(early, f) = v
  BY <1>1, AllTold, LastIs
<1>4. \A f \in Field \ {"action", "address", "bitrate", "keydir", "forcehw", "forcehevc"} :
        config[f] = LastSaid(all, f)
  BY <1>1, <1>2 DEF Follows, FieldsTold, Common
<1>5. /\ LastSaid(all, "address") \in {NULL, config.address}
      /\ config.action # "map" =>
           \E a \in Address \cup {LastSaid(early, "address")} :
             host_config_file = <<"hosts", a>> /\ LastSaid(early, "address") \in {NULL, a}
  <2>1. PICK v, w : Addressed(v, w)
    BY <1>1 DEF Follows, AddressTold
  <2>2. LastSaid(all, "address") = w /\ LastSaid(early, "address") = v
    BY <1>2, <1>3, <2>1 DEF Addressed
  <2> QED
    BY <2>1, <2>2 DEF Addressed
<1>6. config.bitrate =
        IF \E p \in OfHost(all) : "bitrate" \in DOMAIN Says(p) THEN LastSaid(all, "bitrate")
        ELSE IF LastSaid(early, "bitrate") # -1 THEN LastSaid(early, "bitrate")
        ELSE Bitrate(LastSaid(early, "height"), LastSaid(early, "fps"))
  <2>1. PICK b, h, r :
          /\ Counts(EarlyTold, "bitrate", b) /\ Counts(EarlyTold, "height", h) /\ Counts(EarlyTold, "fps", r)
          /\ HostSays(Told, "bitrate") => Counts(Told, "bitrate", config["bitrate"])
          /\ ~HostSays(Told, "bitrate") => config["bitrate"] = RateFrom(b, h, r)
    BY <1>1 DEF Follows, RateTold
  <2>2. LastSaid(early, "bitrate") = b /\ LastSaid(early, "height") = h /\ LastSaid(early, "fps") = r
    BY <1>3, <2>1
  <2>3. HostSays(Told, "bitrate") => LastSaid(all, "bitrate") = config["bitrate"]
    BY <1>2, <2>1
  <2>4. HostSays(Told, "bitrate") <=> \E p \in OfHost(all) : "bitrate" \in DOMAIN Says(p)
    BY <1>1, HostSaysIs
  <2> HIDE DEF all, early
  <2> QED
    BY <2>1, <2>2, <2>3, <2>4 DEF RateFrom
<1>7. /\ system \in platform_check(LastSaid(early, "platform")) \ {NULL}
      /\ config.forcehevc = (LastSaid(all, "forcehevc") \/ platform_supports_hevc(system))
  <2>1. PICK v, n : HevcFrom(v, n)
    BY <1>1 DEF Follows, SystemTold
  <2>2. LastSaid(all, "forcehevc") = v /\ LastSaid(early, "platform") = n
    BY <1>2, <1>3, <2>1 DEF HevcFrom
  <2> QED
    BY <2>1, <2>2 DEF HevcFrom
<1> QED
  BY <1>4, <1>5, <1>6, <1>7 DEF LastSettingWins

(* The setting that comes last counts (config_parse, config_file_parse,    *)
(* parse_argument), in the order of the file that is always read, the      *)
(* options, and the file of the host, a file standing where it is named;   *)
(* only, bitrate, directory and platform are settled before the host's     *)
(* file, and HEVC also comes with the platform (main); for all files and   *)
(* options, files named in files any number deep.                          *)
THEOREM LastSettingAlwaysWins == ConfigSpec => []LastSettingWins
BY ConfigSpecIInv, UsedLast, PTL

LEMMA LastMappingIs ==
    ASSUME NEW mappings, NEW x, Newest(mappings) = {x}
    PROVE  LastMapping(mappings) = get_path(Files(x[1].file), Setting(x).value)
<1> DEFINE last == CHOOSE q \in mappings : \A r \in mappings : ~Before(q, r)
<1>1. mappings # {} /\ \A q \in mappings : (\A r \in mappings : ~Before(q, r)) <=> q = x
  BY DEF Newest
<1>2. last = x
  BY <1>1
<1>3. LastMapping(mappings) = IF mappings = {} THEN get_path(found, "default.map")
                              ELSE get_path(Files(last[1].file), Setting(last).value)
  BY DEF LastMapping
<1> HIDE DEF last
<1> QED
  BY <1>1, <1>2, <1>3

LEMMA UsedMapped == ConfigIInv => InputsMapped
<1> SUFFICES ASSUME ConfigIInv, Used PROVE InputsMapped
  BY DEF InputsMapped
<1> DEFINE all == Places named == Of(all, "input") mappings == Of(all, "mapping")
<1>1. Texts /\ Follows /\ AllRead /\ Derived
  BY DEF Used, ConfigIInv, Going, AllRead, Derived
<1>2. /\ DOMAIN Told = {x \in all : Setting(x).name # "config"}
      /\ \A p \in DOMAIN Told : /\ Told[p].name = Setting(p).name /\ Told[p].value = Setting(p).value
                                /\ Told[p].path = get_path(Files(p[1].file), Setting(p).value)
  BY <1>1, AllTold DEF Entry
<1>3. named = Called(Told, "input") /\ mappings = Called(Told, "mapping")
  BY <1>2 DEF Of, Called
<1>5. \A S, path : S \subseteq mappings /\ PathIs(DefaultPath, Told, S, path) => path = LastMapping(S)
  <2> SUFFICES ASSUME NEW S, NEW path, S \subseteq Called(Told, "mapping"), PathIs(DefaultPath, Told, S, path)
               PROVE  path = LastMapping(S)
    BY <1>3, Zenon
  <2> HIDE DEF mappings
  <2>1. CASE S = {} /\ path = DefaultPath
    BY <2>1 DEF LastMapping, DefaultPath
  <2>2. CASE \E q : Newest(S) = {q} /\ path = Told[q].path
    <3>1. PICK q : Newest(S) = {q} /\ path = Told[q].path
      BY <2>2
    <3>2. q \in S /\ q \in DOMAIN Told
      BY <3>1 DEF Newest, Called
    <3>3. path = get_path(Files(q[1].file), Setting(q).value)
      BY <1>2, <3>1, <3>2
    <3> QED
      BY <3>1, <3>3, LastMappingIs
  <2> QED
    BY <2>1, <2>2 DEF PathIs
<1>6. PICK at : OpenedAt(DefaultPath, Told, inputs, at)
  BY <1>1 DEF Follows, InputsTold
<1>7. /\ at \in [DOMAIN inputs -> named]
      /\ \A p \in named : \E k \in DOMAIN at : at[k] = p
      /\ \A j, k \in DOMAIN at : j < k => Before(at[j], at[k])
  BY <1>3, <1>6 DEF OpenedAt
<1>8. ASSUME NEW k \in DOMAIN at
      PROVE  inputs[k] = [path |-> Setting(at[k]).value,
                          mapping |-> LastMapping({q \in mappings : Before(q, at[k])})]
  <2> HIDE DEF mappings, named, all
  <2>1. k \in DOMAIN inputs /\ at[k] \in DOMAIN Told
    BY <1>3, <1>7 DEF Called
  <2>2. /\ inputs[k] = [path |-> Told[at[k]].value, mapping |-> inputs[k].mapping]
        /\ PathIs(DefaultPath, Told, {q \in Called(Told, "mapping") : Before(q, at[k])}, inputs[k].mapping)
    BY <1>6, <2>1 DEF OpenedAt, OneOpenedAt
  <2>3. inputs[k].mapping = LastMapping({q \in mappings : Before(q, at[k])})
    BY <1>3, <1>5, <2>2
  <2> QED
    BY <1>2, <2>1, <2>2, <2>3
<1>9. (inputAdded <=> named # {}) /\ mapping = LastMapping(mappings)
  BY <1>1, <1>3, <1>5 DEF Follows, InputsTold
<1> QED
  BY <1>7, <1>8, <1>9 DEF InputsMapped

(* Every input is opened in its turn, with the mapping that was named last *)
(* before it, in whatever files either of them is (parse_argument's        *)
(* inputs and mapping); without any, devices are opened as they are found, *)
(* with the mapping that was named last (main's udev_init); for all files, *)
(* options and numbers of inputs.                                          *)
THEOREM InputsAlwaysMapped == ConfigSpec => []InputsMapped
BY ConfigSpecIInv, UsedMapped, PTL

----------------------------------------------------------------------------
(* A run that is given nothing but a file that was saved.                  *)

Reloads(file, lines) ==
    /\ disk = found /\ file \in DOMAIN disk /\ disk[file] = lines
    /\ typed = <<[name |-> "config", value |-> file]>>

LEMMA SavedFieldIs ==
    /\ SavedField \subseteq Common \cup {"bitrate"}
    /\ SavedField \ {"sops", "localaudio"} \subseteq required_argument \cap Field
    /\ SavedField \cap {"address", "config", "", "save"} = {}
    /\ (SavedField \ {"sops", "localaudio"}) \cap no_argument = {}
BY FieldIs DEF SavedField, Common, required_argument, no_argument

Switches(conf) == conf["sops"] \in BOOLEAN /\ conf["localaudio"] \in BOOLEAN

(* A saved line says of its field what it was saved from.                  *)
LEMMA LineSays ==
    ASSUME NEW conf, Switches(conf),
           NEW f \in SavedField, NEW p, Setting(p) = LineToSave(conf, f), Last(p).file # argv
    PROVE  DOMAIN Says(p) = {f} /\ Says(p)[f] = conf[f]
<1>1. Setting(p).name = f
  BY DEF LineToSave
<1>2. CASE f \in {"sops", "localaudio"}
  <2>1. Setting(p).value = IF conf[f] THEN "true" ELSE "false"
    BY <1>2 DEF LineToSave
  <2>2. Says(p) = [x \in {f} |-> Setting(p).value = "true"]
    BY <1>1, <1>2 DEF Says
  <2>3. conf[f] \in BOOLEAN
    BY <1>2 DEF Switches
  <2>4. (Setting(p).value = "true") = conf[f]
    BY <2>1, <2>3
  <2> QED
    BY <2>2, <2>4
<1>3. CASE f \notin {"sops", "localaudio"}
  <2>1. Setting(p).value = conf[f]
    BY <1>3 DEF LineToSave
  <2>2. f \in required_argument \cap Field /\ f \notin {"address", "sops", "localaudio", ""} \cup no_argument
    BY <1>3, SavedFieldIs
  <2>3. Says(p) = Sets(f, Setting(p).value)
    BY <1>1, <2>2 DEF Says
  <2>4. f # "720" /\ f # "1080" /\ f # "30fps" /\ f # "60fps" /\ f # "nosops"
    BY <2>2 DEF no_argument
  <2>5. Sets(f, Setting(p).value) = [x \in {f} |-> Setting(p).value]
    <3>1. f \in required_argument \cap Field /\ f \notin no_argument \cap Field
      BY <2>2
    <3> QED
      BY <2>4, <3>1 DEF Sets
  <2> QED
    BY <2>1, <2>3, <2>5
<1> QED
  BY <1>2, <1>3

LEMMA ReloadedFiles ==
    ASSUME Texts, NEW file, NEW lines, Reloads(file, lines)
    PROVE  /\ argv \in Tops /\ file # argv /\ file \in DOMAIN Files(argv) /\ argv \in DOMAIN Files(argv)
           /\ Files(argv)[file] = lines /\ Files(argv)[argv] = typed
           /\ typed[1].name = "config" /\ typed[1].value = file /\ DOMAIN typed = {1}
<1>1. argv[1] # "hosts"
  BY DEF argv
<1>2. file # argv
  BY NotFiles DEF Reloads
<1> QED
  BY <1>1, <1>2 DEF Reloads, Files, Tops

(* Whatever else is typed would be in the lines of the file.               *)
LEMMA ReloadedLeaf ==
    ASSUME Texts, NEW file, NEW lines, Reloads(file, lines),
           \A n \in DOMAIN lines : lines[n].name # "config",
           NEW p \in Leaves, p[1].file = argv
    PROVE  \E n \in DOMAIN lines : Setting(p) = lines[n] /\ Last(p).file # argv
<1>1. /\ IsPlace(Files(argv), p) /\ Files(argv)[p[Len(p)].file][p[Len(p)].line].name # "config"
  BY LeafIs
<1>2. IsChain(p) /\ Len(p) \in Nat \ {0} /\ MaxOpen \in Nat
  <2>1. MaxOpen \in Nat \ {0}
    BY ConfigAssumption
  <2> QED
    BY <1>1, <2>1 DEF IsPlace
<1>3. \A i \in 1 .. Len(p) : p[i].file \in DOMAIN Files(argv) /\ p[i].line \in DOMAIN Files(argv)[p[i].file]
  BY <1>1 DEF IsPlace
<1>4. \A i \in 1 .. Len(p) - 1 :
        /\ Files(argv)[p[i].file][p[i].line].name = "config"
        /\ p[i + 1].file = Files(argv)[p[i].file][p[i].line].value
  BY <1>1 DEF IsPlace
<1>5. p[1].line = 1
  <2>1. 1 \in 1 .. Len(p)
    BY <1>2
  <2> QED
    BY <1>3, <2>1, ReloadedFiles
<1>6. Len(p) # 1
  BY <1>1, <1>5, ReloadedFiles
<1>7. 1 \in 1 .. Len(p) - 1 /\ 2 \in 1 .. Len(p)
  <2>1. PICK k \in Nat \ {0} : k = Len(p)
    BY <1>2
  <2>2. k >= 2
    BY <1>6, <2>1
  <2> QED
    BY <2>1, <2>2
<1>8. p[2].file = file /\ p[2].line \in DOMAIN lines
  <2>1. p[2].file = file
    BY <1>4, <1>5, <1>7, ReloadedFiles
  <2> QED
    BY <1>3, <1>7, <2>1, ReloadedFiles
<1>9. Len(p) = 2
  <2>1. CASE Len(p) > 2
    <3>1. 2 \in 1 .. Len(p) - 1
      BY <1>2, <2>1
    <3> QED
      BY <1>4, <1>8, <3>1, ReloadedFiles
  <2>2. PICK k \in Nat : k = Len(p)
    BY <1>2
  <2> QED
    BY <1>2, <1>6, <2>1, <2>2
<1>10. Last(p) = p[2] /\ Setting(p) = lines[p[2].line]
  BY <1>8, <1>9, ReloadedFiles DEF Last, Setting, LineOf
<1> QED
  BY <1>8, <1>10, ReloadedFiles

(* Every line that was saved is a place.                                   *)
LEMMA ReloadedPlace ==
    ASSUME Texts, NEW file, NEW lines, Reloads(file, lines),
           NEW n \in DOMAIN lines, lines[n].name # "config", NEW p,
           p = <<[file |-> argv, line |-> 1], [file |-> file, line |-> n]>>
    PROVE  p \in Leaves /\ p[1].file = argv /\ Setting(p) = lines[n] /\ Last(p).file # argv
<1>1. MaxOpen \in Nat \ {0}
  BY ConfigAssumption
<1>2. Len(p) = 2 /\ p[1] = [file |-> argv, line |-> 1] /\ p[2] = [file |-> file, line |-> n] /\ DOMAIN p = 1 .. 2
  OBVIOUS
<1>3. n \in Nat
  <2>1. IsText(lines)
    BY DEF Reloads, Texts
  <2> QED
    BY <2>1 DEF IsText
<1>4. IsChain(p)
  BY <1>2, <1>3 DEF IsChain, IsSpot
<1>5. 2 \in 1 .. MaxOpen + 1
  BY <1>1
<1>6. \A i \in 1 .. 2 : p[i].file \in DOMAIN Files(argv) /\ p[i].line \in DOMAIN Files(argv)[p[i].file]
  <2>1. /\ argv \in DOMAIN Files(argv) /\ 1 \in DOMAIN Files(argv)[argv]
        /\ file \in DOMAIN Files(argv) /\ n \in DOMAIN Files(argv)[file]
    BY ReloadedFiles
  <2> QED
    BY <1>2, <2>1
<1>7. IsPlace(Files(argv), p)
  <2>1. \A i \in 1 .. 2 - 1 : i = 1
    OBVIOUS
  <2>2. Files(argv)[argv][1].name = "config" /\ file = Files(argv)[argv][1].value /\ file # argv
    BY ReloadedFiles
  <2>3. \A i \in 1 .. Len(p) - 1 :
          LET s == Files(argv)[p[i].file][p[i].line]
          IN s.name = "config" /\ p[i + 1].file = s.value /\ s.value # argv
    <3> SUFFICES ASSUME NEW i \in 1 .. Len(p) - 1
                 PROVE  /\ Files(argv)[p[i].file][p[i].line].name = "config"
                        /\ p[i + 1].file = Files(argv)[p[i].file][p[i].line].value
                        /\ Files(argv)[p[i].file][p[i].line].value # argv
      OBVIOUS
    <3>1. i = 1
      BY <1>2, <2>1
    <3>2. p[i].file = argv /\ p[i].line = 1 /\ p[i + 1].file = file
      BY <1>2, <3>1
    <3> QED
      BY <2>2, <3>2
  <2> QED
    BY <1>2, <1>4, <1>5, <1>6, <2>3 DEF IsPlace
<1>8. Last(p) = p[2] /\ Setting(p) = lines[n]
  BY <1>2, ReloadedFiles DEF Last, Setting, LineOf
<1> QED
  BY <1>2, <1>7, <1>8, PlacesAre, ReloadedFiles DEF Leaves

(* All of them are lines of one of the eight fields.                       *)
LEMMA ReloadedSays ==
    ASSUME Texts, NEW file, NEW conf, Switches(conf), Reloads(file, LinesToSave(conf)),
           NEW p \in Leaves, p[1].file = argv
    PROVE  \E g \in SavedField : /\ conf[g] # Default[g] /\ Setting(p).name = g
                                 /\ DOMAIN Says(p) = {g} /\ Says(p)[g] = conf[g]
<1>1. PICK lines : lines = LinesToSave(conf)
  OBVIOUS
<1>2. \A n \in DOMAIN lines : \E g \in SavedField : conf[g] # Default[g] /\ lines[n] = LineToSave(conf, g)
  BY <1>1, LinesAre
<1>3. \A g \in SavedField : LineToSave(conf, g).name = g /\ g # "config"
  BY SavedFieldIs DEF LineToSave
<1>4. \A n \in DOMAIN lines : lines[n].name # "config"
  BY <1>2, <1>3
<1>5. PICK n \in DOMAIN lines : Setting(p) = lines[n] /\ Last(p).file # argv
  BY <1>1, <1>4, ReloadedLeaf
<1>6. PICK g \in SavedField : conf[g] # Default[g] /\ lines[n] = LineToSave(conf, g)
  BY <1>2
<1>7. DOMAIN Says(p) = {g} /\ Says(p)[g] = conf[g]
  <2>1. Setting(p) = LineToSave(conf, g) /\ Last(p).file # argv /\ Switches(conf)
    BY <1>5, <1>6
  <2> QED
    BY <2>1, LineSays
<1> QED
  BY <1>3, <1>5, <1>6, <1>7

Reloading ==
    /\ stage \in {"save", "derive"} /\ saved # NULL /\ disk = found
    /\ typed = <<[name |-> "config", value |-> saved.file]>>

LEMMA ReloadingIs ==
    ASSUME ConfigIInv, Reloading
    PROVE  /\ Texts /\ Phase /\ Follows /\ Reloads(saved.file, LinesToSave(saved.config))
           /\ Switches(saved.config) /\ AllRead /\ ~Derived /\ host_config_file = Nowhere
           /\ DOMAIN Told = Leaves /\ \A p \in Leaves : Told[p] = Entry(p) /\ Entry(p).says = Says(p)
<1>1. /\ Texts /\ Phase /\ Follows /\ Reloads(saved.file, LinesToSave(saved.config))
      /\ Switches(saved.config)
  BY DEF ConfigIInv, Going, SavedIs, Reloads, Switches, Reloading
<1>2. AllRead /\ ~Derived /\ host_config_file = Nowhere
  BY <1>1 DEF AllRead, Derived, Phase, Reloading
<1>3. DOMAIN Told = Leaves /\ \A p \in Leaves : Told[p] = Entry(p) /\ Entry(p).says = Says(p)
  BY <1>2, AllHeard DEF Told, Entry
<1> QED
  BY <1>1, <1>2, <1>3

(* A field that is not saved is what the other files say.                  *)
LEMMA ReloadedOther ==
    ASSUME ConfigIInv, Reloading, NEW f \in Field \ (SavedField \cup {"action", "forcehw"})
    PROVE  config[f] = LastSaid({p \in Places : p[1].file # argv}, f)
<1> DEFINE others == {p \in Places : p[1].file # argv}
           T == [p \in {x \in others : Setting(x).name # "config"} |-> Entry(p)]
<1>1. Counts(Told, f, config[f])
  <2>1. f \in Common \cup {"keydir", "address", "forcehevc"}
    BY FieldIs DEF Common, SavedField
  <2> QED
    BY <2>1, ReloadingIs DEF Follows, FieldsTold, AddressTold, SystemTold, Derived, Reloading
<1>2. ASSUME NEW p \in Leaves, p[1].file = argv
      PROVE  f \notin DOMAIN Says(p)
  <2>1. PICK file, conf : file = saved.file /\ conf = saved.config
    OBVIOUS
  <2>2. Texts /\ Switches(conf) /\ Reloads(file, LinesToSave(conf))
    BY <2>1, ReloadingIs
  <2>3. PICK g \in SavedField : DOMAIN Says(p) = {g}
    BY <1>2, <2>2, ReloadedSays
  <2> QED
    BY <2>3
<1>3. DOMAIN T = {p \in Leaves : p[1].file # argv} /\ \A p \in DOMAIN T : T[p] = Told[p]
  BY ReloadingIs DEF Leaves
<1> HIDE DEF T
<1>4. Sayers(T, f) = Sayers(Told, f)
  BY <1>2, <1>3, ReloadingIs DEF Sayers
<1>5. Lasts(T, f) = Lasts(Told, f)
  BY <1>4 DEF Lasts
<1>6. Counts(T, f, config[f])
  <2>1. CASE Sayers(Told, f) = {} /\ config[f] = Default[f]
    BY <1>4, <2>1 DEF Counts
  <2>2. CASE \E p : Lasts(Told, f) = {p} /\ config[f] = Told[p].says[f]
    <3>1. PICK p : Lasts(Told, f) = {p} /\ config[f] = Told[p].says[f]
      BY <2>2
    <3>2. p \in DOMAIN T
      BY <1>5, <3>1 DEF Lasts, Sayers
    <3> QED
      BY <1>3, <1>5, <3>1, <3>2 DEF Counts
  <2> QED
    BY <1>1, <2>1, <2>2 DEF Counts
<1>7. LastSaid(others, f) = config[f]
  BY <1>6, LastIs DEF T
<1> QED
  BY <1>7

LEMMA ReloadedField ==
    ASSUME ConfigIInv, Reloading, NEW f \in SavedField
    PROVE  \/ config[f] = saved.config[f]
           \/ saved.config[f] = Default[f] /\ \E p \in Places : p[1].file # argv /\ f \in DOMAIN Says(p)
<1>1. PICK file, lines, conf : file = saved.file /\ conf = saved.config /\ lines = LinesToSave(conf)
  OBVIOUS
<1>2. Texts /\ Phase /\ Follows /\ Reloads(file, lines) /\ Switches(conf)
  BY <1>1, ReloadingIs
<1>3. AllRead /\ ~Derived /\ host_config_file = Nowhere
  BY ReloadingIs
<1>4. Counts(Told, f, config[f])
  BY <1>2, <1>3, SavedFieldIs DEF Follows, FieldsTold, RateTold
<1>5. DOMAIN Told = Leaves /\ \A p \in Leaves : Told[p].says = Says(p)
  BY ReloadingIs
<1>6. /\ \A n \in DOMAIN lines : \E g \in SavedField : conf[g] # Default[g] /\ lines[n] = LineToSave(conf, g)
      /\ \A g \in SavedField : conf[g] # Default[g] => \E n \in DOMAIN lines : lines[n] = LineToSave(conf, g)
  BY <1>1, LinesAre
<1>7. \A n \in DOMAIN lines : lines[n].name # "config"
  <2>1. \A g \in SavedField : LineToSave(conf, g).name = g /\ g # "config"
    BY SavedFieldIs DEF LineToSave
  <2> QED
    BY <1>6, <2>1
<1>8. ASSUME NEW p \in Leaves, p[1].file = argv, f \in DOMAIN Says(p)
      PROVE  Says(p)[f] = conf[f] /\ conf[f] # Default[f]
  <2>1. Texts /\ Switches(conf) /\ Reloads(file, LinesToSave(conf))
    BY <1>1, <1>2
  <2>2. PICK g \in SavedField : conf[g] # Default[g] /\ DOMAIN Says(p) = {g} /\ Says(p)[g] = conf[g]
    BY <1>8, <2>1, ReloadedSays
  <2> QED
    BY <1>8, <2>2
<1>9. CASE Sayers(Told, f) = {} /\ config[f] = Default[f]
  <2>1. CASE conf[f] = Default[f]
    BY <1>1, <1>9, <2>1
  <2>2. CASE conf[f] # Default[f]
    <3>1. PICK n \in DOMAIN lines : lines[n] = LineToSave(conf, f)
      BY <1>6, <2>2
    <3>2. PICK q : q = <<[file |-> argv, line |-> 1], [file |-> file, line |-> n]>>
      OBVIOUS
    <3>3. q \in Leaves /\ Setting(q) = lines[n] /\ Last(q).file # argv
      BY <1>2, <1>7, <3>2, ReloadedPlace
    <3>4. f \in DOMAIN Says(q)
      <4>1. Setting(q) = LineToSave(conf, f)
        BY <3>1, <3>3
      <4>2. Switches(conf) /\ Last(q).file # argv
        BY <1>2, <3>3
      <4>3. DOMAIN Says(q) = {f}
        BY <4>1, <4>2, LineSays
      <4> QED
        BY <4>3
    <3> QED
      BY <1>5, <1>9, <3>3, <3>4 DEF Sayers
  <2> QED
    BY <2>1, <2>2
<1>10. CASE \E p : Lasts(Told, f) = {p} /\ config[f] = Told[p].says[f]
  <2>1. PICK p : Lasts(Told, f) = {p} /\ config[f] = Told[p].says[f]
    BY <1>10
  <2>2. p \in Leaves /\ f \in DOMAIN Says(p) /\ config[f] = Says(p)[f]
        /\ \A q \in Leaves : f \in DOMAIN Says(q) => ~Before(p, q)
    BY <1>5, <2>1 DEF Lasts, Sayers
  <2>3. CASE p[1].file = argv
    BY <1>1, <1>8, <2>2, <2>3
  <2>4. CASE p[1].file # argv /\ conf[f] = Default[f]
    BY <1>1, <2>2, <2>4 DEF Leaves
  <2>5. CASE p[1].file # argv /\ conf[f] # Default[f]
    <3>1. PICK n \in DOMAIN lines : lines[n] = LineToSave(conf, f)
      BY <1>6, <2>5
    <3>2. PICK q : q = <<[file |-> argv, line |-> 1], [file |-> file, line |-> n]>>
      OBVIOUS
    <3>3. q \in Leaves /\ Setting(q) = lines[n] /\ Last(q).file # argv /\ q[1].file = argv
      BY <1>2, <1>7, <3>2, ReloadedPlace
    <3>4. f \in DOMAIN Says(q)
      <4>1. Setting(q) = LineToSave(conf, f)
        BY <3>1, <3>3
      <4>2. Switches(conf) /\ Last(q).file # argv
        BY <1>2, <3>3
      <4>3. DOMAIN Says(q) = {f}
        BY <4>1, <4>2, LineSays
      <4> QED
        BY <4>3
    <3>5. Before(p, q)
      <4>1. Rank(p[1].file) = 1
        <5>1. p[1].file \in Tops
          BY <1>2, <2>2, LeafIs
        <5>2. p[1].file # host_config_file
          BY <1>2, <1>3, <5>1, TopsAreFiles
        <5> QED
          BY <1>2, <2>5, <5>1, <5>2, TopsAre
      <4>2. Rank(q[1].file) = 2
        <5>1. q[1].file \in Tops
          BY <1>2, <3>3, LeafIs
        <5>2. argv \in Tops /\ argv[1] # "hosts"
          BY DEF Tops, argv
        <5> QED
          BY <3>3, <5>2 DEF Rank
      <4>3. 1 \in DOMAIN p \cap DOMAIN q
        <5>1. IsPlace(Files(p[1].file), p) /\ IsPlace(Files(q[1].file), q)
          BY <1>2, <2>2, <3>3, LeafIs
        <5>2. MaxOpen \in Nat \ {0}
          BY ConfigAssumption
        <5> QED
          BY <5>1, <5>2 DEF IsPlace, IsChain
      <4> QED
        BY <4>1, <4>2, <4>3 DEF Before, Earlier
    <3> QED
      BY <2>2, <3>3, <3>4, <3>5
  <2> QED
    BY <2>3, <2>4, <2>5
<1> QED
  BY <1>4, <1>9, <1>10 DEF Counts

LEMMA Reloaded == ConfigIInv => SavedLoads
<1> DEFINE others == {p \in Places : p[1].file # argv}
<1> SUFFICES ASSUME ConfigIInv, Reloading
             PROVE  /\ \A f \in SavedField :
                         \/ config[f] = saved.config[f]
                         \/ saved.config[f] = Default[f] /\ \E p \in others : f \in DOMAIN Says(p)
                    /\ \A f \in Field \ (SavedField \cup {"action", "forcehw"}) : config[f] = LastSaid(others, f)
                    /\ \A p \in Places : Setting(p).name \in {"input", "mapping"} => p \in others
  BY DEF SavedLoads, Reloading
<1>1. ASSUME NEW f \in SavedField
      PROVE  \/ config[f] = saved.config[f]
             \/ saved.config[f] = Default[f] /\ \E p \in others : f \in DOMAIN Says(p)
  BY ReloadedField
<1>2. \A f \in Field \ (SavedField \cup {"action", "forcehw"}) : config[f] = LastSaid(others, f)
  BY ReloadedOther
<1>3. ASSUME NEW p \in Places, Setting(p).name \in {"input", "mapping"}
      PROVE  p[1].file # argv
  <2>1. p \in Leaves
    BY <1>3 DEF Leaves
  <2>2. PICK file, conf : file = saved.file /\ conf = saved.config
    OBVIOUS
  <2>3. Texts /\ Switches(conf) /\ Reloads(file, LinesToSave(conf))
    BY <2>2, ReloadingIs
  <2>4. ASSUME p[1].file = argv
        PROVE  \E g \in SavedField : Setting(p).name = g
    BY <2>1, <2>3, <2>4, ReloadedSays
  <2> QED
    BY <1>3, <2>4 DEF SavedField
<1> QED
  BY <1>1, <1>2, <1>3

(* A run that is given nothing but a file that was saved to the end has    *)
(* the eight fields that config_save writes as in the run that saved them, *)
(* but for those of them that have their default value where the file that *)
(* is always read says otherwise; and it has nothing else of that run, but *)
(* what the file that is always read says of the other fields, the inputs  *)
(* and the mapping.  For all files there may be, and all there were then.  *)
THEOREM SavedAlwaysLoads == ConfigSpec => []SavedLoads
BY ConfigSpecIInv, Reloaded, PTL

----------------------------------------------------------------------------
(* A status names a game only when the host said it was busy.              *)
LEMMA StatusOfIdle ==
    ASSUME NEW g, NEW status \in Statuses(TRUE, g, FALSE)
    PROVE  status.currentGame = NoGame
<1>1. PICK https \in HttpsReplies(TRUE, g, FALSE), http \in HttpReplies(g, FALSE) :
        status = LoadServerStatus(https, http)
  BY DEF Statuses
<1>2. \A r \in HttpsReplies(TRUE, g, FALSE) \cup HttpReplies(g, FALSE) : r.available = TRUE
  BY DEF HttpsReplies, HttpReplies, Failures, Fields
<1>3. \A r \in HttpsReplies(TRUE, g, FALSE) \cup HttpReplies(g, FALSE) :
        Parsed(r).currentGame = NoGame
  BY <1>2 DEF Parsed
<1> QED
  BY <1>1, <1>3 DEF LoadServerStatus

----------------------------------------------------------------------------
(* The inductive invariant.  What is remembered of the host goes with what *)
(* it said; whoever made something wait for the loop had asked; from where *)
(* signals are blocked on, the main thread is known and they are.          *)
Remembers ==
    /\ pc \in {"pair_check", "inputs", "gs_applist", "gs_start_app"} =>
         (server.currentGame # NoGame => sawBusy)
    /\ pc = "resume" => sawBusy

Asked ==
    /\ pending # {} \/ chord => asked # {}
    /\ pc \in {"evdev_stop", "LiStopConnection", "return"} => asked # {}

Stopped ==
    /\ pc \in {"LiStopConnection", "return"} => ~grabbed
    /\ pc = "return" => running = {}
    /\ fate = "returned" => running = {} /\ ~grabbed

Blocked ==
    /\ pc \in {"sigprocmask", "signalfd"} \/ InTheLoop => mainId
    /\ pc = "signalfd" \/ InTheLoop => masked

IInv == Remembers /\ Asked /\ Stopped /\ Blocked

LEMMA InitIInv == Init => IInv
BY DEF Init, IInv, Remembers, Asked, Stopped, Blocked, InTheLoop

(* The host on its own, and the program up to the connection.              *)
LEMMA PrepareIInv ==
    ASSUME IInv, HostOnItsOwn \/ HostAnswers \/ Prepare \/ StreamFails
    PROVE  IInv'
<1> USE DEF Remembers, Asked, Stopped, Blocked, InTheLoop, hostVars, loopVars, connVars,
            userVars, gameVars
<1>1. CASE HostOnItsOwn \/ HostAnswers
  BY <1>1 DEF IInv, HostOnItsOwn, HostAnswers
<1>2. CASE GsInit
  <2>1. PICK status \in Statuses(TRUE, game, busy) : server' = status
    BY <1>2 DEF GsInit
  <2>2. sawBusy' = busy /\ pc' = "pair_check" /\ pc = "gs_init"
    BY <1>2 DEF GsInit, Goes
  <2>3. busy = FALSE => server'.currentGame = NoGame
    BY <2>1, StatusOfIdle
  <2>4. Remembers'
    BY <2>2, <2>3
  <2> QED
    BY <1>2, <2>2, <2>4 DEF IInv, GsInit, Quietly
<1>3. CASE PairCheck \/ Inputs \/ GetAppId
  BY <1>3 DEF IInv, PairCheck, Inputs, GetAppId, Goes, Quietly
<1>4. CASE StartApp
  BY <1>4 DEF IInv, StartApp, Goes, Quietly
<1>5. CASE StartAppReturns
  BY <1>5 DEF IInv, StartAppReturns, Goes, Quietly
<1>6. CASE StreamFails
  BY <1>6 DEF IInv, StreamFails, Fails, Goes
<1> QED
  BY <1>1, <1>2, <1>3, <1>4, <1>5, <1>6 DEF Prepare

(* The connection and the loop.                                            *)
LEMMA LoopIInv ==
    ASSUME IInv, StartThread \/ StartConnection \/ Loop
    PROVE  IInv'
<1> USE DEF IInv, Remembers, Asked, Stopped, Blocked, InTheLoop, hostVars, loopVars,
            connVars, userVars, gameVars, Goes, Quietly, Alive
<1>1. CASE StartThread \/ StartConnection
  BY <1>1 DEF StartThread, StartConnection
<1>2. CASE EvdevStart \/ LoopThreadId
  BY <1>2 DEF EvdevStart, LoopThreadId
<1>3. CASE LoopMask \/ LoopSignalfd
  BY <1>3 DEF LoopMask, LoopSignalfd
<1>4. CASE LoopSigHandler
  BY <1>4 DEF LoopSigHandler
<1>5. CASE LoopChord
  BY <1>5 DEF LoopChord
<1>6. CASE EvdevStop
  BY <1>6 DEF EvdevStop
<1>7. CASE StopConnection
  BY <1>7 DEF StopConnection
<1>8. CASE Return
  BY <1>8 DEF Return
<1> QED
  BY <1>1, <1>2, <1>3, <1>4, <1>5, <1>6, <1>7, <1>8 DEF Loop, LoopReturns

(* A thread that reports the loss of the connection: once the signals are  *)
(* blocked, that goes on with the run.                                     *)
LEMMA LossIInv ==
    ASSUME IInv, NEW w \in Worker, ConnectionTerminated(w)
    PROVE  IInv' /\ (InTheLoop => fate' = "running")
<1>1. /\ Alive /\ w \in running /\ running' = running \ {w} /\ asked' # {}
      /\ UNCHANGED <<pc, sawBusy, server, mainId, masked, grabbed, chord>>
  BY DEF ConnectionTerminated, gameVars, loopVars
<1>2. fate' \in {"running", "undefined", "killed"}
  BY <1>1 DEF ConnectionTerminated, Quit, Alive
<1>3. InTheLoop => fate' = "running"
  BY <1>1 DEF ConnectionTerminated, Quit, Alive, IInv, Blocked
<1> QED
  BY <1>1, <1>2, <1>3 DEF IInv, Remembers, Asked, Stopped, Blocked, InTheLoop

LEMMA UserIInv ==
    ASSUME IInv, Signal \/ TypeChord
    PROVE  IInv'
BY DEF Signal, TypeChord, IInv, Remembers, Asked, Stopped, Blocked, InTheLoop, hostVars,
       loopVars, connVars, gameVars, Alive

LEMMA NextIInv == IInv /\ [Next]_vars => IInv'
<1> SUFFICES ASSUME IInv, [Next]_vars PROVE IInv'
  OBVIOUS
<1>1. CASE HostOnItsOwn \/ HostAnswers \/ Prepare \/ StreamFails
  BY <1>1, PrepareIInv
<1>2. CASE StartThread \/ StartConnection \/ Loop
  BY <1>2, LoopIInv
<1>3. CASE Around
  BY <1>3, LossIInv, UserIInv DEF Around
<1>4. CASE UNCHANGED vars
  BY <1>4 DEF vars, IInv, Remembers, Asked, Stopped, Blocked, InTheLoop
<1> QED
  BY <1>1, <1>2, <1>3, <1>4 DEF Next

LEMMA SpecIInv == Spec => []IInv
BY InitIInv, NextIInv, PTL DEF Spec

----------------------------------------------------------------------------
(* The theorems.                                                           *)

(* gs_start_app resumes only what was being streamed when gs_init asked,   *)
(* whatever game the host goes on naming.                                  *)
THEOREM OnlyRunningResumed == Spec => []ResumesWhatRan
<1>1. IInv => ResumesWhatRan
  BY DEF IInv, Remembers, ResumesWhatRan
<1> QED
  BY <1>1, SpecIInv, PTL

(* main leaves the loop for a reason, and returns with every thread of the *)
(* connection ended and the input devices given back.                      *)
THEOREM ReturnsClean == Spec => []CleanReturn
<1>1. IInv => CleanReturn
  BY DEF IInv, Asked, Stopped, CleanReturn
<1> QED
  BY <1>1, SpecIInv, PTL

(* quit of global.c: once loop_main is reached, the signal by which a lost *)
(* connection ends the run never kills it, whichever thread reports it.    *)
THEOREM LossStaysOrderly == Spec => LossIsOrderly
<1>1. ASSUME IInv, [Next]_vars, InTheLoop, lost' # lost PROVE fate' = "running"
  <2>1. \E w \in Worker : ConnectionTerminated(w)
    BY <1>1 DEF Next, HostOnItsOwn, HostAnswers, Prepare, GsInit, PairCheck, Inputs,
         GetAppId, StartApp, StartAppReturns, StreamFails, Fails, StartThread,
         StartConnection, Loop, EvdevStart, LoopThreadId, LoopMask, LoopSignalfd,
         LoopReturns, LoopSigHandler, LoopChord, EvdevStop, StopConnection, Return,
         Around, Signal, TypeChord, Quietly, connVars, vars
  <2> QED
    BY <1>1, <2>1, LossIInv
<1> DEFINE Orderly == (InTheLoop /\ lost' # lost) => fate' = "running"
<1>2. IInv /\ [Next]_vars => [Orderly]_vars
  BY <1>1
<1> QED
  BY <1>2, SpecIInv, PTL DEF Spec, LossIsOrderly
===============================================================================
