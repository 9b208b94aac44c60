---------------------------- MODULE GamestreamProofs ----------------------------
(***************************************************************************)
(* Proofs about what libgamestream keeps on disk and what it reads of the  *)
(* host.  KeyStore, for any number of runs of the program, each ended      *)
(* wherever it may be: a run that ends well has one identity, and one that *)
(* is complete on disk stays.  AppList, for any texts, apps and other      *)
(* elements: the handlers find in a document what it says.                 *)
(***************************************************************************)
EXTENDS KeyStore, AppList, TLAPS

----------------------------------------------------------------------------
(* The identity on disk.                                                   *)

(* As long as no two runs write at once, only one of them is writing; what *)
(* it finds on disk goes with where it is; and the certificate file of a   *)
(* run that read it is still there.                                        *)
OneWriter == \A r, q \in Run : pc[r] \in Writing /\ pc[q] \in Writing => r = q

FilesFit ==
    \/ cert_file = Absent /\ key_file = Absent
    \/ cert_file = Empty /\ key_file \in {Absent, Empty}
    \/ cert_file \in Run /\ key_file \in {Empty, cert_file}

WriterAt(r) ==
    /\ pc[r] = "open_id" => unique_file = Absent
    /\ pc[r] = "close_id" => unique_file = Empty
    /\ pc[r] = "open_cert" => cert_file = Absent
    /\ pc[r] = "open_key" => cert_file = Empty /\ key_file = Absent
    /\ pc[r] = "close_cert" => cert_file = Empty /\ key_file = Empty
    /\ pc[r] = "close_key" => cert_file = r /\ key_file = Empty

ReaderAt(r) ==
    /\ pc[r] \in {"read_hex", "load_key", "ok"} => cert_file \in Run /\ cert[r] = cert_file
    /\ pc[r] \in {"load_key", "ok"} => cert_hex[r] = cert_file
    /\ pc[r] = "ok" => privateKey[r] \in {Absent, cert_file}

KeyInv ==
    /\ KeyTypeOK
    /\ ~overlap => /\ OneWriter /\ FilesFit
                   /\ \A r \in Run : WriterAt(r) /\ ReaderAt(r)

LEMMA KeyInitInv == KeyInit => KeyInv
BY DEF KeyInit, KeyInv, KeyTypeOK, OneWriter, FilesFit, WriterAt, ReaderAt, Content, Writing,
       Generating, Ended

----------------------------------------------------------------------------
(* Every step keeps the types.                                             *)

LEMMA KeyTypeStep == KeyTypeOK /\ [KeyNext]_keyVars => KeyTypeOK'
<1> SUFFICES ASSUME KeyTypeOK, [KeyNext]_keyVars PROVE KeyTypeOK'
  OBVIOUS
<1> USE DEF KeyTypeOK, Content, Generating, Ended, Goes, keyFiles, identity
<1>1. ASSUME NEW r \in Run, KeyStep(r) PROVE KeyTypeOK'
  <2>1. CASE LoadUniqueId(r)
    BY <2>1 DEF LoadUniqueId, Writes
  <2>2. CASE OpenUniqueId(r)
    BY <2>2 DEF OpenUniqueId
  <2>3. CASE CloseUniqueId(r)
    BY <2>3 DEF CloseUniqueId
  <2>4. CASE LoadCert(r)
    BY <2>4 DEF LoadCert, Writes
  <2>5. CASE OpenCert(r)
    BY <2>5 DEF OpenCert
  <2>6. CASE OpenKey(r)
    BY <2>6 DEF OpenKey
  <2>7. CASE CloseCert(r)
    BY <2>7 DEF CloseCert, AfterClose
  <2>8. CASE CloseKey(r)
    BY <2>8 DEF CloseKey, AfterClose
  <2>9. CASE ReadCert(r)
    BY <2>9 DEF ReadCert
  <2>10. CASE ReadHex(r)
    BY <2>10 DEF ReadHex
  <2>11. CASE LoadKey(r)
    BY <2>11 DEF LoadKey
  <2>12. CASE Killed(r)
    BY <2>12 DEF Killed
  <2> QED
    BY <1>1, <2>1, <2>2, <2>3, <2>4, <2>5, <2>6, <2>7, <2>8, <2>9, <2>10, <2>11, <2>12
       DEF KeyStep
<1>2. CASE UNCHANGED keyVars
  BY <1>2 DEF keyVars
<1> QED
  BY <1>1, <1>2 DEF KeyNext


----------------------------------------------------------------------------
(* Every step keeps what goes with one writer at a time.                   *)

(* Two runs that write are known to overlap from the second's start.       *)
LEMMA WriterStep ==
    ASSUME KeyInv, NEW r \in Run, KeyStep(r), ~overlap'
    PROVE  ~overlap /\ OneWriter'
<1>1. ~overlap
  BY DEF KeyStep, LoadUniqueId, OpenUniqueId, CloseUniqueId, LoadCert, OpenCert, OpenKey,
         CloseCert, CloseKey, ReadCert, ReadHex, LoadKey, Killed, Writes
<1>2. OneWriter /\ pc \in [Run -> {"start", "open_id", "close_id", "load_cert", "read_cert",
                                   "read_hex", "load_key"} \cup Generating \cup Ended]
  BY <1>1 DEF KeyInv, KeyTypeOK
<1>3. \A q \in Run \ {r} : pc'[q] = pc[q]
  BY <1>2 DEF KeyStep, LoadUniqueId, OpenUniqueId, CloseUniqueId, LoadCert, OpenCert, OpenKey,
         CloseCert, CloseKey, ReadCert, ReadHex, LoadKey, Killed, Goes
<1>4. pc'[r] \in Writing => \/ pc[r] \in Writing
                            \/ \A q \in Run \ {r} : pc[q] \notin Writing
  <2> USE <1>2 DEF Writing, Generating, Ended, Goes
  <2>1. CASE LoadUniqueId(r) \/ LoadCert(r)
    BY <2>1 DEF LoadUniqueId, LoadCert, Writes
  <2>2. CASE OpenUniqueId(r) \/ CloseUniqueId(r) \/ OpenCert(r) \/ OpenKey(r)
             \/ CloseCert(r) \/ CloseKey(r)
    BY <2>2 DEF OpenUniqueId, CloseUniqueId, OpenCert, OpenKey, CloseCert, CloseKey
  <2>3. CASE ReadCert(r) \/ ReadHex(r) \/ LoadKey(r) \/ Killed(r)
    BY <2>3 DEF ReadCert, ReadHex, LoadKey, Killed
  <2> QED
    BY <2>1, <2>2, <2>3 DEF KeyStep
<1> QED
  BY <1>1, <1>2, <1>3, <1>4 DEF OneWriter


Kept ==
    /\ Complete => Complete' /\ cert_file' = cert_file
    /\ unique_file \in Run => unique_file' = unique_file

(* What the files hold goes with the writer there is; no other run writes, *)
(* and none that read a certificate sees it change.                        *)
LEMMA FilesStep ==
    ASSUME KeyInv, NEW r \in Run, KeyStep(r), ~overlap'
    PROVE  /\ FilesFit' /\ Kept
           /\ \A q \in Run : WriterAt(q)' /\ ReaderAt(q)'
<1>1. /\ ~overlap /\ OneWriter /\ FilesFit /\ KeyTypeOK
      /\ \A q \in Run : WriterAt(q) /\ ReaderAt(q)
  BY WriterStep DEF KeyInv
<1>2. \A q \in Run \ {r} : pc[r] \in Writing => pc[q] \notin Writing
  BY <1>1 DEF OneWriter
<1> USE StoreAssumption DEF KeyTypeOK, Content, Writing, Generating, Ended, Goes, keyFiles, identity,
        FilesFit, WriterAt, ReaderAt, Kept, Complete
<1>3. CASE LoadUniqueId(r)
  BY <1>1, <1>3 DEF LoadUniqueId
<1>4. CASE OpenUniqueId(r)
  BY <1>1, <1>2, <1>4 DEF OpenUniqueId
<1>5. CASE CloseUniqueId(r)
  BY <1>1, <1>2, <1>5 DEF CloseUniqueId
<1>6. CASE LoadCert(r)
  BY <1>1, <1>6 DEF LoadCert
<1>7. CASE OpenCert(r)
  BY <1>1, <1>2, <1>7 DEF OpenCert
<1>8. CASE OpenKey(r)
  BY <1>1, <1>2, <1>8 DEF OpenKey
<1>9. CASE CloseCert(r)
  BY <1>1, <1>2, <1>9 DEF CloseCert, AfterClose
<1>10. CASE CloseKey(r)
  BY <1>1, <1>2, <1>10 DEF CloseKey, AfterClose
<1>11. CASE ReadCert(r)
  BY <1>1, <1>11 DEF ReadCert
<1>12. CASE ReadHex(r)
  BY <1>1, <1>12 DEF ReadHex
<1>13. CASE LoadKey(r)
  BY <1>1, <1>13 DEF LoadKey
<1>14. CASE Killed(r)
  BY <1>1, <1>14 DEF Killed
<1> QED
  BY <1>3, <1>4, <1>5, <1>6, <1>7, <1>8, <1>9, <1>10, <1>11, <1>12, <1>13, <1>14 DEF KeyStep


LEMMA KeyNextInv == KeyInv /\ [KeyNext]_keyVars => KeyInv'
<1> SUFFICES ASSUME KeyInv, [KeyNext]_keyVars PROVE KeyInv'
  OBVIOUS
<1>1. KeyTypeOK'
  BY KeyTypeStep DEF KeyInv
<1>2. ASSUME NEW r \in Run, KeyStep(r) PROVE KeyInv'
  BY <1>1, <1>2, WriterStep, FilesStep DEF KeyInv
<1>3. CASE UNCHANGED keyVars
  <2>1. OneWriter' <=> OneWriter
    BY <1>3 DEF keyVars, OneWriter
  <2>2. FilesFit' <=> FilesFit
    BY <1>3 DEF keyVars, FilesFit
  <2>3. \A r \in Run : (WriterAt(r)' <=> WriterAt(r)) /\ (ReaderAt(r)' <=> ReaderAt(r))
    BY <1>3 DEF keyVars, WriterAt, ReaderAt
  <2> QED
    BY <1>1, <1>3, <2>1, <2>2, <2>3 DEF keyVars, KeyInv
<1> QED
  BY <1>2, <1>3 DEF KeyNext

LEMMA KeyStays == KeySpec => []KeyInv
BY KeyInitInv, KeyNextInv, PTL DEF KeySpec

----------------------------------------------------------------------------
(* The theorems.                                                           *)

(* load_cert: wherever earlier runs were killed, the key a run goes on     *)
(* with was made with its certificate, and the host is sent that one.      *)
THEOREM IdentityIsSound == KeySpec => []SoundIdentity
<1>1. KeyInv => SoundIdentity
  BY DEF KeyInv, SoundIdentity, ReaderAt
<1> QED
  BY <1>1, KeyStays, PTL

(* load_unique_id and mkcert_save: no run writes over an identity that is  *)
(* complete, or over a unique id.                                          *)
THEOREM IdentityIsKept == KeySpec => IdentityKept
<1> DEFINE Keeps ==
             ~overlap' => /\ Complete => Complete' /\ cert_file' = cert_file
                          /\ unique_file \in Run => unique_file' = unique_file
<1>1. KeyInv /\ [KeyNext]_keyVars => [Keeps]_keyVars
  BY FilesStep DEF KeyNext, Kept
<1> QED
  BY <1>1, KeyStays, PTL DEF KeySpec, IdentityKept

----------------------------------------------------------------------------
(* The answers of the host.                                                *)

(* The elements whose text counts.                                         *)
Titles == {"ID", "AppTitle"}

(* An app of a document.                                                   *)
Records == {[id |-> atoi(t), name |-> u] : t \in Seq(Text), u \in Seq(Text)}

----------------------------------------------------------------------------
(* What is open: the root, an app, a text of it, or instead of the text    *)
(* elements named Node, which search_start counts.                         *)
Base == Len(open) - search_start

Shape ==
    /\ open \in Seq(Names) /\ search_start \in Nat /\ search_start <= Len(open) /\ Base <= 3
    /\ Base \in {0, 3} => search_start = 0
    /\ Base >= 1 => open[1] = "root"
    /\ Base >= 2 => open[2] = "App"
    /\ Base = 3 => open[3] \in Titles
    /\ \A i \in Base + 1 .. Len(open) : open[i] = Node

LEMMA Innermost ==
    ASSUME Shape, open # <<>>
    PROVE  /\ Base \in 1 .. 3 /\ Len(open) = Base + search_start
           /\ Last(open) = Node <=> search_start # 0
           /\ Last(open) = "root" <=> Base = 1 /\ search_start = 0
           /\ Last(open) = "App" <=> Base = 2 /\ search_start = 0
           /\ Last(open) \in Titles <=> Base = 3
           /\ Base = 3 => Last(open) = open[3]
<1>1. PICK n \in Nat : n = Len(open)
  BY DEF Shape
<1>2. PICK k \in Nat : k = search_start
  BY DEF Shape
<1>3. PICK b \in Nat : b = n - k /\ b = Base
  <2>1. n - k \in Nat /\ Base = n - k
    BY <1>1, <1>2 DEF Shape, Base
  <2> QED
    BY <2>1, Zenon
<1>4. n > 0
  BY <1>1 DEF Shape
<1>5. b \in 1 .. 3 /\ n = b + k /\ (b = 3 => k = 0)
  BY <1>1, <1>2, <1>3, <1>4 DEF Shape
<1>6. \A i \in b + 1 .. n : open[i] = Node
  BY <1>1, <1>3 DEF Shape
<1>7. k # 0 => open[n] = Node
  BY <1>4, <1>5, <1>6
<1>8. k = 0 => n = b
  BY <1>5
<1>9. /\ open[1] = "root" /\ (b >= 2 => open[2] = "App") /\ (b = 3 => open[3] \in Titles)
  BY <1>3, <1>5 DEF Shape
<1>10. Last(open) = open[n]
  BY <1>1 DEF Last
<1>11. CASE k # 0
  BY <1>1, <1>2, <1>3, <1>5, <1>7, <1>10, <1>11 DEF Titles, Node
<1>12. CASE k = 0
  <2>1. n = 1 \/ n = 2 \/ n = 3
    BY <1>5, <1>8, <1>12
  <2> QED
    BY <1>1, <1>2, <1>3, <1>5, <1>8, <1>9, <1>10, <1>12, <2>1 DEF Titles, Node
<1> QED
  BY <1>11, <1>12

(* How what is open goes on with a start tag and an end tag.               *)
LEMMA Opened ==
    ASSUME Shape, NEW name \in Names, Opens(name), search_start' = StartElement(name)
    PROVE  /\ Shape'
           /\ name = "App" => Base = 1 /\ Base' = 2
           /\ name \in Titles => Base = 2 /\ Base' = 3 /\ open'[3] = name /\ now[name] = None
           /\ name = Node => Base' = Base /\ Base # 3
           /\ name # "root"
<1>1. open # <<>> /\ open' = Append(open, name) /\ MayOpen(name)
  BY DEF Opens
<1>2. PICK n \in Nat : n = Len(open)
  BY DEF Shape
<1>3. PICK k \in Nat : k = search_start
  BY DEF Shape
<1>4. PICK b \in 1 .. 3 : b = Base
  BY <1>1, Innermost
<1>5. /\ n = b + k /\ (Last(open) = Node <=> k # 0) /\ (Last(open) = "root" <=> b = 1 /\ k = 0)
      /\ (Last(open) = "App" <=> b = 2 /\ k = 0) /\ (Last(open) \in Titles <=> b = 3)
  BY <1>1, <1>2, <1>3, <1>4, Innermost
<1>6. /\ open' \in Seq(Names) /\ Len(open') = n + 1 /\ open'[n + 1] = name
      /\ \A i \in 1 .. n : open'[i] = open[i]
  BY <1>1, <1>2 DEF Shape
<1>7. /\ open[1] = "root" /\ (b >= 2 => open[2] = "App") /\ (b = 3 => k = 0)
      /\ \A i \in b + 1 .. n : open[i] = Node
  BY <1>2, <1>3, <1>4 DEF Shape
<1>8. name = Node \/ name = "App" \/ name \in Titles
  BY <1>1 DEF MayOpen, Node, Titles
<1>9. CASE name = Node
  <2>1. b # 3
    BY <1>1, <1>5, <1>9 DEF MayOpen, Node, Titles
  <2>2. PICK c \in Nat : c = search_start' /\ c = k + 1
    BY <1>3, <1>9 DEF StartElement
  <2>3. Base' = (n + 1) - c
    BY <1>6, <2>2 DEF Base
  <2>4. Base' = b
    BY <1>5, <2>2, <2>3
  <2>5. \A i \in b + 1 .. n + 1 : open'[i] = Node
    BY <1>5, <1>6, <1>7, <1>9
  <2>6. open'[1] = "root" /\ (b >= 2 => open'[2] = "App") /\ c <= n + 1
    BY <1>5, <1>6, <1>7, <2>2
  <2>7. Shape'
    BY <1>6, <2>1, <2>2, <2>4, <2>5, <2>6 DEF Shape
  <2> QED
    BY <1>4, <1>9, <2>1, <2>4, <2>7 DEF Node, Titles
<1>10. CASE name = "App" \/ name \in Titles
  <2>1. k = 0 /\ b = n /\ (name = "App" => b = 1) /\ (name \in Titles => b = 2 /\ now[name] = None)
    BY <1>1, <1>5, <1>10 DEF MayOpen, Node, Titles
  <2>2. search_start' = 0
    BY <1>3, <1>10, <2>1 DEF StartElement, Node, Titles
  <2>3. Base' = b + 1
    BY <1>6, <2>1, <2>2 DEF Base
  <2>4. open'[1] = "root" /\ (b + 1 >= 2 => open'[2] = IF name = "App" THEN "App" ELSE open[2])
    BY <1>5, <1>6, <1>7, <2>1, <1>10 DEF Titles
  <2>5. open'[2] = "App" /\ (b = 2 => open'[3] = name)
    BY <1>5, <1>6, <1>7, <2>1, <1>10 DEF Titles
  <2>6. Shape'
    BY <1>6, <1>10, <2>1, <2>2, <2>3, <2>4, <2>5 DEF Shape, Titles
  <2> QED
    BY <1>4, <1>10, <2>1, <2>3, <2>5, <2>6 DEF Titles, Node
<1> QED
  BY <1>8, <1>9, <1>10

LEMMA Closed ==
    ASSUME Shape, NEW name \in Names, Closes(name), search_start' = EndElement(name)
    PROVE  /\ Shape'
           /\ name = "App" => Base = 2 /\ Base' = 1
           /\ name \in Titles => Base = 3 /\ Base' = 2 /\ open[3] = name
           /\ name = Node => Base' = Base /\ Base # 3
           /\ name = "root" => Base = 1 /\ Base' = 0
<1>1. open # <<>> /\ open' = Front(open) /\ Last(open) = name
  BY DEF Closes
<1>2. PICK n \in Nat : n = Len(open)
  BY DEF Shape
<1>3. PICK k \in Nat : k = search_start
  BY DEF Shape
<1>4. PICK b \in 1 .. 3 : b = Base
  BY <1>1, Innermost
<1>5. /\ n = b + k /\ (name = Node <=> k # 0) /\ (name = "root" <=> b = 1 /\ k = 0)
      /\ (name = "App" <=> b = 2 /\ k = 0) /\ (name \in Titles <=> b = 3)
      /\ (b = 3 => open[3] = name)
  BY <1>1, <1>2, <1>3, <1>4, Innermost
<1>6. /\ open' \in Seq(Names) /\ Len(open') = n - 1
      /\ \A i \in 1 .. n - 1 : open'[i] = open[i]
  BY <1>1, <1>2 DEF Shape, Front
<1>7. /\ open[1] = "root" /\ (b >= 2 => open[2] = "App") /\ (b = 3 => k = 0)
      /\ \A i \in b + 1 .. n : open[i] = Node
  BY <1>2, <1>3, <1>4 DEF Shape
<1>8. CASE name = Node
  <2>1. PICK c \in Nat : c = search_start' /\ k = c + 1
    <3>1. k > 0 /\ search_start' = k - 1
      BY <1>3, <1>5, <1>8 DEF EndElement
    <3>2. k - 1 \in Nat /\ k = (k - 1) + 1
      BY <3>1
    <3> QED
      BY <3>1, <3>2, Zenon
  <2>2. Base' = (n - 1) - c
    BY <1>6, <2>1 DEF Base
  <2>3. Base' = b /\ b # 3
    BY <1>5, <1>7, <2>1, <2>2
  <2>4. \A i \in b + 1 .. n - 1 : open'[i] = Node
    BY <1>5, <1>6, <1>7
  <2>5. open'[1] = "root" /\ (b >= 2 => open'[2] = "App") /\ c <= n - 1
    <3>1. n - 1 = b + c
      BY <1>5, <2>1
    <3>2. 1 \in 1 .. n - 1 /\ (b >= 2 => 2 \in 1 .. n - 1) /\ c <= n - 1
      BY <3>1
    <3> QED
      BY <1>6, <1>7, <3>2
  <2>6. Shape'
    BY <1>6, <2>1, <2>3, <2>4, <2>5 DEF Shape
  <2> QED
    BY <1>4, <1>8, <2>3, <2>6 DEF Node, Titles
<1>9. CASE name # Node
  <2>1. k = 0 /\ n = b /\ search_start' = 0
    BY <1>3, <1>5, <1>9 DEF EndElement
  <2>2. Base' = b - 1
    BY <1>6, <2>1 DEF Base
  <2>3. (b >= 2 => open'[1] = "root") /\ (b >= 3 => open'[2] = "App")
    BY <1>6, <1>7, <2>1
  <2>4. Shape'
    BY <1>6, <2>1, <2>2, <2>3 DEF Shape
  <2> QED
    BY <1>4, <1>5, <1>9, <2>1, <2>2, <2>4
<1> QED
  BY <1>8, <1>9

----------------------------------------------------------------------------
(* What the handlers keep.                                                 *)

(* The list while the document is read: the apps that are closed, the last *)
(* first, and before them the one at hand with the texts of it that ended. *)
Done(name) == IF Base = 3 /\ open[3] = name THEN None ELSE now[name]
Current == [id |-> IF Done("ID") = None THEN 0 ELSE atoi(Done("ID")), name |-> Done("AppTitle")]
Listed == (IF Base >= 2 THEN <<Current>> ELSE <<>>) \o Reverse(said)

Reading ==
    /\ said \in Seq(Records)
    /\ now \in [ID : Seq(Text), AppTitle : Seq(Text)]
    /\ data = Listed
    /\ start = IF Base = 3 THEN 1 ELSE 0
    /\ Base = 3 => memory = now[open[3]]

(* What both searches give.                                                *)
Answered ==
    /\ search_memory = inside
    /\ ret \in {"asking", "parsing", "GS_OK", "GS_INVALID", "GS_IO_ERROR"}
    /\ list = IF ret = "GS_OK" THEN Reverse(said) ELSE <<>>

----------------------------------------------------------------------------
(* Lists.                                                                  *)

LEMMA Reversed ==
    ASSUME NEW S, NEW s \in Seq(S)
    PROVE  /\ Reverse(s) \in Seq(S) /\ Len(Reverse(s)) = Len(s)
           /\ \A i \in 1 .. Len(s) : Reverse(s)[i] = s[(Len(s) - i) + 1]
<1>1. PICK n \in Nat : n = Len(s)
  OBVIOUS
<1>2. ASSUME NEW i \in 1 .. n PROVE (n - i) + 1 \in 1 .. n
  OBVIOUS
<1>3. Reverse(s) = [i \in 1 .. n |-> s[(n - i) + 1]]
  BY <1>1 DEF Reverse
<1> QED
  BY <1>1, <1>2, <1>3

(* An app put before the others is, seen from the end, the last.           *)
LEMMA ReverseAppend ==
    ASSUME NEW S, NEW s \in Seq(S), NEW r \in S
    PROVE  Reverse(Append(s, r)) = <<r>> \o Reverse(s)
<1> DEFINE x == Reverse(Append(s, r))
           y == <<r>> \o Reverse(s)
<1>1. PICK n \in Nat : n = Len(s)
  OBVIOUS
<1>2. /\ Append(s, r) \in Seq(S) /\ Len(Append(s, r)) = n + 1 /\ Append(s, r)[n + 1] = r
      /\ \A i \in 1 .. n : Append(s, r)[i] = s[i]
  BY <1>1
<1>3. /\ x \in Seq(S) /\ Len(x) = n + 1
      /\ \A i \in 1 .. n + 1 : x[i] = Append(s, r)[((n + 1) - i) + 1]
  <2>1. PICK a \in Seq(S) : a = Append(s, r)
    BY <1>2
  <2>2. /\ Reverse(a) \in Seq(S) /\ Len(Reverse(a)) = Len(a)
        /\ \A i \in 1 .. Len(a) : Reverse(a)[i] = a[(Len(a) - i) + 1]
    BY Reversed
  <2>3. Len(a) = n + 1
    BY <1>2, <2>1
  <2> QED
    BY <2>1, <2>2, <2>3
<1>4. /\ Reverse(s) \in Seq(S) /\ Len(Reverse(s)) = n
      /\ \A i \in 1 .. n : Reverse(s)[i] = s[(n - i) + 1]
  BY <1>1, Reversed
<1>5. y \in Seq(S) /\ Len(y) = n + 1 /\ y[1] = r /\ \A i \in 1 .. n : y[i + 1] = Reverse(s)[i]
  BY <1>4
<1> HIDE DEF x, y
<1>6. ASSUME NEW i \in 1 .. n + 1 PROVE x[i] = y[i]
  <2>1. CASE i = 1
    <3>1. ((n + 1) - i) + 1 = n + 1
      BY <2>1
    <3> QED
      BY <1>2, <1>3, <1>5, <2>1, <3>1
  <2>2. CASE i # 1
    <3>1. PICK j \in 1 .. n : i = j + 1
      <4>1. i - 1 \in 1 .. n /\ i = (i - 1) + 1
        BY <2>2
      <4> QED
        BY <4>1
    <3>2. ((n + 1) - i) + 1 = (n - j) + 1 /\ (n - j) + 1 \in 1 .. n
      BY <3>1
    <3>3. x[i] = s[(n - j) + 1]
      BY <1>2, <1>3, <3>2
    <3>4. y[i] = s[(n - j) + 1]
      BY <1>4, <1>5, <3>1
    <3> QED
      BY <3>3, <3>4
  <2> QED
    BY <2>1, <2>2
<1>7. x = y
  BY <1>3, <1>5, <1>6
<1> QED
  BY <1>7 DEF x, y

(* Only the first of a list is changed.                                    *)
LEMMA FirstChanged ==
    ASSUME NEW S, NEW s \in Seq(S), NEW c \in S, NEW d \in S
    PROVE  /\ (<<c>> \o s)[1] = c /\ <<c>> \o s # <<>>
           /\ [(<<c>> \o s) EXCEPT ![1] = d] = <<d>> \o s
<1> DEFINE x == <<c>> \o s
           y == <<d>> \o s
           z == [x EXCEPT ![1] = d]
<1>1. PICK n \in Nat : n = Len(s)
  OBVIOUS
<1>2. x \in Seq(S) /\ Len(x) = n + 1 /\ x[1] = c /\ \A i \in 1 .. n : x[i + 1] = s[i]
  BY <1>1
<1>3. y \in Seq(S) /\ Len(y) = n + 1 /\ y[1] = d /\ \A i \in 1 .. n : y[i + 1] = s[i]
  BY <1>1
<1> HIDE DEF x, y
<1>4. z \in Seq(S) /\ Len(z) = n + 1 /\ z[1] = d /\ \A i \in 2 .. n + 1 : z[i] = x[i]
  BY <1>2
<1>5. ASSUME NEW i \in 1 .. n + 1 PROVE z[i] = y[i]
  <2>1. CASE i = 1
    BY <1>3, <1>4, <2>1
  <2>2. CASE i # 1
    <3>1. PICK j \in 1 .. n : i = j + 1
      <4>1. i - 1 \in 1 .. n /\ i = (i - 1) + 1
        BY <2>2
      <4> QED
        BY <4>1
    <3> QED
      <4>1. i \in 2 .. n + 1
        BY <2>2
      <4>2. z[i] = x[j + 1] /\ y[i] = y[j + 1]
        BY <1>4, <3>1, <4>1
      <4>3. x[j + 1] = s[j] /\ y[j + 1] = s[j]
        BY <1>2, <1>3
      <4> QED
        BY <4>2, <4>3
  <2> QED
    BY <2>1, <2>2
<1> HIDE DEF z
<1>6. z = y
  BY <1>3, <1>4, <1>5
<1>7. x # <<>>
  BY <1>2
<1> QED
  BY <1>2, <1>6, <1>7 DEF x, y, z

----------------------------------------------------------------------------
(* The steps.                                                              *)

LEMMA CurrentType ==
    ASSUME now \in [ID : Seq(Text), AppTitle : Seq(Text)]
    PROVE  Current.id \in {0} \cup {atoi(t) : t \in Seq(Text)} /\ Current.name \in Seq(Text)
<1>1. now.ID \in Seq(Text) /\ now.AppTitle \in Seq(Text) /\ <<>> \in Seq(Text)
  OBVIOUS
<1>2. Done("ID") \in Seq(Text) /\ Done("AppTitle") \in Seq(Text)
  BY <1>1 DEF Done, None
<1> QED
  BY <1>2 DEF Current

(* Any set the lists of apps are sequences of.                             *)
Entries == [id : {0} \cup {atoi(t) : t \in Seq(Text)}, name : Seq(Text)]

LEMMA ListType ==
    ASSUME Reading
    PROVE  /\ Current \in Entries /\ Reverse(said) \in Seq(Entries)
           /\ Base >= 2 => data = <<Current>> \o Reverse(said)
           /\ ~(Base >= 2) => data = Reverse(said)
<1>1. Current \in Entries
  BY CurrentType DEF Reading, Current, Entries
<1>2. Records \subseteq Entries
  BY DEF Records, Entries
<1>3. said \in Seq(Entries)
  BY <1>2 DEF Reading
<1>4. Reverse(said) \in Seq(Entries)
  BY <1>3, Reversed
<1>5. <<>> \o Reverse(said) = Reverse(said)
  BY <1>4
<1> QED
  BY <1>1, <1>4, <1>5 DEF Reading, Listed

(* A start tag makes a new record of an app, or a text of it begin.        *)
LEMMA TagStarted ==
    ASSUME Shape, Reading, NEW name \in Names, Opens(name), StartApplistElement(name),
           search_start' = StartElement(name)
    PROVE  Reading'
<1>1. /\ Shape' /\ (name = "App" => Base = 1 /\ Base' = 2)
      /\ (name \in Titles => Base = 2 /\ Base' = 3 /\ open'[3] = name /\ now[name] = None)
      /\ (name = Node => Base' = Base /\ Base # 3) /\ name # "root"
  BY Opened
<1>2. /\ said' = said /\ (name # "App" => now' = now) /\ open' = Append(open, name)
      /\ (name = "App" => now' = [ID |-> None, AppTitle |-> None])
  BY DEF Opens
<1>3. Base \in 1 .. 3
  BY Innermost DEF Opens
<1>4. CASE name = Node
  <2>1. UNCHANGED <<memory, start, data>> /\ now' = now
    BY <1>2, <1>4 DEF StartApplistElement, Node
  <2>2. Base' = Base /\ Base # 3
    BY <1>1, <1>4
  <2>3. Done("ID")' = Done("ID") /\ Done("AppTitle")' = Done("AppTitle")
    BY <2>1, <2>2 DEF Done
  <2>4. Listed' = Listed
    BY <1>2, <2>2, <2>3 DEF Listed, Current
  <2> QED
    BY <1>2, <2>1, <2>2, <2>4 DEF Reading
<1>5. CASE name = "App"
  <2>1. data' = <<[id |-> 0, name |-> None]>> \o data /\ UNCHANGED <<memory, start>>
    BY <1>5 DEF StartApplistElement
  <2>2. Base = 1 /\ Base' = 2 /\ now' = [ID |-> None, AppTitle |-> None]
    BY <1>1, <1>2, <1>5
  <2>3. data = Reverse(said)
    BY <2>2, ListType
  <2>4. Done("ID")' = None /\ Done("AppTitle")' = None
    BY <2>2 DEF Done
  <2>5. Current' = [id |-> 0, name |-> None]
    BY <2>4 DEF Current
  <2>6. Listed' = <<[id |-> 0, name |-> None]>> \o Reverse(said)
    BY <1>2, <2>2, <2>5 DEF Listed
  <2>7. now' \in [ID : Seq(Text), AppTitle : Seq(Text)]
    BY <2>2 DEF None
  <2> QED
    BY <1>2, <2>1, <2>2, <2>3, <2>6, <2>7 DEF Reading
<1>6. CASE name \in Titles
  <2>1. memory' = None /\ start' = 1 /\ data' = data
    BY <1>6 DEF StartApplistElement, Titles
  <2>2. Base = 2 /\ Base' = 3 /\ open'[3] = name /\ now[name] = None /\ now' = now
    BY <1>1, <1>2, <1>6 DEF Titles
  <2>3. Done("ID")' = Done("ID") /\ Done("AppTitle")' = Done("AppTitle")
    BY <1>6, <2>2 DEF Done, Titles
  <2>4. Listed' = Listed
    BY <1>2, <2>2, <2>3 DEF Listed, Current
  <2> QED
    BY <1>2, <2>1, <2>2, <2>4 DEF Reading
<1> QED
  BY <1>1, <1>4, <1>5, <1>6 DEF Names, Node, Titles

(* An end tag fills in the text that was read, or closes a record filled in. *)
LEMMA TagEnded ==
    ASSUME Shape, Reading, NEW name \in Names, Closes(name), EndApplistElement(name),
           search_start' = EndElement(name)
    PROVE  Reading'
<1>1. /\ Shape' /\ (name = "App" => Base = 2 /\ Base' = 1)
      /\ (name \in Titles => Base = 3 /\ Base' = 2 /\ open[3] = name)
      /\ (name = Node => Base' = Base /\ Base # 3) /\ (name = "root" => Base = 1 /\ Base' = 0)
  BY Closed
<1>2. /\ now' = now /\ MayClose(name) /\ (name # "App" => said' = said)
      /\ (name = "App" => said' = Append(said, [id |-> atoi(now.ID), name |-> now.AppTitle]))
  BY DEF Closes
<1>3. now \in [ID : Seq(Text), AppTitle : Seq(Text)] /\ said \in Seq(Records)
  BY DEF Reading
<1>4. CASE name = Node \/ name = "root"
  <2>1. Base # 3 /\ Base' # 3 /\ (Base' >= 2 <=> Base >= 2)
    BY <1>1, <1>4
  <2>2. start = 0
    BY <2>1 DEF Reading
  <2>3. UNCHANGED <<memory, start, data>> /\ said' = said
    BY <1>2, <1>4, <2>2 DEF EndApplistElement, applistVars, Node
  <2>4. Done("ID")' = Done("ID") /\ Done("AppTitle")' = Done("AppTitle")
    BY <1>2, <2>1 DEF Done
  <2>5. Listed' = Listed
    BY <2>1, <2>3, <2>4 DEF Listed, Current
  <2> QED
    BY <1>2, <1>3, <2>1, <2>2, <2>3, <2>5 DEF Reading
<1>5. CASE name = "App"
  <2>1. Base = 2 /\ Base' = 1
    BY <1>1, <1>5
  <2>2. start = 0
    BY <2>1 DEF Reading
  <2>3. UNCHANGED <<memory, start, data>>
    BY <2>2 DEF EndApplistElement, applistVars
  <2>4. now.ID # None /\ now.AppTitle # None
    BY <1>2, <1>5 DEF MayClose
  <2> DEFINE e == [id |-> atoi(now.ID), name |-> now.AppTitle]
  <2>5. Done("ID") = now.ID /\ Done("AppTitle") = now.AppTitle
    BY <2>1 DEF Done
  <2>6. Current = e
    BY <2>4, <2>5 DEF Current
  <2>7. e \in Records
    BY <1>3 DEF Records
  <2>8. said' = Append(said, e)
    BY <1>2, <1>5
  <2> HIDE DEF e
  <2>9. said' \in Seq(Records) /\ Reverse(said') = <<e>> \o Reverse(said)
    BY <1>3, <2>7, <2>8, ReverseAppend
  <2>10. <<>> \o Reverse(said') = Reverse(said')
    BY <2>9, Reversed
  <2>11. data = <<e>> \o Reverse(said)
    BY <2>1, <2>6, ListType
  <2>12. data' = Listed'
    BY <2>1, <2>3, <2>9, <2>10, <2>11 DEF Listed
  <2> QED
    BY <1>2, <1>3, <2>1, <2>2, <2>3, <2>9, <2>12 DEF Reading
<1>6. CASE name \in Titles
  <2>1. Base = 3 /\ Base' = 2 /\ open[3] = name
    BY <1>1, <1>6
  <2>2. start = 1 /\ memory = now[name] /\ now[name] # None
    BY <1>2, <1>6, <2>1 DEF Reading, MayClose, Titles
  <2>3. said' = said
    BY <1>2, <1>6 DEF Titles
  <2>4. /\ data = <<Current>> \o Reverse(said)
        /\ Current \in Entries /\ Reverse(said) \in Seq(Entries)
    BY <2>1, ListType
  <2>5. data # <<>> /\ data[1] = Current
    BY <2>4, FirstChanged
  <2>6. data' = [data EXCEPT ![1] = Current'] /\ start' = 0
    <3>1. start' = 0
      BY <2>2, <2>5 DEF EndApplistElement, applistVars
    <3>2. CASE name = "ID"
      <4>1. data' = [data EXCEPT ![1].id = atoi(memory)]
        BY <2>2, <2>5, <3>2 DEF EndApplistElement
      <4>2. data' = [data EXCEPT ![1] = [Current EXCEPT !.id = atoi(now.ID)]]
        BY <2>2, <2>5, <3>2, <4>1
      <4>3. Current = [id |-> 0, name |-> now.AppTitle]
        BY <2>1, <3>2 DEF Current, Done
      <4>4. Current' = [id |-> atoi(now.ID), name |-> now.AppTitle]
        BY <1>2, <2>1, <2>2, <3>2 DEF Current, Done
      <4>5. [Current EXCEPT !.id = atoi(now.ID)] = Current'
        BY <4>3, <4>4
      <4> QED
        BY <3>1, <4>2, <4>5
    <3>3. CASE name = "AppTitle"
      <4>1. data' = [data EXCEPT ![1].name = memory]
        BY <2>2, <2>5, <3>3 DEF EndApplistElement
      <4>2. data' = [data EXCEPT ![1] = [Current EXCEPT !.name = now.AppTitle]]
        BY <2>2, <2>5, <3>3, <4>1
      <4>3. Current = [id |-> Current.id, name |-> None]
        BY <2>1, <3>3 DEF Current, Done
      <4>4. Current' = [id |-> Current.id, name |-> now.AppTitle]
        BY <1>2, <2>1, <2>2, <3>3 DEF Current, Done
      <4>5. [Current EXCEPT !.name = now.AppTitle] = Current'
        BY <4>3, <4>4
      <4> QED
        BY <3>1, <4>2, <4>5
    <3> QED
      BY <1>6, <3>2, <3>3 DEF Titles
  <2>7. Current' \in Entries
    <3>1. now' \in [ID : Seq(Text), AppTitle : Seq(Text)]
      BY <1>2, <1>3
    <3>2. Current'.id \in {0} \cup {atoi(t) : t \in Seq(Text)} /\ Current'.name \in Seq(Text)
      <4>1. now'.ID \in Seq(Text) /\ now'.AppTitle \in Seq(Text) /\ <<>> \in Seq(Text)
        BY <3>1
      <4>2. Done("ID")' \in Seq(Text) /\ Done("AppTitle")' \in Seq(Text)
        BY <4>1 DEF Done, None
      <4> QED
        BY <4>2 DEF Current
    <3> QED
      BY <3>2 DEF Entries, Current
  <2>8. data' = <<Current'>> \o Reverse(said)
    BY <2>4, <2>6, <2>7, FirstChanged
  <2>9. data' = Listed'
    BY <2>1, <2>3, <2>8 DEF Listed
  <2> QED
    BY <1>2, <1>3, <2>1, <2>3, <2>6, <2>9 DEF Reading
<1> QED
  BY <1>4, <1>5, <1>6 DEF Names, Node, Titles

(* Each piece of a text goes where it belongs.                             *)
LEMMA TextRead ==
    ASSUME Shape, Reading, search_memory = inside, NEW text \in Text, Says(text),
           memory' = WriteData(memory, start, text), UNCHANGED <<start, data, search_start>>,
           search_memory' = WriteData(search_memory, search_start, text)
    PROVE  Shape' /\ Reading' /\ search_memory' = inside'
<1>1. /\ open # <<>> /\ open' = open /\ said' = said /\ search_start' = search_start
  BY DEF Says
<1>2. Base' = Base /\ Shape'
  BY <1>1 DEF Base, Shape
<1>3. /\ (Last(open) = Node <=> search_start # 0) /\ (Last(open) \in Titles <=> Base = 3)
      /\ (Base = 3 => Last(open) = open[3]) /\ search_start \in Nat
  BY <1>1, Innermost DEF Shape
<1>4. start = (IF Base = 3 THEN 1 ELSE 0) /\ now \in [ID : Seq(Text), AppTitle : Seq(Text)]
      /\ said \in Seq(Records) /\ data = Listed /\ (Base = 3 => memory = now[open[3]])
  BY DEF Reading
<1>5. CASE Last(open) \in Titles
  <2>1. Base = 3 /\ search_start = 0 /\ start = 1 /\ open[3] \in Titles /\ Last(open) = open[3]
    BY <1>3, <1>4, <1>5 DEF Titles, Node
  <2>2. now' = [now EXCEPT ![open[3]] = Append(@, text)] /\ inside' = inside
    BY <1>5, <2>1 DEF Says, Titles, Node
  <2>3. search_memory' = inside'
    BY <2>1, <2>2 DEF WriteData
  <2>4. CASE open[3] = "ID"
    <3>1. now' = [ID |-> Append(now.ID, text), AppTitle |-> now.AppTitle]
      BY <1>4, <2>2, <2>4
    <3>2. now' \in [ID : Seq(Text), AppTitle : Seq(Text)] /\ memory' = now'[open'[3]]
      BY <1>1, <1>4, <2>1, <2>4, <3>1 DEF WriteData
    <3>3. Done("ID")' = Done("ID") /\ Done("AppTitle")' = Done("AppTitle")
      BY <1>1, <1>2, <2>1, <2>4, <3>1 DEF Done
    <3>4. Listed' = Listed
      BY <1>1, <1>2, <3>3 DEF Listed, Current
    <3> QED
      BY <1>1, <1>2, <1>4, <2>1, <2>3, <3>2, <3>4 DEF Reading
  <2>5. CASE open[3] = "AppTitle"
    <3>1. now' = [ID |-> now.ID, AppTitle |-> Append(now.AppTitle, text)]
      BY <1>4, <2>2, <2>5
    <3>2. now' \in [ID : Seq(Text), AppTitle : Seq(Text)] /\ memory' = now'[open'[3]]
      BY <1>1, <1>4, <2>1, <2>5, <3>1 DEF WriteData
    <3>3. Done("ID")' = Done("ID") /\ Done("AppTitle")' = Done("AppTitle")
      BY <1>1, <1>2, <2>1, <2>5, <3>1 DEF Done
    <3>4. Listed' = Listed
      BY <1>1, <1>2, <3>3 DEF Listed, Current
    <3> QED
      BY <1>1, <1>2, <1>4, <2>1, <2>3, <3>2, <3>4 DEF Reading
  <2> QED
    BY <2>1, <2>4, <2>5 DEF Titles
<1>6. CASE Last(open) \notin Titles
  <2>1. Base # 3 /\ start = 0
    BY <1>3, <1>4, <1>6
  <2>2. now' = now /\ memory' = memory
    BY <1>6, <2>1 DEF Says, Titles, WriteData
  <2>3. Listed' = Listed
    BY <1>1, <1>2, <2>2 DEF Listed, Current, Done
  <2>4. search_memory' = inside'
    BY <1>3, <1>6 DEF Says, Titles, Node, WriteData
  <2> QED
    BY <1>1, <1>2, <1>4, <2>1, <2>2, <2>3, <2>4 DEF Reading
<1> QED
  BY <1>5, <1>6

(* The inductive invariant.                                                *)
ListInv == Shape /\ Reading /\ Answered

LEMMA ListInitInv == Init => ListInv
<1> SUFFICES ASSUME Init PROVE ListInv
  OBVIOUS
<1>1. /\ open = <<"root">> /\ said = <<>> /\ now = [ID |-> <<>>, AppTitle |-> <<>>]
      /\ inside = <<>> /\ data = <<>> /\ start = 0 /\ search_memory = <<>> /\ search_start = 0
      /\ ret = "asking" /\ list = <<>>
  BY DEF Init, None
<1>2. open \in Seq(Names) /\ Len(open) = 1 /\ open[1] = "root"
  BY <1>1 DEF Names
<1>3. Base = 1
  BY <1>1, <1>2 DEF Base
<1>4. Shape
  BY <1>1, <1>2, <1>3 DEF Shape
<1>5. Reverse(said) = <<>>
  BY <1>1 DEF Reverse
<1>6. Listed = <<>>
  BY <1>3, <1>5 DEF Listed
<1>7. <<>> \in Seq(Records) /\ now \in [ID : Seq(Text), AppTitle : Seq(Text)]
  BY <1>1
<1>8. Reading
  BY <1>1, <1>3, <1>6, <1>7 DEF Reading
<1>9. Answered
  BY <1>1 DEF Answered
<1> QED
  BY <1>4, <1>8, <1>9 DEF ListInv

LEMMA ListNextInv == ListInv /\ [Next]_vars => ListInv'
<1> SUFFICES ASSUME ListInv, [Next]_vars PROVE ListInv'
  OBVIOUS
<1>1. Shape /\ Reading /\ Answered
  BY DEF ListInv
<1>2. ASSUME NEW name \in Names, StartTag(name) PROVE ListInv'
  <2>1. ret = "parsing" /\ UNCHANGED <<ret, list, search_memory>> /\ inside' = inside
    BY <1>2 DEF StartTag, Parses, Opens
  <2>2. Answered'
    BY <1>1, <2>1 DEF Answered
  <2>3. Shape'
    BY <1>1, <1>2, Opened DEF StartTag
  <2>4. Reading'
    BY <1>1, <1>2, TagStarted DEF StartTag
  <2> QED
    BY <2>2, <2>3, <2>4 DEF ListInv
<1>3. ASSUME NEW name \in Names, EndTag(name) PROVE ListInv'
  <2>1. ret = "parsing" /\ UNCHANGED <<ret, list, search_memory>> /\ inside' = inside
    BY <1>3 DEF EndTag, Parses, Closes
  <2>2. Answered'
    BY <1>1, <2>1 DEF Answered
  <2>3. Shape'
    BY <1>1, <1>3, Closed DEF EndTag
  <2>4. Reading'
    BY <1>1, <1>3, TagEnded DEF EndTag
  <2> QED
    BY <2>2, <2>3, <2>4 DEF ListInv
<1>4. ASSUME NEW text \in Text, CharacterData(text) PROVE ListInv'
  <2>1. ret = "parsing" /\ UNCHANGED <<ret, list>>
    BY <1>4 DEF CharacterData, Parses
  <2>2. Shape' /\ Reading' /\ search_memory' = inside'
    BY <1>1, <1>4, TextRead DEF CharacterData, Answered
  <2>3. Answered'
    BY <1>1, <2>1, <2>2 DEF Answered
  <2> QED
    BY <2>2, <2>3 DEF ListInv
<1>5. ASSUME UNCHANGED <<docVars, applistVars, searchVars>> PROVE Shape' /\ Reading'
  <2>1. UNCHANGED <<open, said, now, memory, start, data, search_start>>
    BY <1>5 DEF docVars, applistVars, searchVars
  <2>2. Base' = Base
    BY <2>1 DEF Base
  <2>3. Listed' = Listed
    BY <2>1, <2>2 DEF Listed, Current, Done
  <2> QED
    BY <1>1, <2>1, <2>2, <2>3 DEF Shape, Reading
<1>6. CASE HttpRequest
  <2>1. UNCHANGED <<docVars, applistVars, searchVars>> /\ list' = list /\ ret = "asking"
        /\ ret' \in {"parsing", "GS_IO_ERROR"}
    BY <1>6 DEF HttpRequest
  <2>2. Answered'
    BY <1>1, <2>1 DEF Answered, docVars, searchVars
  <2> QED
    BY <1>5, <2>1, <2>2 DEF ListInv
<1>7. CASE DocumentEnds
  <2>1. UNCHANGED <<docVars, applistVars, searchVars>> /\ ret = "parsing"
    BY <1>7 DEF DocumentEnds
  <2>2. search_memory' = inside' /\ said' = said /\ list = <<>>
    BY <1>1, <2>1 DEF Answered, docVars, searchVars
  <2>3. CASE open = <<>> /\ ret' = "GS_OK" /\ list' = data
    <3>1. Base = 0
      BY <1>1, <2>3 DEF Shape, Base
    <3>2. data = Reverse(said)
      BY <1>1, <3>1, ListType
    <3> QED
      BY <1>5, <2>1, <2>2, <2>3, <3>2 DEF ListInv, Answered
  <2>4. CASE ret' = "GS_INVALID" /\ list' = list
    BY <1>5, <2>1, <2>2, <2>4 DEF ListInv, Answered
  <2> QED
    BY <1>7, <2>3, <2>4 DEF DocumentEnds
<1>8. CASE UNCHANGED vars
  <2>1. UNCHANGED <<docVars, applistVars, searchVars>> /\ UNCHANGED <<ret, list>>
    BY <1>8 DEF vars
  <2>2. Answered'
    BY <1>1, <2>1 DEF Answered, docVars, searchVars
  <2> QED
    BY <1>5, <2>1, <2>2 DEF ListInv
<1> QED
  BY <1>2, <1>3, <1>4, <1>6, <1>7, <1>8 DEF Next

(* Of a list that names apps the last first, the first of a name is the    *)
(* one that came last.                                                     *)
LEMMA IdFound ==
    ASSUME ListInv, ret = "GS_OK", NEW i \in DOMAIN said,
           \A j \in DOMAIN said : said[j].name = said[i].name => j <= i
    PROVE  get_app_id(said[i].name) = said[i].id
<1>1. PICK n \in Nat : n = Len(said) /\ DOMAIN said = 1 .. n
  BY DEF ListInv, Reading
<1>2. /\ list \in Seq(Records) /\ Len(list) = n
      /\ \A k \in 1 .. n : list[k] = said[(n - k) + 1]
  BY <1>1, Reversed DEF ListInv, Reading, Answered
<1> DEFINE at == {k \in DOMAIN list : list[k].name = said[i].name}
           p == (n - i) + 1
<1>3. i \in 1 .. n /\ p \in 1 .. n /\ (n - p) + 1 = i
  BY <1>1
<1>4. p \in at /\ list[p] = said[i]
  BY <1>2, <1>3
<1>5. ASSUME NEW k \in at PROVE p <= k
  <2>1. k \in 1 .. n /\ said[(n - k) + 1].name = said[i].name /\ (n - k) + 1 \in 1 .. n
    BY <1>2
  <2>2. (n - k) + 1 <= i
    BY <1>1, <2>1
  <2> QED
    BY <1>3, <2>1, <2>2
<1>6. ASSUME NEW k \in at, \A j \in at : k <= j PROVE k = p
  <2>1. k <= p /\ p <= k /\ k \in 1 .. n
    BY <1>2, <1>4, <1>5, <1>6
  <2> QED
    BY <1>3, <2>1
<1> HIDE DEF p
<1>7. (CHOOSE k \in at : \A j \in at : k <= j) = p
  BY <1>4, <1>5, <1>6
<1>8. get_app_id(said[i].name) = list[CHOOSE k \in at : \A j \in at : k <= j].id
  BY <1>4 DEF get_app_id
<1> QED
  BY <1>4, <1>7, <1>8

----------------------------------------------------------------------------
(* xml_applist, xml_search and get_app_id: for any texts and any document, *)
(* however the parser cuts them, what is found is what was said.           *)
THEOREM WhatWasSaidIsFound == Spec => []FindsWhatWasSaid
<1>1. ListInv => FindsWhatWasSaid
  <2> SUFFICES ASSUME ListInv PROVE FindsWhatWasSaid
    OBVIOUS
  <2>1. search_memory = inside /\ list = IF ret = "GS_OK" THEN Reverse(said) ELSE <<>>
    BY DEF ListInv, Answered
  <2>2. \A i \in DOMAIN said :
          ret = "GS_OK" /\ (\A j \in DOMAIN said : said[j].name = said[i].name => j <= i)
            => get_app_id(said[i].name) = said[i].id
    BY IdFound
  <2> QED
    BY <2>1, <2>2, Zenon DEF FindsWhatWasSaid
<1> QED
  BY <1>1, ListInitInv, ListNextInv, PTL DEF Spec

==============================================================================
