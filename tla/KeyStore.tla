------------------------------- MODULE KeyStore -------------------------------
(***************************************************************************)
(* The identity of the client on disk: load_unique_id and load_cert of     *)
(* src/libgamestream/client.c with mkcert_save of                          *)
(* src/libgamestream/mkcert.c, called by gs_init.  Each file is created    *)
(* empty and gets its contents when it is closed.  A run may end at any    *)
(* step, and runs may overlap.                                             *)
(***************************************************************************)
CONSTANTS
    Run,            \* runs of the program; also names what a run generates
    Absent, Empty, Garbled

ASSUME StoreAssumption ==
    /\ {Absent, Empty, Garbled} \cap Run = {}
    /\ Absent # Empty /\ Absent # Garbled /\ Empty # Garbled

VARIABLES
    unique_file, cert_file, key_file,   \* uniqueid.dat, client.pem, key.pem
    pc,
    unique_id, cert, cert_hex, privateKey,  \* static variables of client.c
    overlap         \* history: two runs were writing an identity at once

keyFiles == <<unique_file, cert_file, key_file>>
identity == <<unique_id, cert, cert_hex, privateKey>>
keyVars == <<unique_file, cert_file, key_file, pc, unique_id, cert, cert_hex,
          privateKey, overlap>>

Content == Run \cup {Absent, Empty, Garbled}
Generating == {"open_cert", "open_key", "close_cert", "close_key"}
Writing == Generating \cup {"open_id", "close_id"}
Ended == {"ok", "failed", "killed"}

KeyTypeOK ==
    /\ unique_file \in Run \cup {Absent, Empty}
    /\ cert_file \in Content /\ key_file \in Content
    /\ pc \in [Run -> {"start", "open_id", "close_id", "load_cert", "read_cert",
                       "read_hex", "load_key"} \cup Generating \cup Ended]
    /\ unique_id \in [Run -> Run \cup {Absent, Empty}]
    /\ cert \in [Run -> Run \cup {Absent}] /\ cert_hex \in [Run -> Content]
    /\ privateKey \in [Run -> Run \cup {Absent}]
    /\ overlap \in BOOLEAN

KeyInit ==
    /\ unique_file = Absent /\ cert_file = Absent /\ key_file = Absent
    /\ pc = [r \in Run |-> "start"]
    /\ unique_id = [r \in Run |-> Absent] /\ cert = [r \in Run |-> Absent]
    /\ cert_hex = [r \in Run |-> Absent] /\ privateKey = [r \in Run |-> Absent]
    /\ overlap = FALSE

Goes(r, from, to) == pc[r] = from /\ pc' = [pc EXCEPT ![r] = to]

(* r begins to write files that are missing.                               *)
Writes(r) == overlap' = (overlap \/ \E q \in Run \ {r} : pc[q] \in Writing)

(* What a file holds when a run closes it that opened it for writing: its  *)
(* own text, over that of another run perhaps with an end of that left.    *)
AfterClose(file, r) == IF file \in {Absent, Empty} THEN {r} ELSE {r, Garbled}

----------------------------------------------------------------------------
(* load_unique_id.                                                         *)

(* An id is made up when there is no file, and read otherwise; nothing is  *)
(* read of an empty one, and the id stays empty.                           *)
LoadUniqueId(r) ==
    /\ \/ /\ unique_file = Absent /\ Goes(r, "start", "open_id") /\ Writes(r)
          /\ unique_id' = [unique_id EXCEPT ![r] = r]
       \/ /\ unique_file # Absent /\ Goes(r, "start", "load_cert") /\ UNCHANGED overlap
          /\ unique_id' = [unique_id EXCEPT ![r] = unique_file]
    /\ UNCHANGED <<keyFiles, cert, cert_hex, privateKey>>

OpenUniqueId(r) ==
    /\ \/ Goes(r, "open_id", "close_id") /\ unique_file' = Empty
       \/ Goes(r, "open_id", "failed") /\ UNCHANGED unique_file
    /\ UNCHANGED <<cert_file, key_file, identity, overlap>>

(* The ids are of one length: one replaces the other.                      *)
CloseUniqueId(r) ==
    /\ Goes(r, "close_id", "load_cert")
    /\ unique_file' = r
    /\ UNCHANGED <<cert_file, key_file, identity, overlap>>

----------------------------------------------------------------------------
(* load_cert and mkcert_save.                                              *)

(* Mutant: a certificate is made whether there is one or not.              *)
LoadCertAlways(r) ==
    /\ Goes(r, "load_cert", "open_cert") /\ Writes(r)
    /\ UNCHANGED <<keyFiles, identity>>

LoadCert(r) ==
    /\ IF cert_file = Absent THEN Goes(r, "load_cert", "open_cert") /\ Writes(r)
       ELSE Goes(r, "load_cert", "read_cert") /\ UNCHANGED overlap
    /\ UNCHANGED <<keyFiles, identity>>

OpenCert(r) ==
    /\ Goes(r, "open_cert", "open_key")
    /\ cert_file' = Empty
    /\ UNCHANGED <<unique_file, key_file, identity, overlap>>

OpenKey(r) ==
    /\ Goes(r, "open_key", "close_cert")
    /\ key_file' = Empty
    /\ UNCHANGED <<unique_file, cert_file, identity, overlap>>

CloseCert(r) ==
    /\ Goes(r, "close_cert", "close_key")
    /\ cert_file' \in AfterClose(cert_file, r)
    /\ UNCHANGED <<unique_file, key_file, identity, overlap>>

CloseKey(r) ==
    /\ Goes(r, "close_key", "read_cert")
    /\ key_file' \in AfterClose(key_file, r)
    /\ UNCHANGED <<unique_file, cert_file, identity, overlap>>

(* PEM_read_X509.                                                          *)
ReadCert(r) ==
    /\ IF cert_file \in Run
       THEN Goes(r, "read_cert", "read_hex") /\ cert' = [cert EXCEPT ![r] = cert_file]
       ELSE Goes(r, "read_cert", "failed") /\ UNCHANGED cert
    /\ UNCHANGED <<keyFiles, unique_id, cert_hex, privateKey, overlap>>

(* The text of the same file: still buffered, or read again.               *)
ReadHex(r) ==
    /\ Goes(r, "read_hex", "load_key")
    /\ \E text \in {cert[r], cert_file} :
         cert_hex' = [cert_hex EXCEPT ![r] = text]
    /\ UNCHANGED <<keyFiles, unique_id, cert, privateKey, overlap>>

(* Without a key in its file privateKey stays NULL, and that is GS_OK.     *)
LoadKey(r) ==
    /\ IF key_file = Absent THEN Goes(r, "load_key", "failed") ELSE Goes(r, "load_key", "ok")
    /\ privateKey' = [privateKey EXCEPT ![r] = IF key_file \in Run THEN key_file ELSE Absent]
    /\ UNCHANGED <<keyFiles, unique_id, cert, cert_hex, overlap>>

(* The run is ended from outside, or by a file it cannot open for writing. *)
Killed(r) ==
    /\ pc[r] \notin Ended \cup {"start"}
    /\ pc' = [pc EXCEPT ![r] = "killed"]
    /\ UNCHANGED <<keyFiles, identity, overlap>>

KeyStep(r) ==
    \/ LoadUniqueId(r) \/ OpenUniqueId(r) \/ CloseUniqueId(r)
    \/ LoadCert(r) \/ OpenCert(r) \/ OpenKey(r) \/ CloseCert(r) \/ CloseKey(r)
    \/ ReadCert(r) \/ ReadHex(r) \/ LoadKey(r) \/ Killed(r)

KeyNext == \E r \in Run : KeyStep(r)

KeySpec == KeyInit /\ [][KeyNext]_keyVars

----------------------------------------------------------------------------
(* Properties.                                                             *)

(* A run that loaded a key loaded the certificate made with it, and sends  *)
(* the host that certificate; wherever earlier runs were killed.           *)
SoundIdentity ==
    ~overlap => \A r \in Run : (pc[r] = "ok" /\ privateKey[r] # Absent) =>
                  cert[r] = privateKey[r] /\ cert_hex[r] = cert[r]

(* An identity that is complete on disk is never replaced: the host keeps  *)
(* knowing this client.  Nor is the unique id, made up once by a run that  *)
(* found no file.                                                          *)
Complete == cert_file \in Run /\ key_file = cert_file
IdentityKept ==
    [][~overlap' => /\ Complete => Complete' /\ cert_file' = cert_file
                    /\ unique_file \in Run => unique_file' = unique_file]_keyVars

==============================================================================
