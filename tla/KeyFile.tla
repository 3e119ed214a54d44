------------------------------- MODULE KeyFile --------------------------------
(***************************************************************************)
(* A private key on its way through identity new, import, loading and      *)
(* export (commands/identity/new.rs, import.rs, export.rs; icp/src/        *)
(* identity/key.rs).  One user holds one key, in PEM files of every form   *)
(* or as a seed phrase.  Which algorithm a key is read under decides which *)
(* principal it signs as; a scalar of one curve reads as one of another.   *)
(***************************************************************************)
EXTENDS Absent

CONSTANTS Passwords, Short    \* Short: those validate_password refuses

Curves == {"secp256k1", "prime256v1"}
Algorithms == Curves \cup {"ed25519"}
Storages == {"plaintext", "pbes2", "keyring"}

VARIABLES key,       \* the algorithm of the user's key
          file,      \* the PEM file at hand, or None
          wrapping,  \* the password it was exported with, as the user gave it
          kept,      \* the identity in the store, or None
          misread    \* ghost: the user asserted an algorithm that is not the key's

keyVars == <<key, file, wrapping, kept, misread>>

(* A password as it is typed, or as a file holds it: files that an editor  *)
(* or echo wrote end with a line break.  All that is read from a file but  *)
(* the password of an import is trimmed (export.rs 40 and 62, import.rs    *)
(* 88, new.rs 76, main.rs 167; not import.rs 260).                         *)
Texts == [word : Passwords, newline : BOOLEAN]
trim(text) == [word |-> text.word, newline |-> FALSE]
Sealings == {trim(t) : t \in Texts}

(* A PEM file: its label, what the key is, whether the key's own structure *)
(* names the curve, whether an EC PARAMETERS section does, and the         *)
(* password of an encrypted one.                                           *)
PemFile(label, real, stated, separate, seal) ==
    [label |-> label, real |-> real, stated |-> stated, separate |-> separate, seal |-> seal]

Files ==
    {PemFile("PRIVATE KEY", a, s, FALSE, None) : a \in Algorithms \cup {"p384", "rsa"}, s \in BOOLEAN}
    \cup {PemFile("ENCRYPTED PRIVATE KEY", a, TRUE, FALSE, p) : a \in Algorithms, p \in Sealings}
    \cup {PemFile("EC PRIVATE KEY", a, s, t, None) : a \in Curves \cup {"p384"}, s, t \in BOOLEAN}
    \cup {PemFile("CERTIFICATE", None, FALSE, FALSE, None)}

(* A file that is exported is there.                                       *)
KeyAssumption ==
    \A a \in Algorithms, p \in Sealings :
        None \notin {PemFile("PRIVATE KEY", a, TRUE, FALSE, None), PemFile("ENCRYPTED PRIVATE KEY", a, TRUE, FALSE, p)}

(* What reading bytes of one algorithm as another may give.                *)
ReadAs(real, algorithm) ==
    IF real = algorithm THEN {algorithm}
    ELSE IF {real, algorithm} \subseteq Curves THEN {algorithm, None} ELSE {None}

(* import_pkcs8: an encrypted key is opened first, with the password as it *)
(* was typed or as the file has it.                                        *)
import_pkcs8(f, password, asserted) ==
    CASE f.seal # None /\ password # f.seal -> {None}
      [] asserted # None                    -> ReadAs(f.real, asserted)
      [] f.real \in Curves /\ ~f.stated     -> {None}
      [] OTHER                              -> {f.real} \cap Algorithms

(* Mutant of import_sec1: a key without parameters is taken for k256.      *)
import_sec1_guessing(f, asserted) ==
    CASE asserted = "ed25519"         -> {None}
      [] asserted # None              -> ReadAs(f.real, asserted)
      [] ~f.stated /\ ~f.separate     -> ReadAs(f.real, "secp256k1")
      [] OTHER                        -> {f.real} \cap Curves

import_sec1(f, asserted) ==
    CASE asserted = "ed25519"         -> {None}
      [] asserted # None              -> ReadAs(f.real, asserted)
      [] ~f.stated /\ ~f.separate     -> {None}
      [] OTHER                        -> {f.real} \cap Curves

ReadFrom(f, password, asserted) ==
    CASE f.label \in {"PRIVATE KEY", "ENCRYPTED PRIVATE KEY"} -> import_pkcs8(f, password, asserted)
      [] f.label = "EC PRIVATE KEY"                           -> import_sec1(f, asserted)
      [] OTHER                                                -> {None}

(* create_identity: PKCS#8 with everything it needs, encrypted or not.     *)
Stored(algorithm, storage, password) ==
    [algorithm |-> algorithm, storage |-> storage,
     pem |-> IF storage = "pbes2" THEN PemFile("ENCRYPTED PRIVATE KEY", algorithm, TRUE, FALSE, password)
             ELSE PemFile("PRIVATE KEY", algorithm, TRUE, FALSE, None)]

import_from_pem(password, asserted, storage, protect) ==
    /\ kept = None /\ file # None
    /\ \E algorithm \in ReadFrom(file, password, asserted) \ {None} :
         kept' = Stored(algorithm, storage, trim(protect))
    /\ misread' = (asserted \notin {None, key})
    /\ UNCHANGED <<key, file, wrapping>>

(* identity new shows its seed phrase; importing the phrase derives the    *)
(* key again.  The curve is an argument then, and secp256k1 by default.    *)
new(storage, protect) ==
    /\ kept = None /\ file = None
    /\ storage = "pbes2" => protect.word \notin Short
    /\ key' = "secp256k1" /\ kept' = Stored("secp256k1", storage, trim(protect)) /\ misread' = FALSE
    /\ UNCHANGED <<file, wrapping>>

import_from_seed_phrase(curve, storage, protect) ==
    /\ kept = None /\ file = None
    /\ kept' = Stored(curve, storage, trim(protect))
    /\ misread' = (curve # key)
    /\ UNCHANGED <<key, file, wrapping>>

(* load_plaintext_identity and load_pbes2_identity assert the label.       *)
load(identity, password) ==
    LET sealed == identity.storage = "pbes2"
    IN IF /\ identity.pem.label = IF sealed THEN "ENCRYPTED PRIVATE KEY" ELSE "PRIVATE KEY"
          /\ sealed => password = identity.pem.seal
       THEN ReadAs(identity.pem.real, identity.algorithm) ELSE {None}

(* export_identity: decrypted if need be, and encrypted again if asked to. *)
export_identity(password, wrap) ==
    /\ kept # None
    /\ wrap # None => wrap.word \notin Short
    /\ kept.storage = "pbes2" => trim(password) = kept.pem.seal
    /\ file' = IF wrap = None THEN PemFile("PRIVATE KEY", kept.pem.real, TRUE, FALSE, None)
               ELSE PemFile("ENCRYPTED PRIVATE KEY", kept.pem.real, TRUE, FALSE, trim(wrap))
    /\ wrapping' = wrap
    /\ UNCHANGED <<key, kept, misread>>

(* identity delete, or another machine.                                    *)
Forget == kept # None /\ kept' = None /\ misread' = FALSE /\ UNCHANGED <<key, file, wrapping>>

KeyInit ==
    /\ file \in Files \cup {None}
    /\ key = IF file = None THEN "secp256k1" ELSE file.real
    /\ wrapping = None /\ kept = None /\ misread = FALSE

KeyNext ==
    \/ \E asserted \in Algorithms \cup {None}, storage \in Storages, p \in Texts, protect \in Texts :
         import_from_pem(p, asserted, storage, protect)
    \/ \E storage \in Storages, protect \in Texts :
         new(storage, protect) \/ \E curve \in Algorithms : import_from_seed_phrase(curve, storage, protect)
    \/ \E p \in Texts, wrap \in Texts \cup {None} : ~misread /\ export_identity(p, wrap)
    \/ Forget

KeySpec == KeyInit /\ [][KeyNext]_keyVars

(* Unless the user says that it is something else, a key signs as the same *)
(* principal wherever it has been: it is stored under its own algorithm,   *)
(* loads under it, and what export writes can be imported again by whoever *)
(* types the password it was exported with, whether export was given it in *)
(* a file or not (a file without a curve is never guessed at; import.rs,   *)
(* "make sure the user is not making a mistake").  With the file itself it *)
(* may not open: import takes the text of a password file as it is, and    *)
(* export without the white space at its ends.                             *)
KeyKept ==
    /\ kept # None /\ ~misread => kept.algorithm = key /\ load(kept, kept.pem.seal) = {key}
    /\ wrapping # None => ReadFrom(file, trim(wrapping), None) = {key}
===============================================================================
