------------------------------ MODULE KeyFile ------------------------------
(***************************************************************************)
(* An agent's secret on disk: the identity (src/src/identity/keys.ts), the *)
(* wallet (src/src/identity/wallet.ts) and the key of its HTTP signatures  *)
(* (src/src/social/http-signatures.ts) are each loaded from a file, and    *)
(* made and saved first when there is none.                                *)
(*                                                                         *)
(* A call looks whether the file exists, and then either reads it or makes *)
(* a key of its own, opens the file - which empties it - and writes.  A    *)
(* secret stands for itself: it is named after the call that made it.      *)
(***************************************************************************)
EXTENDS FiniteSets

CONSTANTS
  KeyCalls,    \* the calls of loadOrGenerateKeypair, ...
  NoFile,      \* there is no file
  Empty,       \* the file was opened and nothing, or not all, is written
  Garbled      \* the file holds one key and the end of another

ASSUME KeyFileAssumption ==
  /\ NoFile # Empty /\ Empty # Garbled /\ Garbled # NoFile
  /\ {NoFile, Empty, Garbled} \cap KeyCalls = {}

VARIABLES
  keyFile,     \* the key the file holds, NoFile, Empty or Garbled
  keyStep,     \* [call -> where it stands]
  keyHeld,     \* [call -> the key it has made or returned]
  keyOverlap   \* history: whether a call has begun while another made its key

keyFileVars == <<keyFile, keyStep, keyHeld, keyOverlap>>

KeyFileInit ==
  /\ keyFile = NoFile
  /\ keyStep = [c \in KeyCalls |-> "idle"]
  /\ keyHeld = [c \in KeyCalls |-> NoFile]
  /\ keyOverlap = FALSE

KeyCallsAt(steps) == {c \in KeyCalls : keyStep[c] \in steps}

\* Mutant of FileExists: it is never looked for.
FileExistsNot == FALSE

FileExists == keyFile # NoFile

\* The file is looked for; without one a key is made.
KeyCall(c) ==
  /\ keyStep[c] = "idle"
  /\ keyStep' = [keyStep EXCEPT ![c] = IF FileExists THEN "reading" ELSE "making"]
  /\ keyHeld' = [keyHeld EXCEPT ![c] = IF FileExists THEN NoFile ELSE c]
  /\ keyOverlap' = (keyOverlap \/ KeyCallsAt({"making", "writing"}) # {})
  /\ UNCHANGED keyFile

\* readFile and JSON.parse, which throws over a file that is not a whole key.
ReadKey(c) ==
  /\ keyStep[c] = "reading"
  /\ IF keyFile \in KeyCalls
       THEN /\ keyStep' = [keyStep EXCEPT ![c] = "returned"]
            /\ keyHeld' = [keyHeld EXCEPT ![c] = keyFile]
       ELSE /\ keyStep' = [keyStep EXCEPT ![c] = "failed"]
            /\ UNCHANGED keyHeld
  /\ UNCHANGED <<keyFile, keyOverlap>>

\* The directory is there and writeFile opens the file.
OpenKeyFile(c) ==
  /\ keyStep[c] = "making"
  /\ keyStep' = [keyStep EXCEPT ![c] = "writing"]
  /\ keyFile' = Empty
  /\ UNCHANGED <<keyHeld, keyOverlap>>

\* The key is written, at the start of the file whoever has written to it meanwhile:
\* over a longer one it leaves the end of that.
WriteKey(c) ==
  /\ keyStep[c] = "writing"
  /\ keyStep' = [keyStep EXCEPT ![c] = "returned"]
  /\ keyFile' \in {c} \cup (IF keyFile = Empty THEN {} ELSE {Garbled})
  /\ UNCHANGED <<keyHeld, keyOverlap>>

\* The file system refuses, before or after the file was opened.
KeyCallFails(c) ==
  /\ keyStep[c] \in {"reading", "making", "writing"}
  /\ keyStep' = [keyStep EXCEPT ![c] = "failed"]
  /\ UNCHANGED <<keyFile, keyHeld, keyOverlap>>

\* The process dies, and with it the calls under way.
KeyCrash ==
  /\ KeyCallsAt({"reading", "making", "writing"}) # {}
  /\ keyStep' = [c \in KeyCalls |->
                   IF keyStep[c] \in {"reading", "making", "writing"} THEN "failed"
                   ELSE keyStep[c]]
  /\ UNCHANGED <<keyFile, keyHeld, keyOverlap>>

KeyFileNext ==
  \/ \E c \in KeyCalls :
       KeyCall(c) \/ ReadKey(c) \/ OpenKeyFile(c) \/ WriteKey(c) \/ KeyCallFails(c)
  \/ KeyCrash

KeyFileSpec == KeyFileInit /\ [][KeyFileNext]_keyFileVars

-----------------------------------------------------------------------------
(* Properties.                                                             *)

KeyFileTypeOK ==
  /\ keyFile \in KeyCalls \cup {NoFile, Empty, Garbled}
  /\ keyStep \in [KeyCalls -> {"idle", "reading", "making", "writing", "returned", "failed"}]
  /\ keyHeld \in [KeyCalls -> KeyCalls \cup {NoFile}]
  /\ keyOverlap \in BOOLEAN

\* An agent has one identity: whatever failed or crashed in between, a key that a
\* call has returned is the key the file holds from then on, so every later call
\* returns the same - unless a call began while another was making its key
\* (loadOrGenerateKeypair, loadOrCreateWallet, loadOrCreateRSAKeypair).
KeyStays ==
  ~keyOverlap =>
    \A c \in KeyCalls : keyStep[c] = "returned" => keyFile = keyHeld[c]
=============================================================================
