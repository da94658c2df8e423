--------------------------- MODULE DeviceIdentity ---------------------------
(***************************************************************************)
(* The identity the survey counts a phone by: a secret of 32 bytes in a    *)
(* Keychain service of its own (KeychainLocalIdSource, iOS), read or       *)
(* created once per process, and the services that hand it out, one per    *)
(* survey page (DeviceIdentityService).                                    *)
(*                                                                         *)
(* A source or a service keeps the Future of its call, not the result; a   *)
(* call that fails is forgotten, so that the next one tries again.         *)
(***************************************************************************)
EXTENDS Naturals, FiniteSets

CONSTANTS
  Services,    \* services alive at a time
  Secrets      \* what Random.secure may draw

Shared  == "shared"
Missing == "missing"

ASSUME IdentityAssumption ==
  Shared \notin Services /\ Missing \notin Secrets /\ "corrupt" \notin Secrets

VARIABLES
  secret,      \* what the Keychain holds under survey_device_secret_v1
  reading,     \* per source: where _readOrCreate is, and what it has read
  service,     \* per service: closed, open (nothing pending), waiting or ready
  handed       \* every secret a service has answered with (history)

idVars == <<secret, reading, service, handed>>

Sources == Services \cup {Shared}
Stored  == Secrets \cup {Missing, "corrupt"}
Reading == [at : {"idle", "read", "write", "check", "done"}, id : Stored]
NoReading == [at |-> "idle", id |-> Missing]

SourceOfItsOwn(s) == s
(* KeychainLocalIdSource.shared: one source for the whole process.         *)
SourceOf(s) == Shared

(* A value that does not decode is an error, and is never written over.    *)
AfterRead == IF secret = Missing THEN "write" ELSE "done"

IdentityInit ==
  /\ secret \in {Missing, "corrupt"}
  /\ reading = [k \in Sources |-> NoReading]
  /\ service = [s \in Services |-> "closed"]
  /\ handed = {}

(* Everything the process knew of the identity.                            *)
IdentityForgotten ==
  /\ reading' = [k \in Sources |-> NoReading]
  /\ service' = [s \in Services |-> "closed"]

OpenSurvey(s) ==
  /\ service[s] = "closed"
  /\ service' = [service EXCEPT ![s] = "open"]
  /\ UNCHANGED <<secret, reading, handed>>

(* localId: the service asks its source, which starts reading or hands its *)
(* pending Future out again.                                               *)
AskId(s) ==
  /\ service[s] = "open"
  /\ service' = [service EXCEPT ![s] = "waiting"]
  /\ reading' = [reading EXCEPT ![SourceOf(s)].at = IF @ = "idle" THEN "read" ELSE @]
  /\ UNCHANGED <<secret, handed>>

(* The page is closed: its service goes, the read goes on.                 *)
CloseSurvey(s) ==
  /\ service[s] # "closed"
  /\ service' = [service EXCEPT ![s] = "closed"]
  /\ UNCHANGED <<secret, reading, handed>>

ReadSecret(k) ==
  /\ reading[k].at = "read"
  /\ secret # "corrupt"
  /\ reading' = [reading EXCEPT ![k] = [at |-> AfterRead, id |-> secret]]
  /\ UNCHANGED <<secret, service, handed>>

WriteSecret(k) ==
  /\ reading[k].at = "write"
  /\ \E fresh \in Secrets : secret' = fresh
  /\ reading' = [reading EXCEPT ![k].at = "check"]
  /\ UNCHANGED <<service, handed>>

(* The second read decides: what is stored is the identity.                *)
CheckSecret(k) ==
  /\ reading[k].at = "check"
  /\ secret \in Secrets
  /\ reading' = [reading EXCEPT ![k] = [at |-> "done", id |-> secret]]
  /\ UNCHANGED <<secret, service, handed>>

(* Locked before the first unlock, refused by the platform, or corrupt:    *)
(* the source forgets the call, and so does every service that waited.     *)
ReadingFails(k) ==
  /\ reading[k].at \in {"read", "write", "check"}
  /\ reading' = [reading EXCEPT ![k] = NoReading]
  /\ service' = [s \in Services |->
                   IF service[s] = "waiting" /\ SourceOf(s) = k THEN "open" ELSE service[s]]
  /\ UNCHANGED <<secret, handed>>

GetId(s) ==
  /\ service[s] = "waiting"
  /\ reading[SourceOf(s)].at = "done"
  /\ service' = [service EXCEPT ![s] = "ready"]
  /\ handed' = handed \cup {reading[SourceOf(s)].id}
  /\ UNCHANGED <<secret, reading>>

IdentityNext ==
  \/ \E s \in Services : OpenSurvey(s) \/ AskId(s) \/ CloseSurvey(s) \/ GetId(s)
  \/ \E k \in Sources : \/ ReadSecret(k) \/ WriteSecret(k) \/ CheckSecret(k)
                        \/ ReadingFails(k)

-----------------------------------------------------------------------------

IdentityTypeOK ==
  /\ secret \in Stored
  /\ reading \in [Sources -> Reading]
  /\ service \in [Services -> {"closed", "open", "waiting", "ready"}]
  /\ handed \subseteq Stored

(* One phone, one identity: every answer ever given, by any service, before *)
(* and after restarts and reinstalls, is the secret the Keychain holds.     *)
(* «nunca se escriben dos secretos distintos».                              *)
OneIdentity == handed \subseteq {secret} \cap Secrets

=============================================================================
