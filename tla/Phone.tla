-------------------------------- MODULE Phone --------------------------------
(***************************************************************************)
(* One iPhone with the app: its start-up, which wipes what an earlier      *)
(* installation left in the Keychain (FreshInstallGuard), the session of   *)
(* its user (UserSession) and the identity it votes with (DeviceIdentity). *)
(* The process may end at any step, and the app may be uninstalled and     *)
(* installed again: that takes its files away and not its Keychain.        *)
(***************************************************************************)
EXTENDS DeviceIdentity, UserSession

CONSTANTS MaxStarts, MaxInstalls      \* bounds

ASSUME BoundsAssumption == MaxStarts \in Nat /\ MaxInstalls \in Nat \ {0}

VARIABLES
  stage,       \* off, check, wipe, mark (main), splash, tabs
  marker,      \* .dcc_installed_v1, in the files of this installation
  remains,     \* is what the Keychain holds of an earlier installation? (history)
  failed,      \* has the guard failed in this installation? (history)
  starts, installs

appVars == <<stage, marker, remains, failed, starts, installs>>
vars == <<idVars, sesVars, appVars>>

Empty == [userId |-> NoUser, email |-> NoUser, name |-> NoUser]

Init ==
  /\ IdentityInit /\ SessionInit
  /\ stage = "off" /\ marker = FALSE
  /\ remains = FALSE /\ failed = FALSE
  /\ starts = 0 /\ installs = 1

Launch ==
  /\ stage = "off" /\ starts < MaxStarts
  /\ stage' = "check" /\ starts' = starts + 1
  /\ UNCHANGED <<idVars, sesVars, marker, remains, failed, installs>>

(* FreshInstallGuard.ensure, step by step.                                 *)
GuardChecksTheKeychain ==
  /\ stage = "check"
  /\ stage' = IF marker \/ storage # Empty THEN "splash" ELSE "wipe"
  /\ UNCHANGED <<idVars, sesVars, marker, remains, failed, starts, installs>>
GuardChecks ==
  /\ stage = "check"
  /\ stage' = IF marker THEN "splash" ELSE "wipe"
  /\ UNCHANGED <<idVars, sesVars, marker, remains, failed, starts, installs>>

(* deleteAll, twice over the same Keychain; the survey's secret is in a    *)
(* service of its own.                                                     *)
Wiped == storage' = Empty /\ UNCHANGED secret
GuardWipes ==
  /\ stage = "wipe"
  /\ Wiped
  /\ stage' = "mark" /\ remains' = (remains /\ storage' # Empty)
  /\ UNCHANGED <<reading, service, handed, cubit, calls, perfil, logins, leaving, excused, signIns,
                 marker, failed, starts, installs>>

GuardLeavesNoMark ==
  /\ stage = "mark"
  /\ stage' = "splash"
  /\ UNCHANGED <<idVars, sesVars, marker, remains, failed, starts, installs>>
GuardMarks ==
  /\ stage = "mark"
  /\ marker' = TRUE /\ stage' = "splash"
  /\ UNCHANGED <<idVars, sesVars, remains, failed, starts, installs>>

(* The Keychain or the file system refuses: the app starts as it is.       *)
GuardFails ==
  /\ stage \in {"check", "wipe", "mark"}
  /\ stage' = "splash" /\ failed' = TRUE
  /\ UNCHANGED <<idVars, sesVars, marker, remains, starts, installs>>

ToTabs ==
  /\ stage = "splash" /\ EnterTabs
  /\ stage' = "tabs"
  /\ UNCHANGED <<idVars, marker, remains, failed, starts, installs>>

Use ==
  /\ stage = "tabs"
  /\ \/ SessionNext /\ UNCHANGED idVars
     \/ IdentityNext /\ UNCHANGED sesVars
  /\ UNCHANGED appVars

Die ==
  /\ stage # "off"
  /\ IdentityForgotten /\ SessionForgotten
  /\ stage' = "off"
  /\ UNCHANGED <<secret, handed, storage, signIns, marker, remains, failed, starts, installs>>

Reinstall ==
  /\ stage = "off" /\ installs < MaxInstalls
  /\ marker' = FALSE /\ failed' = FALSE
  /\ remains' = (storage # Empty)
  /\ installs' = installs + 1
  /\ UNCHANGED <<idVars, sesVars, stage, starts>>

Next == \/ Launch \/ GuardChecks \/ GuardWipes \/ GuardMarks \/ GuardFails
        \/ ToTabs \/ Use \/ Die \/ Reinstall

Spec == Init /\ [][Next]_vars

(* The Keychain answers, and a call ends within its 15 seconds.            *)
Fairness ==
  /\ WF_vars((ReadLocalId \/ LoadDecides \/ LoadUser) /\ UNCHANGED <<idVars, appVars>>)
  /\ \A c \in Slots : WF_vars((ProfileArrives(c) \/ ProfileFails(c))
                               /\ UNCHANGED <<idVars, appVars>>)
FairSpec == Spec /\ Fairness

-----------------------------------------------------------------------------

TypeOK ==
  /\ IdentityTypeOK /\ SessionTypeOK
  /\ stage \in {"off", "check", "wipe", "mark", "splash", "tabs"}
  /\ marker \in BOOLEAN /\ remains \in BOOLEAN /\ failed \in BOOLEAN
  /\ starts \in 0..MaxStarts /\ installs \in 1..MaxInstalls

(* An installation starts clean: what an earlier one left is gone before   *)
(* any screen reads it, unless the wipe failed.                            *)
StartsClean == stage \in {"splash", "tabs"} /\ remains => failed

(* The session and the name of this installation are never wiped, unless   *)
(* an earlier start of it could not leave its marker.                      *)
OwnDataIsKept ==
  [][stage = "wipe" /\ storage' # storage => remains \/ failed]_vars

=============================================================================
