------------------------------ MODULE Keystore ------------------------------
(***************************************************************************)
(* The device's identity (identity/keystore.rs, identity/types.rs): one     *)
(* keypair in the OS keyring, or in a test profile's file, and a row of     *)
(* user_identities for every keypair there has been.  Commands run side by  *)
(* side; IdentityService lets one at a time at the keyring, and each keeps  *)
(* the lock to its end, its database write included.  The app may die at    *)
(* any step, and the keyring may be locked or out of reach.                 *)
(***************************************************************************)
EXTENDS Integers, FiniteSets

CONSTANTS Keys,         \* bound: the keypairs generate() gives out
          Commands,     \* calls of the service, under way side by side
          MaxFaults     \* bound: crashes, and failures of keyring and database

NoKey == "no key"
NoCommand == "no command"

ASSUME KeystoreAssumption ==
    MaxFaults \in Nat /\ NoKey \notin Keys /\ NoCommand \notin Commands

VARIABLES keyring,      \* the keypair stored, or NoKey
          minted,       \* the keypairs generated so far
          identities,   \* those with a user_identities row
          keyLock,      \* the command holding the service's lock, or NoCommand
          command,      \* per command: what it is, where it is, its keypair
          given,        \* keypairs returned since the last rotation
          named,        \* user ids returned by commands that promise a row
          faults

keystoreVars == <<keyring, minted, identities, keyLock, command, given, named, faults>>
records == <<minted, identities, given, named>>

CommandKinds == {"get_or_create", "ensure_keypair", "get", "rotate", "load_keypair", "ensure_user_row"}
Creating == {"get_or_create", "ensure_keypair"}     \* a first launch makes the keypair
NoTask == [kind |-> "none", at |-> "over", key |-> NoKey]

KeystoreInit ==
    /\ keyring = NoKey /\ minted = {} /\ identities = {}
    /\ keyLock = NoCommand
    /\ command = [c \in Commands |-> NoTask]
    /\ given = {} /\ named = {} /\ faults = 0

Standing(c, place) == command[c].at = place
Ends(c) == command' = [command EXCEPT ![c] = NoTask] /\ keyLock' = NoCommand
Fault == faults < MaxFaults /\ faults' = faults + 1
Has(c, k, place) == command' = [command EXCEPT ![c].at = place, ![c].key = k]

\* A fresh keypair: no two are ever the same.
Generate(c) == \E k \in Keys \ minted: minted' = minted \cup {k} /\ Has(c, k, "store")

(* A command is called; a display name that does not pass ends it here.       *)
Called(c, kind) ==
    /\ Standing(c, "over")
    /\ command' = [command EXCEPT ![c] = [kind |-> kind, at |-> "lock", key |-> NoKey]]
    /\ UNCHANGED <<keyring, records, keyLock, faults>>

Entered(c) ==
    /\ Standing(c, "lock") /\ keyLock = NoCommand
    /\ keyLock' = c
    /\ IF command[c].kind = "rotate"
       THEN Generate(c)
       ELSE Has(c, NoKey, "load") /\ UNCHANGED minted
    /\ UNCHANGED <<keyring, identities, given, named, faults>>

(* The keyring is read.  Empty is a first launch, and only then is a keypair  *)
(* made; ensure_keypair and load_keypair return what is there; the others go  *)
(* on to the row, ensure_user_row without the lock.                           *)
LoadKey(c) ==
    /\ Standing(c, "load") /\ UNCHANGED <<keyring, identities, named, faults>>
    /\ LET kind == command[c].kind IN
        \/ /\ keyring = NoKey /\ kind \in Creating
           /\ Generate(c) /\ UNCHANGED <<keyLock, given>>
        \/ /\ keyring = NoKey /\ kind \notin Creating      \* NotInitialized
           /\ Ends(c) /\ UNCHANGED <<minted, given>>
        \/ /\ keyring # NoKey /\ kind \in {"ensure_keypair", "load_keypair"}
           /\ Ends(c) /\ given' = given \cup {keyring} /\ UNCHANGED minted
        \/ /\ keyring # NoKey /\ kind \in {"get_or_create", "get"}
           /\ Has(c, keyring, "row") /\ UNCHANGED <<keyLock, minted, given>>
        \/ /\ keyring # NoKey /\ kind = "ensure_user_row"
           /\ Has(c, keyring, "row") /\ keyLock' = NoCommand /\ UNCHANGED <<minted, given>>

\* A plausible slip: a keyring that cannot be read is taken for an empty one.
LoadFailsAsEmpty(c) ==
    /\ Standing(c, "load") /\ command[c].kind \in Creating /\ Fault
    /\ Generate(c) /\ UNCHANGED <<keyring, identities, keyLock, given, named>>

(* A keyring that is locked, corrupt or out of reach fails the command.       *)
LoadFails(c) ==
    /\ Standing(c, "load") /\ Fault
    /\ Ends(c) /\ UNCHANGED <<keyring, records>>

(* store is the rotation primitive: it overwrites what is there.              *)
StoreKey(c) ==
    /\ Standing(c, "store")
    /\ keyring' = command[c].key
    /\ given' = IF command[c].kind = "rotate" THEN {} ELSE given
    /\ Has(c, command[c].key, "row")
    /\ UNCHANGED <<minted, identities, keyLock, named, faults>>

StoreFails(c) ==
    /\ Standing(c, "store") /\ Fault
    /\ Ends(c) /\ UNCHANGED <<keyring, records>>

\* Who writes the row still holding the lock, and who after it.
LeavesRow(c) ==
    IF command[c].kind = "ensure_user_row"
    THEN command' = [command EXCEPT ![c] = NoTask] /\ UNCHANGED keyLock
    ELSE Ends(c)

(* The row is inserted or touched; an older keypair's row stays.              *)
UpsertUserIdentity(c) ==
    /\ Standing(c, "row")
    /\ LET k == command[c].key IN
         /\ identities' = identities \cup {k}
         /\ named' = IF command[c].kind = "ensure_keypair" THEN named ELSE named \cup {k}
         /\ given' = IF command[c].kind = "ensure_user_row" THEN given ELSE given \cup {k}
    /\ LeavesRow(c)
    /\ UNCHANGED <<keyring, minted, faults>>

(* The keypair is stored by now and stays so, row or no row.                  *)
UpsertFails(c) ==
    /\ Standing(c, "row") /\ Fault
    /\ LeavesRow(c) /\ UNCHANGED <<keyring, records>>

(* The app dies; keyring and database are as the last step left them.         *)
AppDies ==
    /\ Fault
    /\ command' = [c \in Commands |-> NoTask] /\ keyLock' = NoCommand
    /\ UNCHANGED <<keyring, records>>

KeystoreNext ==
    \/ \E c \in Commands:
         \/ \E kind \in CommandKinds: Called(c, kind)
         \/ Entered(c) \/ LoadKey(c) \/ LoadFails(c) \/ StoreKey(c) \/ StoreFails(c)
         \/ UpsertUserIdentity(c) \/ UpsertFails(c)
    \/ AppDies

KeystoreSpec == KeystoreInit /\ [][KeystoreNext]_keystoreVars

-----------------------------------------------------------------------------
KeystoreTypeOK ==
    /\ keyring \in Keys \cup {NoKey} /\ minted \subseteq Keys /\ identities \subseteq Keys
    /\ keyLock \in Commands \cup {NoCommand}
    /\ command \in [Commands -> [kind: CommandKinds \cup {"none"}, key: Keys \cup {NoKey},
                                 at: {"over", "lock", "load", "store", "row"}]]
    /\ given \subseteq Keys /\ named \subseteq Keys /\ faults \in Nat

(* The device is one user.  Whoever was given a keypair since the last        *)
(* rotation was given the one in the keyring, however many first launches,    *)
(* failing keyrings and crashes there were; and a user id that was handed out *)
(* for a download or for the interface has its row for foreign keys to name.  *)
OneIdentity ==
    /\ \A k \in given: k = keyring
    /\ named \subseteq identities
=============================================================================
