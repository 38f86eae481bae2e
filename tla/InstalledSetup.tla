--------------------------- MODULE InstalledSetup --------------------------
(***************************************************************************)
(* The managed half of setup_workflow.py: what "reckoning setup" may do to *)
(* a machine that is already installed.  It changes the provider through   *)
(* four files, one after the other, and when a later part fails puts them  *)
(* back one after the other, the record first, going on when one of them   *)
(* cannot be put back; it pairs Telegram; it verifies the active provider  *)
(* again; and it repairs the processing grant.  The process may be killed  *)
(* between any two writes.  Meanwhile the user may withdraw or grant       *)
(* processing from another interface.                                      *)
(***************************************************************************)
EXTENDS FiniteSets

CONSTANTS
    Cloud,      \* providers that need a key and a processing grant
    Local,      \* providers on this machine
    Fake,       \* the one of them that is a demonstration
    Nothing

VARIABLES
    key,        \* what the store knows of each provider's key
    default,    \* the store's default provider
    telegram,   \* the provider the Telegram connector names
    granted,    \* the scope of each provider's processing grant
    active,     \* the provider of the activation record
    at,         \* the part of the change, or "menu" or "off"
    picked,     \* the provider the setup process has verified
    before,     \* the files captured before the change
    torn        \* a rollback could not put the record back, for the properties

managed == <<key, default, telegram, granted, active, at, picked, before, torn>>

TypeOK ==
    /\ key \in [Cloud -> {"none", "unverified", "verified"}]
    /\ default \in Cloud \cup {Nothing}
    /\ telegram \in Cloud \cup Local \cup {Nothing}
    /\ granted \in [Cloud -> {"none", "full", "narrow"}]
    /\ active \in Cloud \cup Local
    /\ at \in {"off", "menu", "default", "telegram", "grant", "record", "reopen",
               "undo_record", "undo_credentials", "undo_telegram", "undo_grants"}

\* An installation the guided setup has finished.
Init ==
    /\ active \in Cloud \cup Local
    /\ key = [p \in Cloud |-> IF p = active THEN "verified" ELSE "none"]
    /\ default = IF active \in Cloud THEN active ELSE Nothing
    /\ telegram \in {Nothing, active}
    /\ granted = [p \in Cloud |-> IF p = active THEN "full" ELSE "none"]
    /\ at = "off"
    /\ picked = Nothing
    /\ before = Nothing
    /\ torn = FALSE

Open ==
    /\ at = "off"
    /\ at' = "menu"
    /\ UNCHANGED <<key, default, telegram, granted, active, picked, before, torn>>

Leave ==
    /\ at' = "off"
    /\ picked' = Nothing
    /\ before' = Nothing

\* The user exits, an error ends the command, or the process is killed.
Stop ==
    /\ at # "off"
    /\ Leave
    /\ UNCHANGED <<key, default, telegram, granted, active, torn>>

-----------------------------------------------------------------------------
(* Changing the provider.  The test stores the key before the change.      *)

Stored(p, verified) ==
    key' = IF p \in Cloud THEN [key EXCEPT ![p] = IF verified THEN "verified" ELSE "unverified"]
                          ELSE key

\* The settings of a failed test are saved for later; the list comes again.
SaveForLater(p) ==
    /\ at = "menu"
    /\ Stored(p, FALSE)
    /\ picked' = p
    /\ UNCHANGED <<default, telegram, granted, active, at, before, torn>>

Verify(p) ==
    /\ at = "menu"
    /\ Stored(p, TRUE)
    /\ picked' = p
    /\ at' = "default"
    /\ before' = [default |-> default, key |-> key', telegram |-> telegram,
                  granted |-> granted, active |-> active]
    /\ UNCHANGED <<default, telegram, granted, active, torn>>

Part(name, next) == at = name /\ at' = next /\ UNCHANGED <<picked, before>>

SaveDefault ==
    /\ Part("default", "telegram")
    /\ default' = IF picked \in Cloud THEN picked ELSE Nothing
    /\ UNCHANGED <<key, telegram, granted, active, torn>>

UpdateTelegram ==
    /\ Part("telegram", "grant")
    /\ telegram' = IF telegram = Nothing THEN Nothing ELSE picked
    /\ UNCHANGED <<key, default, granted, active, torn>>

\* A grant of every category, whatever the provider had.
EnsuredAfresh(p) == IF p \in Cloud THEN [granted EXCEPT ![p] = "full"] ELSE granted

\* A provider without a grant gets one of every category; a grant it has stays.
Ensured(p) ==
    IF p \in Cloud /\ granted[p] = "none" THEN [granted EXCEPT ![p] = "full"] ELSE granted

EnsureGrant ==
    /\ Part("grant", "record")
    /\ granted' = Ensured(picked)
    /\ UNCHANGED <<key, default, telegram, active, torn>>

WriteRecord ==
    /\ Part("record", "reopen")
    /\ active' = picked
    /\ UNCHANGED <<key, default, telegram, granted, torn>>

Usable(p) == p \in Cloud => key[p] = "verified"

HasGrant(p) == p \in Cloud => granted[p] # "none"

Reopen ==
    /\ at = "reopen"
    /\ Usable(active) /\ HasGrant(active)
    /\ at' = "menu"
    /\ before' = Nothing
    /\ torn' = FALSE
    /\ UNCHANGED <<key, default, telegram, granted, active, picked>>

\* A part fails, or the installation does not reopen.
Rollback ==
    /\ at \in {"default", "telegram", "grant", "record", "reopen"}
    /\ at' = "undo_record"
    /\ UNCHANGED <<key, default, telegram, granted, active, picked, before, torn>>

\* The record is left as the change wrote it.
RestoreRecordNever(ok) ==
    /\ Part("undo_record", "undo_credentials")
    /\ active' = active
    /\ torn' = (torn \/ ~ok)
    /\ UNCHANGED <<key, default, telegram, granted>>

\* Each file is put back whole, or cannot be and stays as it is.
RestoreRecord(ok) ==
    /\ Part("undo_record", "undo_credentials")
    /\ active' = IF ok THEN before.active ELSE active
    /\ torn' = (torn \/ (~ok /\ active # before.active))
    /\ UNCHANGED <<key, default, telegram, granted>>

RestoreCredentials(ok) ==
    /\ Part("undo_credentials", "undo_telegram")
    /\ key' = IF ok THEN before.key ELSE key
    /\ default' = IF ok THEN before.default ELSE default
    /\ UNCHANGED <<telegram, granted, active, torn>>

RestoreTelegram(ok) ==
    /\ Part("undo_telegram", "undo_grants")
    /\ telegram' = IF ok THEN before.telegram ELSE telegram
    /\ UNCHANGED <<key, default, granted, active, torn>>

\* The error that follows ends the command.
RestoreGrants(ok) ==
    /\ at = "undo_grants"
    /\ granted' = IF ok THEN before.granted ELSE granted
    /\ Leave
    /\ UNCHANGED <<key, default, telegram, active, torn>>

-----------------------------------------------------------------------------
(* The other sections.                                                     *)

\* The live check of the active provider; a stored key becomes verified again.
VerifyAll ==
    /\ at = "menu"
    /\ Usable(active)
    /\ key' = IF active \in Cloud THEN [key EXCEPT ![active] = "verified"] ELSE key
    /\ UNCHANGED <<default, telegram, granted, active, at, picked, before, torn>>

\* Without a provider picked in this run the connector names the demonstration.
PairTelegram ==
    /\ at = "menu"
    /\ telegram' = IF picked = Nothing THEN Fake ELSE picked
    /\ UNCHANGED <<key, default, granted, active, at, picked, before, torn>>

\* "reckoning doctor --repair", in a process of its own.
RepairGrant ==
    /\ granted' = Ensured(active)
    /\ UNCHANGED <<key, default, telegram, active, at, picked, before, torn>>

\* Another interface withdraws categories of a grant, or grants them again.
ChangeScope(p, scope) ==
    /\ granted[p] # "none"
    /\ granted' = [granted EXCEPT ![p] = scope]
    /\ UNCHANGED <<key, default, telegram, active, at, picked, before, torn>>

Next ==
    \/ \E p \in Cloud, scope \in {"full", "narrow"} : ChangeScope(p, scope)
    \/ Open \/ Stop \/ VerifyAll \/ PairTelegram \/ RepairGrant
    \/ \E p \in Cloud \cup Local : SaveForLater(p) \/ Verify(p)
    \/ SaveDefault \/ UpdateTelegram \/ EnsureGrant \/ WriteRecord \/ Reopen \/ Rollback
    \/ \E ok \in BOOLEAN :
          RestoreRecord(ok) \/ RestoreCredentials(ok) \/ RestoreTelegram(ok) \/ RestoreGrants(ok)

Spec == Init /\ [][Next]_managed

-----------------------------------------------------------------------------
(* Wherever a change of provider or its rollback is cut off or fails, the  *)
(* provider the record names has its processing grant, so that no turn is  *)
(* refused for want of one; only after a rollback that could not put the   *)
(* record back, while the grants it needs were put back, it may lack it,   *)
(* until a change reopens (the order of the writes and of the restores in  *)
(* _commit_installed_provider).                                            *)
ActiveHasGrant == ~torn => HasGrant(active)

(* What the user withdrew stays withdrawn through a repair and a change of *)
(* provider; a rollback alone, where it puts back the whole file of the    *)
(* grants it captured, may bring it back                                   *)
(* (ensure_initial_processing_grant, _FileSnapshot).                       *)
WithdrawalStays ==
    [][\A p \in Cloud : granted[p] = "narrow" /\ granted'[p] = "full" =>
          RestoreGrants(TRUE) \/ ChangeScope(p, "full")]_managed

(* An unverified credential is no default, as the store's documentation    *)
(* says (ProviderCredentialStore.is_active).  It does not hold, and no run *)
(* checks it: a key saved after a failed test may belong to the default.   *)
DefaultIsVerified == default # Nothing => key[default] = "verified"
=============================================================================
