--------------------------- MODULE RuntimeCommands ---------------------------
(***************************************************************************)
(* The commands of the runtime protocol, the response that answers each of *)
(* them (Runtime::handle_inner), and the protocol session in front of them *)
(* (protocol_session.rs): what a client has negotiated and which commands  *)
(* it may have executed.                                                   *)
(*                                                                         *)
(* A command stands for all its parameters.  Two are split where the code  *)
(* looks at a parameter: verify_passkey_user is the verification by quick  *)
(* unlock and verify_passkey_password the one by password;                 *)
(* advance_passkey_ceremony_phase goes to an open phase and                *)
(* close_passkey_ceremony_phase to a closed one.  "error" as the only      *)
(* answer is a command that is always refused.                             *)
(***************************************************************************)
EXTENDS Naturals, Sequences, FiniteSets, TLC

----------------------------------------------------------------------------
(* Commands and their responses. *)

\* Sessions, references and unlocking.
SessionArms ==
    [get_session_state |-> "session_state", list_recent_vaults |-> "vault_reference_list",
     preload_current_vault |-> "session_state",
     add_local_vault_reference |-> "vault_reference",
     begin_one_drive_login |-> "one_drive_auth_session",
     complete_pending_one_drive_login |-> "one_drive_auth_status",
     list_one_drive_children |-> "one_drive_item_list",
     add_one_drive_vault_reference |-> "vault_reference",
     set_current_vault |-> "session_state",
     retry_vault_source_sync |-> "vault_source_status",
     delete_vault_reference |-> "vault_reference_list",
     delete_vault_reference_if_not_current |-> "vault_reference_list",
     unlock_current_vault_with_password |-> "session_state",
     unlock_current_vault |-> "session_state",
     enable_quick_unlock_for_current_vault |-> "error",
     disable_quick_unlock_for_current_vault |-> "error",
     unlock_current_vault_with_quick_unlock |-> "session_state",
     open_local_vault |-> "vault_opened", lock_session |-> "session_state",
     record_user_activity |-> "session_state", unlock_with_password |-> "session_state",
     unlock_vault |-> "session_state"]

\* Entries, attachments and saving.
EntryArms ==
    [create_entry |-> "entry_detail", update_entry_fields |-> "entry_detail",
     compare_and_update_entry_fields |-> "entry_detail",
     persist_autofill_mutation |-> "autofill_persist_result",
     clear_entry_totp |-> "entry_detail", set_entry_passkey |-> "entry_detail",
     clear_entry_passkey |-> "entry_detail",
     get_passkey_user_verification_capability |-> "passkey_user_verification_capability",
     verify_passkey_user |-> "passkey_user_verified",
     verify_passkey_password |-> "passkey_user_verified",
     delete_entry |-> "saved", get_entry_attachment_content |-> "entry_attachment_content",
     add_entry_attachment |-> "entry_detail",
     update_entry_attachment_metadata |-> "entry_detail",
     replace_entry_attachment_content |-> "entry_detail",
     delete_entry_attachment |-> "entry_detail", save_vault |-> "save_vault_result"]

\* Reads of a vault and its settings, and what only the resident shell answers.
QueryArms ==
    [get_database_settings |-> "database_settings",
     update_database_settings |-> "database_settings_commit_result",
     list_groups |-> "group_tree", list_entries |-> "entry_list",
     get_entry_detail |-> "entry_detail", list_entry_history |-> "entry_history_list",
     get_entry_history_detail |-> "entry_history_detail",
     find_fill_candidates |-> "fill_candidates",
     get_autofill_credential |-> "autofill_credential",
     get_autofill_entry_fields |-> "autofill_entry_fields",
     get_autofill_create_context |-> "autofill_create_context",
     activate_resident_app |-> "error", get_browser_integration_settings |-> "error",
     find_exact_matching_entry_ids |-> "entry_id_list"]

\* Ceremonies: the ledger.
LedgerArms ==
    [list_passkey_credentials |-> "passkey_credential_list",
     register_passkey_ceremony |-> "passkey_ceremony_registered",
     advance_passkey_ceremony_phase |-> "passkey_ceremony_advanced",
     close_passkey_ceremony_phase |-> "passkey_ceremony_advanced",
     bind_passkey_ceremony_vault |-> "passkey_ceremony_vault_bound",
     query_passkey_ceremony_ledger |-> "passkey_ceremony_ledger",
     reconcile_passkey_ceremony_ledger |-> "passkey_ceremony_reconciliation",
     mark_passkey_ceremony_unknown_delivery |-> "passkey_ceremony_advanced"]

\* Ceremonies: credentials.
CredentialArms ==
    [create_passkey_assertion |-> "passkey_assertion",
     create_passkey_registration |-> "passkey_registration",
     save_passkey_registration |-> "save_vault_result",
     abort_passkey_registration |-> "saved", commit_passkey_registration |-> "saved",
     passkey_credential_status |-> "passkey_credential_status",
     passkey_credential_status_batch |-> "passkey_credential_status_batch",
     update_entry |-> "error"]

Answers == SessionArms @@ EntryArms @@ QueryArms @@ LedgerArms @@ CredentialArms
Command == DOMAIN Answers

----------------------------------------------------------------------------
(* Who may have which command executed. *)

\* command_requires_passkey_capability
PasskeyCommand ==
    DOMAIN LedgerArms
      \cup (DOMAIN CredentialArms \ {"update_entry"})
      \cup {"set_entry_passkey", "clear_entry_passkey",
            "get_passkey_user_verification_capability", "verify_passkey_user",
            "verify_passkey_password"}

AutofillCommand ==
    {"find_fill_candidates", "get_autofill_credential", "get_autofill_entry_fields",
     "get_autofill_create_context", "find_exact_matching_entry_ids",
     "persist_autofill_mutation"}

\* required_command_capabilities
Required(cmd) ==
    {"runtime-core"}
      \cup (IF cmd \in AutofillCommand THEN {"browser-autofill"} ELSE {})
      \cup (IF cmd \in {"begin_one_drive_login", "complete_pending_one_drive_login",
                        "list_one_drive_children", "add_one_drive_vault_reference",
                        "retry_vault_source_sync"} THEN {"one-drive"} ELSE {})
      \cup (IF cmd \in PasskeyCommand THEN {"passkey-ceremonies"} ELSE {})
      \cup (IF cmd \in {"enable_quick_unlock_for_current_vault",
                        "unlock_current_vault_with_quick_unlock",
                        "disable_quick_unlock_for_current_vault"}
              THEN {"quick-unlock"} ELSE {})
      \cup (IF cmd \in {"get_database_settings", "update_database_settings"}
              THEN {"database-settings"} ELSE {})

\* browser_command_allowed
BrowserCommand ==
    AutofillCommand
      \cup {"get_session_state", "get_browser_integration_settings",
            "activate_resident_app", "record_user_activity"}
      \cup (PasskeyCommand \ {"set_entry_passkey", "clear_entry_passkey",
                              "verify_passkey_password"})

\* browser_passkey_proxy_must_be_enabled: what cleans up an interrupted ceremony
\* stays available.
ProxyCommand ==
    PasskeyCommand \ {"set_entry_passkey", "clear_entry_passkey",
                      "close_passkey_ceremony_phase", "query_passkey_ceremony_ledger",
                      "reconcile_passkey_ceremony_ledger",
                      "mark_passkey_ceremony_unknown_delivery",
                      "abort_passkey_registration"}

\* The capabilities each kind of client can negotiate.
Supported(client) ==
    IF client = "resident-app"
    THEN {"runtime-core", "resident-app", "database-settings", "one-drive",
          "passkey-ceremonies", "quick-unlock"}
    ELSE {"runtime-core", "browser-extension", "browser-autofill", "passkey-ceremonies"}

----------------------------------------------------------------------------
(* RuntimeProtocolSession. *)

\* resident_app, browser_extension
NewSession(client) == [client |-> client, made |-> FALSE, caps |-> {}]

\* accept of a handshake that asks for caps: the last one counts.
Negotiated(session, caps) ==
    [session EXCEPT !.made = TRUE, !.caps = caps \cap Supported(session.client)]

\* authorize: the error, or "none" when the command is dispatched.
Refusal(session, cmd) ==
    IF ~session.made THEN "protocol_handshake_required"
    ELSE IF session.client = "browser-extension" /\ cmd \notin BrowserCommand
      THEN "browser_command_forbidden"
    ELSE IF ~({session.client} \cup Required(cmd) \subseteq session.caps)
      THEN "capability_not_negotiated"
    ELSE "none"
=============================================================================
