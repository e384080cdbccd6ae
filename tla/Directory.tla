----------------------------- MODULE Directory -----------------------------
(***************************************************************************)
(* The users and groups: the table the radio side looks callers up in      *)
(* (kerchunk_user), the configuration it is built from (kerchunk_config,   *)
(* memory and file), the web server's requests that change them and the    *)
(* reload the main loop runs when SIGHUP came.  Requests and the reload    *)
(* exclude each other by the configuration mutex; the signal is sent after *)
(* the mutex is given back.  A section (user.N, group.N) is an id.         *)
(***************************************************************************)
EXTENDS Naturals

CONSTANTS DirIds,          \* ids of sections, in the order they are tried
          Names,           \* the contents of a section, as far as users differ
          MaxDirInputs,    \* bound: requests, edits
          MaxDirFaults     \* bound: crashes, files that cannot be read or written

VARIABLES users_cfg,       \* kerchunk_core_get_users_config: the sections in memory
          users_file,      \* the file as it is on the disk
          g_users,         \* the table
          separate,        \* users.conf is a file of its own
          g_reload,
          config_mutex, web_req, main_reload, editor,
          unread,          \* history: the last reload could not read a file
          dir_inputs, dir_faults

dirVars == <<users_cfg, users_file, g_users, separate, g_reload, config_mutex,
             web_req, main_reload, editor, unread, dir_inputs, dir_faults>>

NoName == "none"
Sections == [DirIds -> Names \cup {NoName}]
NoSections == [i \in DirIds |-> NoName]

DirInit ==
    /\ users_file \in {s \in Sections : \A i, j \in DirIds : i < j /\ s[i] = NoName => s[j] = NoName}
    /\ users_cfg = users_file /\ g_users = users_file
    /\ separate \in BOOLEAN
    /\ g_reload = FALSE /\ config_mutex = "free"
    /\ web_req = "none" /\ main_reload = "none" /\ editor = "none"
    /\ unread = FALSE /\ dir_inputs = 0 /\ dir_faults = 0

DirInput == dir_inputs < MaxDirInputs /\ dir_inputs' = dir_inputs + 1 /\ UNCHANGED dir_faults
Fault == dir_faults < MaxDirFaults /\ dir_faults' = dir_faults + 1 /\ UNCHANGED dir_inputs
Counted == UNCHANGED <<dir_inputs, dir_faults>>

(* --------------------- requests, on the web thread ---------------------- *)

\* What a request holds the mutex for: the sections are changed in memory, and
\* the request goes on to save them.
Changes(cfg) ==
    /\ web_req = "none" /\ config_mutex = "free" /\ DirInput
    /\ config_mutex' = "web" /\ users_cfg' = cfg /\ web_req' = "save"
    /\ UNCHANGED <<users_file, g_users, separate, g_reload, main_reload, editor, unread>>

\* The id is the first one that is not in the TABLE, which a reload brings up to date.
FirstFree(i) == g_users[i] = NoName /\ \A j \in DirIds : j < i => g_users[j] # NoName

handle_api_create == \E i \in DirIds, n \in Names : FirstFree(i) /\ Changes([users_cfg EXCEPT ![i] = n])
handle_api_update == \E i \in DirIds, n \in Names : Changes([users_cfg EXCEPT ![i] = n])
handle_api_delete == \E i \in DirIds : Changes([users_cfg EXCEPT ![i] = NoName])

\* The name is looked up in the table before the mutex is taken; the limits on
\* how often one may register only refuse.
handle_api_register ==
    \E i \in DirIds, n \in Names :
        /\ \A j \in DirIds : g_users[j] # n
        /\ FirstFree(i) /\ Changes([users_cfg EXCEPT ![i] = n])

\* The sections of the configuration proper: the same file when users have none of their own.
handle_api_config_put == Changes(users_cfg)

\* The new file is renamed over the old one.  What kerchunk_config_save returns is not looked at.
kerchunk_config_save ==
    /\ web_req = "save"
    /\ \/ users_file' = users_cfg /\ Counted
       \/ Fault /\ UNCHANGED users_file
    /\ config_mutex' = "free" /\ web_req' = "signal"
    /\ UNCHANGED <<users_cfg, g_users, separate, g_reload, main_reload, editor, unread>>

Signals ==
    /\ web_req = "signal" /\ g_reload' = TRUE /\ web_req' = "none"
    /\ UNCHANGED <<users_cfg, users_file, g_users, separate, config_mutex, main_reload, editor, unread>>
    /\ Counted

(* ---------------- an editor, `config reload`, the signal ---------------- *)

Edits ==
    /\ editor = "none" /\ DirInput
    /\ \E i \in DirIds, n \in Names \cup {NoName} : users_file' = [users_file EXCEPT ![i] = n]
    /\ editor' = "signal"
    /\ UNCHANGED <<users_cfg, g_users, separate, g_reload, config_mutex, web_req, main_reload, unread>>

EditorSignals ==
    /\ editor = "signal" /\ editor' = "none" /\ g_reload' = TRUE
    /\ UNCHANGED <<users_cfg, users_file, g_users, separate, config_mutex, web_req, main_reload, unread>>
    /\ Counted

(* ---------------------- the reload of the main loop --------------------- *)

ReloadBegins ==
    /\ main_reload = "none" /\ g_reload
    /\ g_reload' = FALSE /\ main_reload' = "lock"
    /\ UNCHANGED <<users_cfg, users_file, g_users, separate, config_mutex, web_req, editor, unread>>
    /\ Counted

\* A file that cannot be opened leaves the configuration in memory empty; when it is
\* the main file the table stays as it was.
kerchunk_config_reload ==
    /\ main_reload = "lock" /\ config_mutex = "free"
    /\ \/ /\ main_reload' = "users" /\ config_mutex' = "main"
          /\ users_cfg' = (IF separate THEN users_cfg ELSE users_file)
          /\ UNCHANGED unread /\ Counted
       \/ /\ Fault /\ main_reload' = "none" /\ unread' = TRUE
          /\ users_cfg' = (IF separate THEN users_cfg ELSE NoSections)
          /\ UNCHANGED config_mutex
    /\ UNCHANGED <<users_file, g_users, separate, g_reload, web_req, editor>>

(* Mutant: the request for a reload is forgotten when the reload is over.    *)
ReloadEnds_ForgetsRequest == main_reload' = "none" /\ config_mutex' = "free" /\ g_reload' = FALSE
ReloadEnds == main_reload' = "none" /\ config_mutex' = "free" /\ UNCHANGED g_reload

\* The table is built from what is in memory now, whether or not it could be read.
UsersLoaded ==
    /\ main_reload = "users"
    /\ \/ LET cfg == IF separate THEN users_file ELSE users_cfg IN
          users_cfg' = cfg /\ g_users' = cfg /\ unread' = FALSE /\ Counted
       \/ /\ separate /\ Fault
          /\ users_cfg' = NoSections /\ g_users' = NoSections /\ unread' = TRUE
    /\ ReloadEnds
    /\ UNCHANGED <<users_file, separate, web_req, editor>>

(* The process dies between any two steps and starts from its files.         *)
Restarts ==
    /\ Fault
    /\ users_cfg' = users_file /\ g_users' = users_file
    /\ g_reload' = FALSE /\ config_mutex' = "free"
    /\ web_req' = "none" /\ main_reload' = "none" /\ unread' = FALSE
    /\ UNCHANGED <<users_file, separate, editor>>

MainReloads == ReloadBegins \/ kerchunk_config_reload \/ UsersLoaded
DirNext ==
    \/ handle_api_create \/ handle_api_update \/ handle_api_delete
    \/ handle_api_register \/ handle_api_config_put
    \/ kerchunk_config_save \/ Signals
    \/ Edits \/ EditorSignals
    \/ MainReloads \/ Restarts

\* The main loop comes round every 20 ms, the web thread ends its request, and who
\* edits the file asks for the reload.
DirFair == WF_dirVars(MainReloads) /\ WF_dirVars(kerchunk_config_save) /\ WF_dirVars(Signals) /\ WF_dirVars(EditorSignals)

(***************************************************************************)
(* Whatever was changed, saved, refused by the disk or edited, and wherever *)
(* the process died, in the end the radio side knows the users that are in *)
(* the file, and so does the configuration the next save will write.       *)
(***************************************************************************)
UsersSettle == <>[](unread \/ (g_users = users_file /\ users_cfg = users_file))
============================================================================
