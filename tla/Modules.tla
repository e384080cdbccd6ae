------------------------------ MODULE Modules ------------------------------
(***************************************************************************)
(* The parts of the daemon beside the repeater, its transmitter and the    *)
(* link, brought together for one check.  They share nothing that one of   *)
(* their properties is about, so their product would only multiply states: *)
(* a behaviour chooses the part in `focus` and the others rest.  Fairness  *)
(* is that of the part in focus.  Each part states what it promises itself.  *)
(***************************************************************************)
EXTENDS Autopatch, Mailbox, Gateways, JitterBuffer, Access, Records, Announcers, Speech,
        Runtime, Feeds, ControlSocket, Directory, Web

VARIABLE focus

vars == <<focus, jbVars, accVars, recVars, annVars, mailVars,
          fsVars, gwVars, spVars, rtVars, feedVars, sockVars, dirVars, webVars>>

\* A part at rest begins in one of its initial states.
Init ==
    /\ focus \in {"jitter", "access", "records", "announcers", "mailbox", "autopatch", "gateways",
                  "speech", "runtime", "feeds", "socket", "directory", "web"}
    /\ JbInit
    /\ AccInit /\ (focus = "access" \/ (users = CHOOSE t \in UserTables : TRUE))
    /\ RecInit
    /\ AnnInit /\ (focus = "announcers" \/ (cw_mode = "always" /\ sched /\ ~queue_courtesy))
    /\ MailInit
    /\ FsInit /\ (focus = "autopatch" \/ (~fs_admin_only))
    /\ GwInit /\ (focus = "gateways" \/ (~z_to_rf))
    /\ SpInit
    /\ RtInit
    /\ FeedInit /\ (focus = "feeds" \/ (~nws_auto /\ ~wx_announces))
    /\ SockInit
    /\ DirInit /\ (focus = "directory" \/ (~separate /\ users_file = [i \in DirIds |-> NoName]))
    /\ WebInit /\ (focus = "web" \/ (~g_ptt_enabled /\ ~g_public_only))

Next ==
    /\ UNCHANGED focus
    /\ IF focus = "jitter" THEN JbNext ELSE UNCHANGED jbVars
    /\ IF focus = "access" THEN AccNext ELSE UNCHANGED accVars
    /\ IF focus = "records" THEN RecNext ELSE UNCHANGED recVars
    /\ IF focus = "announcers" THEN AnnNext ELSE UNCHANGED annVars
    /\ IF focus = "mailbox" THEN MailNext ELSE UNCHANGED mailVars
    /\ IF focus = "autopatch" THEN FsNext ELSE UNCHANGED fsVars
    /\ IF focus = "gateways" THEN GwNext ELSE UNCHANGED gwVars
    /\ IF focus = "speech" THEN SpNext ELSE UNCHANGED spVars
    /\ IF focus = "runtime" THEN RtNext ELSE UNCHANGED rtVars
    /\ IF focus = "feeds" THEN FeedNext ELSE UNCHANGED feedVars
    /\ IF focus = "socket" THEN SockNext ELSE UNCHANGED sockVars
    /\ IF focus = "directory" THEN DirNext ELSE UNCHANGED dirVars
    /\ IF focus = "web" THEN WebNext ELSE UNCHANGED webVars

\* JbFair, SpFair and DirFair of the part in focus.
Fairness ==
    /\ WF_jbVars(focus = "jitter" /\ ReadEnds)
    /\ WF_jbVars(focus = "jitter" /\ (jb_playout_tick \/ PlayEnds \/ LinkTail))
    /\ SF_jbVars(focus = "jitter" /\ JbTime)
    /\ WF_spVars(focus = "speech" /\ MainWaits)
    /\ WF_spVars(focus = "speech" /\ Works)
    /\ WF_spVars(focus = "speech" /\ Announces)
    /\ WF_dirVars(focus = "directory" /\ MainReloads)
    /\ WF_dirVars(focus = "directory" /\ kerchunk_config_save)
    /\ WF_dirVars(focus = "directory" /\ Signals)
    /\ WF_dirVars(focus = "directory" /\ EditorSignals)

Spec == Init /\ [][Next]_vars /\ Fairness
=============================================================================
