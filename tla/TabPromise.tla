----------------------------- MODULE TabPromise -----------------------------
(***************************************************************************)
(* What an editor tab is promised, without pools, locks and awaits: a tab  *)
(* relies on the connection its last statement answered on, with the       *)
(* settings, temporary tables and open transaction it has there.  Nobody   *)
(* else works on that connection, and the tab never goes on from another   *)
(* one as if nothing had happened: the first answer announces it, unless   *)
(* a statement of the tab has failed in between or two ran at once.        *)
(***************************************************************************)
CONSTANTS Tabs, Conns, None

VARIABLES
    on,     \* the connection each tab relies on, None without one
    rely    \* "none", "kept", "told" (kept, and announced by the last answer),
            \* "gone" untold, or "excused": gone, and a statement has failed since
            \* or two were in flight

Relying == {"kept", "told"}

Init ==
    /\ on = [t \in Tabs |-> None]
    /\ rely = [t \in Tabs |-> "none"]

(* A statement answers without a word about its connection. *)
AnswersQuietly(t) ==
    /\ rely[t] # "gone"
    /\ rely[t] \in Relying => on'[t] = on[t]
    /\ rely'[t] = "kept"

Announces(t) == rely'[t] = "told"
Loses(t) == rely[t] \in Relying /\ rely'[t] = "gone"
Excused(t) == rely[t] \in Relying \cup {"gone"} /\ rely'[t] = "excused"
Forgets(t) == rely'[t] = "none"
Keeps(t) == rely'[t] = rely[t] /\ on'[t] = on[t]

(* One event may concern several tabs: a close of every database does. *)
Next ==
    /\ \A t \in Tabs :
          \/ AnswersQuietly(t) \/ Announces(t) \/ Loses(t) \/ Excused(t) \/ Forgets(t)
          \/ Keeps(t)
    /\ \A t \in Tabs : (on'[t] # None) <=> rely'[t] \in Relying
    /\ \A t, u \in Tabs : t # u /\ on'[t] # None => on'[t] # on'[u]

Spec == Init /\ [][Next]_<<on, rely>>
=============================================================================
