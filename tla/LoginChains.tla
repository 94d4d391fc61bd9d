------------------------------ MODULE LoginChains ------------------------------
(***************************************************************************)
(* What session authority promises, with no device, row, queue or cache in *)
(* sight.  A login starts a chain of credentials; each one is an access    *)
(* session and the refresh token issued with it.                           *)
(*                                                                         *)
(*   usable    the credentials whose refresh token continues the chain     *)
(*   honoured  the credentials whose access session is accepted            *)
(*   issued    the credentials ever issued                                 *)
(***************************************************************************)
CONSTANTS Fam,  \* the chains
          Cred  \* the credentials; chain c[1]

VARIABLES usable, honoured, issued

chainVars == <<usable, honoured, issued>>

Chain(f) == {c \in Cred : c[1] = f}

(* Chains may be under way, each with one usable credential.               *)
Init ==
    /\ \A c, x \in usable : c[1] = x[1] => c = x
    /\ usable \subseteq Cred
    /\ honoured = {}
    /\ issued = usable

Issue(c) ==
    /\ c \notin issued
    /\ issued' = issued \cup {c}

(* A chain may start, and end, with a credential that has no token.        *)
Start(c) ==
    /\ Chain(c[1]) \cap issued = {}
    /\ Issue(c)
    /\ usable' \in {usable, usable \cup {c}}
    /\ honoured' = honoured \cup {c}

(* The one usable credential of a chain is spent for the next.             *)
Advance(c) ==
    \E used \in usable :
        /\ used[1] = c[1]
        /\ Issue(c)
        /\ usable' = (usable \ Chain(c[1])) \cup {c}
        /\ honoured' = honoured \cup {c}

(* Every session before it ends, with what usable credentials it finds;    *)
(* the new credential cannot be continued.                                 *)
Replace(c) ==
    /\ Chain(c[1]) \cap issued = {}
    /\ Issue(c)
    /\ usable' \subseteq usable
    /\ honoured' = {c}

(* Nothing that was taken back is given again.                             *)
Revoke ==
    /\ usable' \subseteq usable
    /\ honoured' \subseteq honoured
    /\ UNCHANGED issued

Next == Revoke \/ \E c \in Cred : Start(c) \/ Advance(c) \/ Replace(c)

Spec == Init /\ [][Next]_chainVars
==============================================================================
