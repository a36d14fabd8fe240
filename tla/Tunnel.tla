-------------------------------- MODULE Tunnel --------------------------------
(***************************************************************************)
(* What the two programs promise a browser together: it hears the pieces   *)
(* of the answer to its own request, in order, each once, and is hung up   *)
(* on when that answer is whole.  Pieces are left out only when the proxy  *)
(* has no idle message for them.  Nothing is promised to a browser that is *)
(* excused: it left, or could not be served; it may be hung up on at any   *)
(* time.                                                                   *)
(***************************************************************************)
EXTENDS Naturals, Sequences, Functions

CONSTANTS Browsers, Requests, MaxPieces

VARIABLES
    serves,   \* the browser whose request an HttpRequest carries out: none or one
    given,    \* how many pieces of the answer curl has given
    ended,    \* requests curl has ended
    heard,    \* what was sent to each browser: requests and pieces, oldest first
    dropped,  \* pieces left out
    dry,      \* the proxy has no idle message for a reply
    excused,  \* browsers nothing is promised any more
    closed    \* browsers that were hung up on

vars == <<serves, given, ended, heard, dropped, dry, excused, closed>>

TunnelInit ==
    /\ serves = [r \in Requests |-> {}] /\ given = [r \in Requests |-> 0] /\ ended = {}
    /\ heard = [b \in Browsers |-> <<>>] /\ dropped = {}
    /\ dry \in BOOLEAN /\ excused = {} /\ closed = {}

Serve(r, b) ==
    /\ serves[r] = {}
    /\ serves' = [serves EXCEPT ![r] = {b}]
    /\ UNCHANGED <<given, ended, heard, dropped>>

Give(r) ==
    /\ serves[r] # {} /\ r \notin ended /\ given[r] < MaxPieces
    /\ given' = [given EXCEPT ![r] = @ + 1]
    /\ UNCHANGED <<serves, ended, heard, dropped>>

End(r) ==
    /\ serves[r] # {} /\ ended' = ended \cup {r}
    /\ UNCHANGED <<serves, given, heard, dropped>>

\* Pieces of a request in some set of pairs, and those a browser has not heard.
Of(r, pieces)   == {k \in 1 .. given[r] : <<r, k>> \in pieces}
Unheard(r, b)   == 1 .. given[r] \ Of(r, Range(heard[b]))

\* The next piece of its answer, all before it were heard or dropped.
Hear(r, b, k) ==
    /\ serves[r] = {b} /\ b \notin closed
    /\ k \in Unheard(r, b)
    /\ \A j \in Unheard(r, b) : j < k => <<r, j>> \in dropped
    /\ \A j \in Of(r, Range(heard[b])) : j < k
    /\ heard' = [heard EXCEPT ![b] = Append(@, <<r, k>>)]
    /\ UNCHANGED <<serves, given, ended, dropped>>

\* The pool may be dry before any step: that is not up to the tunnel.
Drop(r, k) ==
    /\ dry /\ k \in 1 .. given[r]
    /\ dropped' = dropped \cup {<<r, k>>}
    /\ UNCHANGED <<serves, given, ended, heard>>

Whole(r, b) == r \in ended /\ \A k \in Unheard(r, b) : <<r, k>> \in dropped

\* Who is hung up on without being excused has an answer that is whole.
HangsUpRightly ==
    \A b \in closed' \ closed :
        b \in excused' \/ \E r \in Requests : serves[r] = {b} /\ Whole(r, b)'

TunnelNext ==
    /\ \/ UNCHANGED <<serves, given, ended, heard, dropped>>
       \/ \E r \in Requests :
            \/ Give(r) \/ End(r)
            \/ \E b \in Browsers : Serve(r, b) \/ \E k \in 1 .. given[r] : Hear(r, b, k)
            \/ \E k \in 1 .. given[r] : Drop(r, k)
    /\ excused \subseteq excused' /\ closed \subseteq closed'
    /\ HangsUpRightly

TunnelSpec == TunnelInit /\ [][TunnelNext]_vars
=============================================================================
