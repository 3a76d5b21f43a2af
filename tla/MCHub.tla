------------------------------- MODULE MCHub -------------------------------
(***************************************************************************)
(* The hub alone, fed with numbered messages by an unconstrained publisher. *)
(***************************************************************************)
EXTENDS Hub

CONSTANTS
    MaxMessages,  \* bound: messages published in one behaviour
    c1, c2

TwoClients == {c1, c2}

\* The caller of hub.broadcast: the matching loop.
Source ==
    /\ Len(stream) + Len(broadcast) < MaxMessages
    /\ Publish(Len(stream) + Len(broadcast) + 1)
    /\ UNCHANGED <<clients, send, closed, clientVars, stream, joined, panicked>>

MCNext == HubNext \/ Source
MCSpec == HubInit /\ [][MCNext]_hubVars
=============================================================================
