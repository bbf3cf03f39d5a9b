-------------------------------- MODULE Ports --------------------------------
(***************************************************************************)
(* What the message broker promises its users, without tables, identities  *)
(* or ring buffers: a port is one open end of a link.  It has one holder,  *)
(* a set of rights and an inbox.  A message put into the other port of the *)
(* link arrives once, in order, under the name of the port's holder, and   *)
(* stays readable when the sender's port is gone.                          *)
(***************************************************************************)
EXTENDS Naturals, Sequences

CONSTANTS Owners, Payloads

VARIABLES ports,  \* open ports: <<link, side>> to [holder, rights, inbox]
          links   \* links opened so far

portVars == <<ports, links>>

Rights == {"read", "write", "transfer"}
Other(p) == <<p[1], 1 - p[2]>>
OpenPort(holder) == [holder |-> holder, rights |-> Rights, inbox |-> <<>>]

Init ==
    /\ ports = [p \in {} |-> OpenPort(0)]
    /\ links = 0

\* A link is new and both of its ports open together.
OpenLink ==
    \E a, b \in Owners :
       LET fresh == {<<links + 1, 0>>, <<links + 1, 1>>} IN
       /\ links' = links + 1
       /\ ports' = [p \in DOMAIN ports \cup fresh |->
                       IF p \notin fresh THEN ports[p]
                       ELSE OpenPort(IF p[2] = 0 THEN a ELSE b)]

Put ==
    \E p \in DOMAIN ports, m \in Payloads :
       /\ Other(p) \in DOMAIN ports
       /\ "write" \in ports[p].rights
       /\ ports' = [ports EXCEPT ![Other(p)].inbox =
                       Append(@, [sender |-> ports[p].holder, payload |-> m])]
       /\ UNCHANGED links

Take ==
    \E p \in DOMAIN ports :
       /\ "read" \in ports[p].rights
       /\ ports[p].inbox # <<>>
       /\ ports' = [ports EXCEPT ![p].inbox = Tail(@)]
       /\ UNCHANGED links

\* One holder gives up one port, or all of its ports.
Drop ==
    \E o \in Owners, gone \in SUBSET DOMAIN ports :
       /\ \A p \in gone : ports[p].holder = o
       /\ \/ \E p \in gone : gone = {p}
          \/ \A p \in DOMAIN ports \ gone : ports[p].holder # o
       /\ ports' = [p \in DOMAIN ports \ gone |-> ports[p]]
       /\ UNCHANGED links

\* A port may change hands; its rights never grow and its inbox moves along.
Move ==
    \E p \in DOMAIN ports, o \in Owners, r \in SUBSET Rights \ {{}} :
       /\ "transfer" \in ports[p].rights
       /\ r \subseteq ports[p].rights
       /\ ports' = [ports EXCEPT ![p].holder = o, ![p].rights = r]
       /\ UNCHANGED links

Next == OpenLink \/ Put \/ Take \/ Drop \/ Move

Spec == Init /\ [][Next]_portVars
=============================================================================
