-------------------------------- MODULE MCDhcp --------------------------------
(***************************************************************************)
(* Three stations for two addresses.  Time has eight ticks, an expiry      *)
(* leaves out its lowest bit: leases run out and the time wraps within a   *)
(* few steps.                                                              *)
(***************************************************************************)
EXTENDS DhcpMessages

Symmetry == Permutations(Clients)

\* The type first, last and in between; the server a request selects and the lease it would
\* like; a name with the codes of other options in it, an empty option, and a list
\* that asks for options by their codes.
MCLayouts ==
    {<<"type", "server", "address">>, <<"name", "address", "list", "type">>,
     <<"empty", "time", "type", "name", "server", "address", "list">>}
MCIp == <<192, 168, 4, 1>>
MCExtra ==
    [name |-> <<12, 5, 53, 1, 5, 50, 255>>, empty |-> <<80, 0>>, list |-> <<55, 3, 53, 51, 6>>,
     server |-> <<54, 4>> \o MCIp, time |-> <<51, 4, 0, 0, 50, 0>>]
MCMask == <<255, 255, 255, 0>>
MCLeaseSeconds == <<0, 1, 81, 128>>
=============================================================================
