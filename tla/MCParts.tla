-------------------------------- MODULE MCParts --------------------------------
(* An instance of Parts for TLC.                                            *)
EXTENDS Parts, TLC

\* Two editions of a feed: a title, and per guid the address of its chapters.
Editions ==
  { [title |-> "x", chapters |-> "a" :> 1],
    [title |-> "y", chapters |-> ("a" :> 2 @@ "b" :> None)] }

\* A show under two addresses, one of which redirects.
Host == [tls |-> TRUE, host |-> "host", port |-> 443, path |-> "feed"]
Plain == [tls |-> FALSE, host |-> "host", port |-> None, path |-> "feed"]
Site == [tls |-> TRUE, host |-> "site", port |-> None, path |-> "feed"]
Given == {Plain, Site}
Landings == Site :> Host
=============================================================================
