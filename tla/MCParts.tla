---- MODULE MCParts ----
(***************************************************************************)
(* Parts for TLC: the constants a configuration cannot write.              *)
(***************************************************************************)
EXTENDS Parts

\* The public keys of three nodes.
ThreeKeys == <<"k1", "k2", "k3">>

\* An exit with two networks at home, a container's, a carrier's, and one that is down.
Nic(name, virtual, up, address) ==
  [name |-> name, virtual |-> virtual, up |-> up, address |-> address]
AtHome ==
  <<Nic("e0", FALSE, TRUE, "private"), Nic("d0", TRUE, TRUE, "private"),
    Nic("e1", FALSE, TRUE, "carrier"), Nic("e2", FALSE, FALSE, "private"),
    Nic("e3", FALSE, TRUE, "private")>>

\* Endpoints given by hand, of which one does not parse.
ByHand == {<<"a", "bad", "b">>}

\* Sequences within the limits and beyond them, some of no meaning.
Csi(private, params, final) ==
  [kind |-> "csi", private |-> private, params |-> params, final |-> final]
Osc(code, text, end) == [kind |-> "osc", code |-> code, text |-> text, end |-> end]
SomeTokens ==
  [kind : {"text", "escape"}]
  \cup {Csi(TRUE, <<"focus">>, f) : f \in {"h", "l", "m"}}
  \cup {Csi(TRUE, <<"other", "alt">>, "h"), Csi(FALSE, <<"focus">>, "h"),
        Csi(TRUE, <<"alt", "other", "focus">>, "l")}
  \cup {Osc("0", <<"a">>, end) : end \in {"bel", "st", "cut"}}
  \cup {Osc("52", <<"a">>, "bel"), Osc("2", <<"b", "ctl", "b", "b">>, "st"),
        Osc("0", <<"b", "b", "b", "b", "b">>, "bel")}

=============================================================================
