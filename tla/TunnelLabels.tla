----------------------------- MODULE TunnelLabels -----------------------------
(***************************************************************************)
(* The UPDATE of migrations/postgres/20260916_001_tunnel_public_hostname:  *)
(* public tunnels registered before their host label was kept get one,     *)
(* under the unique index tunnels_hostname_uq.  An UPDATE that met the     *)
(* index would abort the migration, and with it the start of the service.  *)
(*                                                                         *)
(* Names and org ids stand for their places in the order of their texts.   *)
(***************************************************************************)
EXTENDS Integers

CONSTANTS
    Labels,     \* lowercased names, which Null is not
    DnsLabels,  \* those that can be a DNS label
    lower,      \* lower[name]
    Null        \* no hostname

Tunnel == [org_id : Nat, name : Nat, exposure : {"public", "private"},
           hostname : Labels \cup {Null}, created_at : Nat]

\* The primary key and the partial unique index.
Keyed(tunnels) ==
    \A t, u \in tunnels : t.org_id = u.org_id /\ t.name = u.name => t = u

tunnels_hostname_uq(tunnels) ==
    \A t, u \in tunnels : t.hostname = u.hostname /\ t.hostname # Null => t = u

\* (o.created_at, o.org_id, o.name) < (t.created_at, t.org_id, t.name)
Before(o, t) ==
    \/ o.created_at < t.created_at
    \/ o.created_at = t.created_at /\ o.org_id < t.org_id
    \/ o.created_at = t.created_at /\ o.org_id = t.org_id /\ o.name < t.name

Waits(t) == t.exposure = "public" /\ t.hostname = Null

\* The WHERE of the UPDATE, on the table as it was when the UPDATE began.
Selected(tunnels, t) ==
    /\ Waits(t)
    /\ lower[t.name] \in DnsLabels
    /\ \A h \in tunnels : h.hostname # lower[t.name]
    /\ \A o \in tunnels : Waits(o) /\ lower[o.name] = lower[t.name] => ~Before(o, t)

Labelled(tunnels, t) ==
    IF Selected(tunnels, t) THEN [t EXCEPT !.hostname = lower[t.name]] ELSE t

Updated(tunnels) == {Labelled(tunnels, t) : t \in tunnels}
=============================================================================
