----------------------------- MODULE MCUpstream -----------------------------
(* Configurations of Upstream for TLC.                                     *)
EXTENDS Upstream

Server(weight, maxFails, down, backup) ==
    [weight |-> weight, max_fails |-> maxFails, down |-> down, backup |-> backup]

\* Servers of different weight, and a backup.
Heavy  == Server(2, 1, FALSE, FALSE)
Light  == Server(1, 2, FALSE, FALSE)
Backup == Server(1, 1, FALSE, TRUE)

Conf(servers, balancer, next, tries, kinds) ==
    [servers |-> servers, balancer |-> balancer, next |-> next, tries |-> tries, kinds |-> kinds]

Default == {"error", "timeout"}
Every == Default \cup {"invalid_header", "http_500", "http_404"}

\* ndg_load_balance in front of proxy_pass.
NdgConfs == {Conf(<<Heavy, Light>>, "ndg", Default, 0, {"plain"})}

AllConfs == NdgConfs \cup {
    Conf(<<Heavy, Light, Backup>>, "rr", Default, 0, {"plain"}),
    Conf(<<Heavy, Light>>, "rr", Every, 1, {"cacheable"}),
    Conf(<<Server(1, 1, TRUE, FALSE), Server(3, 0, FALSE, FALSE)>>, "rr", Every, 0, {"unbuffered"}),
    Conf(<<Heavy>>, "ndg", Every, 0, {"plain"})}
=============================================================================
