------------------------------ MODULE NetSetup ------------------------------
(***************************************************************************)
(* The network the emulator works in: netns.sh makes a namespace with      *)
(* interfaces veth0, veth1, ..., and add_iptables.sh, run inside it, sends *)
(* the packets to the two queues and routes them by their marks.  Scripts  *)
(* run one at a time; the operator may interrupt one between two commands, *)
(* and repeat them in any order, or in the order of the README if Careful. *)
(* The kernel adds a rule of iptables as often as it is asked to, deletes  *)
(* one of several, and refuses a route or rule that it already has.        *)
(***************************************************************************)
EXTENDS Integers, FiniteSets

CONSTANTS
    Sizes,       \* the <number_of_veth> the operator gives
    Careful,     \* is every setup run after a cleanup that was not interrupted?
    MaxScripts   \* bound: scripts that are run

Chains == {"OUTPUT", "INPUT"}
Marks  == {1, 2}

VARIABLES
    exists,      \* is there a namespace?
    local_ip,    \* has one of its interfaces the address 10.0.0.1?
    veths,       \* interfaces that are up
    nfqueue,     \* for each chain, how many NFQUEUE rules it has
    route,       \* the tables that have a route
    rule,        \* the marks that have a rule
    script, line, n,   \* the script that is run, its next command, its size
    last,        \* the last script that was not interrupted
    scripts

net  == <<exists, local_ip, veths, nfqueue, route, rule>>
vars == <<net, script, line, n, last, scripts>>

NoRules == [c \in Chains |-> 0]

Init ==
    /\ exists = FALSE /\ local_ip = FALSE /\ veths = 0
    /\ nfqueue = NoRules /\ route = {} /\ rule = {}
    /\ script = "none" /\ line = "none" /\ n = 0 /\ last = "none" /\ scripts = 0

-----------------------------------------------------------------------------
Start(s, first) ==
    /\ script = "none" /\ scripts < MaxScripts
    /\ script' = s /\ line' = first
    /\ scripts' = scripts + 1

At(s, l, next) ==
    /\ script = s /\ line = l
    /\ line' = next
    /\ UNCHANGED <<script, n, last, scripts>>

\* The end of a script, or its exit with an error before the first change.
End ==
    /\ line \in {"end", "exit"}
    /\ script' = "none" /\ line' = "none"
    /\ last' = IF line = "end" THEN script ELSE "none"
    /\ UNCHANGED <<net, n, scripts>>

interrupt ==
    /\ line \notin {"none", "end", "exit"}
    /\ script' = "none" /\ line' = "none"
    /\ last' = "none"
    /\ UNCHANGED <<net, n, scripts>>

-----------------------------------------------------------------------------
(* netns.sh *)

\* `ip netns add' fails if the namespace exists, and the script ends (set -e).
create_netns ==
    /\ Start("create", IF exists THEN "exit" ELSE "link")
    /\ exists' = TRUE
    /\ n' \in Sizes
    /\ UNCHANGED <<local_ip, veths, nfqueue, route, rule, last>>

\* One turn of its loop: the next interface gets its address, then it is up.
create_addr ==
    /\ At("create", "link", "up")
    /\ local_ip' = TRUE
    /\ UNCHANGED <<exists, veths, nfqueue, route, rule>>

create_up ==
    /\ At("create", "up", IF veths + 1 < n THEN "link" ELSE "end")
    /\ veths' = veths + 1
    /\ UNCHANGED <<exists, local_ip, nfqueue, route, rule>>

\* Everything that was set up in the namespace goes with it.
destroy_netns ==
    /\ Start("destroy", "end")
    /\ exists' = FALSE /\ local_ip' = FALSE /\ veths' = 0
    /\ nfqueue' = NoRules /\ route' = {} /\ rule' = {}
    /\ UNCHANGED <<n, last>>

-----------------------------------------------------------------------------
(* add_iptables.sh, which netns.sh exec runs in the namespace. *)

setup ==
    /\ exists
    /\ Careful => last = "cleanup"
    /\ Start("setup", IF local_ip THEN "OUTPUT" ELSE "exit")
    /\ UNCHANGED <<net, n, last>>

setup_nfqueue(c, next) ==
    /\ At("setup", c, next)
    /\ nfqueue' = [nfqueue EXCEPT ![c] = @ + 1]
    /\ UNCHANGED <<exists, local_ip, veths, route, rule>>

\* veth0 is the first interface; a route needs its own to be up.
device_up(k) == veths > k

\* A route that cannot be added is called existing, whatever the reason, and the
\* script goes on.
setup_route(k, at, next) ==
    /\ At("setup", at, next)
    /\ route' = IF device_up(k) THEN route \cup {k} ELSE route
    /\ UNCHANGED <<exists, local_ip, veths, nfqueue, rule>>

setup_rule(k, at, next) ==
    /\ At("setup", at, next)
    /\ rule' = rule \cup {k}
    /\ UNCHANGED <<exists, local_ip, veths, nfqueue, route>>

cleanup ==
    /\ exists
    /\ Start("cleanup", "OUTPUT")
    /\ UNCHANGED <<net, n, last>>

\* iptables -D deletes the first rule that matches.
kept(count) == count
one_less(count) == IF count = 0 THEN 0 ELSE count - 1

cleanup_nfqueue(c, next) ==
    /\ At("cleanup", c, next)
    /\ nfqueue' = [nfqueue EXCEPT ![c] = one_less(@)]
    /\ UNCHANGED <<exists, local_ip, veths, route, rule>>

cleanup_route(k, at, next) ==
    /\ At("cleanup", at, next)
    /\ route' = route \ {k}
    /\ UNCHANGED <<exists, local_ip, veths, nfqueue, rule>>

cleanup_rule(k, at, next) ==
    /\ At("cleanup", at, next)
    /\ rule' = rule \ {k}
    /\ UNCHANGED <<exists, local_ip, veths, nfqueue, route>>

-----------------------------------------------------------------------------
Setup ==
    \/ setup
    \/ setup_nfqueue("OUTPUT", "INPUT") \/ setup_nfqueue("INPUT", "route1")
    \/ setup_route(1, "route1", "route2") \/ setup_route(2, "route2", "rule1")
    \/ setup_rule(1, "rule1", "rule2") \/ setup_rule(2, "rule2", "end")

Cleanup ==
    \/ cleanup
    \/ cleanup_nfqueue("OUTPUT", "INPUT") \/ cleanup_nfqueue("INPUT", "route1")
    \/ cleanup_route(1, "route1", "route2") \/ cleanup_route(2, "route2", "rule1")
    \/ cleanup_rule(1, "rule1", "rule2") \/ cleanup_rule(2, "rule2", "end")

Netns == create_netns \/ create_addr \/ create_up \/ destroy_netns

Next == Netns \/ Setup \/ Cleanup \/ End \/ interrupt

Spec == Init /\ [][Next]_vars

-----------------------------------------------------------------------------
(* Properties. *)

Ended(s) == last = s /\ script = "none"

\* What add_iptables.sh says at the end of cleanup, "Clean-up complete.": no
\* packet goes to a queue any more, and none is routed by its mark, although
\* earlier scripts may have been interrupted half-way.
CleanUpComplete == Ended("cleanup") => nfqueue = NoRules /\ route = {} /\ rule = {}

\* After a setup that ends each packet goes to its queue by one rule, and every
\* mark that the emulator sets leads to its own interface if there are three
\* interfaces, whatever was left of earlier scripts.
ConfigurationComplete ==
    Ended("setup") =>
        /\ \A c \in Chains : nfqueue[c] = 1
        /\ rule = Marks
        /\ veths >= 3 => route = Marks

=============================================================================
