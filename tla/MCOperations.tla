---------------------------- MODULE MCOperations ----------------------------
(* TLC instance of Operations. *)
EXTENDS Operations

Tools == INSTANCE TLC

\* Which of two requests does a thing makes no difference to what is done.
RequestSymmetry == Tools!Permutations(Reqs) \cup Tools!Permutations(Hands)

\* Two domains that share a file: routeSafeName maps both to one name.
DomainFiles == [d \in {"a.b", "a-b"} |-> "a-b"]
OneName == [g \in {"g1", "g2"} |-> "app"]
OneTag == [g \in {"g1", "g2"} |-> IF g = "g1" THEN "t1" ELSE "t2"]

\* Day has two minutes, week two days.
CronSchedules ==
    {[freq |-> f, every |-> 2, day |-> 1, at |-> 0] : f \in {"interval", "weekly"}}
    \cup {[freq |-> "daily", every |-> 2, day |-> 1, at |-> m] : m \in {0, 1}}

\* One container publishes its port and one does not; one is the platform's own.
FoundBoxes ==
    [c \in {"x1", "x2", "x3"} |->
        CASE c = "x1" -> [kind |-> "postgres", port |-> 2, volume |-> "d1"]
          [] c = "x2" -> [kind |-> "postgres", port |-> 0, volume |-> "d2"]
          [] c = "x3" -> [kind |-> "own", port |-> 0, volume |-> "d3"]]

\* A file with two services, and one with the first of them.
StackServices == [f \in {"f1", "f2"} |-> IF f = "f1" THEN {"web", "db"} ELSE {"web"}]

\* The parts followed together, and the requests and faults they share.
Together ==
    {[parts |-> {"routes"}, budget |-> 3],
     [parts |-> {"host", "routes"}, budget |-> 2],
     [parts |-> {"host", "proxy"}, budget |-> 3],
     [parts |-> {"git"}, budget |-> 3],
     [parts |-> {"host", "git"}, budget |-> 2],
     [parts |-> {"cron"}, budget |-> 3],
     [parts |-> {"volumes"}, budget |-> 3], [parts |-> {"volumes", "files"}, budget |-> 2],
     [parts |-> {"stacks"}, budget |-> 5],
     [parts |-> {"retention"}, budget |-> 2],
     [parts |-> {"alerts"}, budget |-> 2],
     [parts |-> {"hba"}, budget |-> 3],
     [parts |-> {"databases"}, budget |-> 5],
     [parts |-> {"settings"}, budget |-> 3],
     [parts |-> {"adoption"}, budget |-> 3],
     [parts |-> {"drive"}, budget |-> 4]}

\* One backup and one restore of it, and nothing else
OneRestore == {[parts |-> {"volumes"}, budget |-> 2]}
=============================================================================
