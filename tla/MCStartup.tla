------------------------------ MODULE MCStartup ------------------------------
(***************************************************************************)
(* Instance of Startup for TLC.                                            *)
(***************************************************************************)
EXTENDS Startup, TLC

MCKnown == {"socketname", "storage", "fetchers", "log_level", "sockettimeout"}
MCDefault == [k \in MCKnown |-> CASE k = "sockettimeout" -> "5"
                                   [] k = "log_level" -> "warn"
                                   [] OTHER -> Empty]

Unset == [k \in {} |-> Empty]
Site == [socketname |-> "/run/socket", storage |-> "one", fetchers |-> "fetcher"]

\* the environment: nothing, other storages, no number, a name misspelt
Environments ==
    {Unset, "storage" :> "two", "storage" :> "strange", "storage" :> "dummy",
     "sockettimeout" :> "soon", "misspelt" :> "text"}

CommandLines ==
    {Unset, "storage" :> "one", "storage" :> Empty, "sockettimeout" :> "soon",
     "misspelt" :> "text", "socketname" :> Empty}

Files ==
    {Absent, Foreign, Site, Unset, "socketname" :> Empty, "misspelt" :> "text",
     Site @@ "sockettimeout" :> "soon", Site @@ "log_level" :> "loud",
     "fetchers" :> "fetcher,"}

MCGivens ==
    [cmd : CommandLines, env : Environments, file : Files \cup {Unnamed}, default : Files]

MCUrls ==
    Empty :> <<>> @@ "one" :> <<"db1">> @@ "two" :> <<"db1", "db2">>
        @@ "strange" :> <<"db1", "strange">> @@ "dummy" :> <<"dummy">>
=============================================================================
