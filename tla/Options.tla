------------------------------- MODULE Options -------------------------------
(***************************************************************************)
(* Where the options of a program come from (config.py): the command line, *)
(* the environment, one section of a configuration file, the defaults.     *)
(* A text stands for itself; all that matters of it is whether it is empty *)
(* and whether it converts to the type of its option.                      *)
(*                                                                         *)
(* given is what an invocation finds, as functions on those names only     *)
(* that are set: given.cmd, given.env, given.file, given.default.  The     *)
(* last two are configuration files: the one that --config_file names, or  *)
(* Unnamed, and the one at the default place.                              *)
(***************************************************************************)
EXTENDS Sequences, SequencesExt

CONSTANTS
    Known,      \* the options of the program
    Numeric,    \* those of type int
    Numbers,    \* the texts that int() accepts
    Empty,      \* the empty text
    Default,    \* [Known -> texts]
    NoText,     \* Python's None
    Unnamed,    \* no --config_file
    Absent,     \* a configuration file that does not exist
    Foreign     \* a configuration file without the section of the program

ASSUME OptionsAssumption ==
    /\ Numeric \subseteq Known
    /\ DOMAIN Default = Known
    /\ Empty \notin Numbers

Converts(k, text) == k \in Numeric => text \in Numbers
AllConvert(source) == \A k \in DOMAIN source : Converts(k, source[k])

\* allow_abbrev=False: an unknown option is an error, not a short form.
CommandLineFits(given) == DOMAIN given.cmd \subseteq Known /\ AllConvert(given.cmd)

ConfigFile(given) == IF given.file = Unnamed THEN given.default ELSE given.file

\* A named file must exist, the file at the default place need not.  All of the
\* section is looked at, also what another source overrides.
FileFits(given) ==
    /\ given.file # Absent
    /\ ConfigFile(given) # Foreign
    /\ ConfigFile(given) # Absent =>
           LET section == ConfigFile(given) IN
           /\ DOMAIN section \subseteq Known
           /\ \A k \in DOMAIN section : section[k] # Empty
           /\ AllConvert(section)

\* Unknown names with the prefix are reported as warnings only.
Environment(given) == [k \in DOMAIN given.env \cap Known |-> given.env[k]]

Nothing == [k \in {} |-> Empty]

\* argparse has a value for each option, None for those not on the command line.
Sources(given) ==
    [c |-> [k \in Known |-> IF k \in DOMAIN given.cmd THEN given.cmd[k] ELSE NoText],
     e |-> Environment(given),
     f |-> IF ConfigFile(given) = Absent THEN Nothing ELSE ConfigFile(given),
     d |-> Default]

\* The first source in the order that has a value
Pick(order, source, k) ==
    FoldLeft(LAMBDA text, s : IF text = NoText /\ k \in DOMAIN source[s]
                              THEN source[s][k] ELSE text,
             NoText, order)

\* A usage error is exit code 2 of argparse; an exception is caught by nobody.
options_from(order, given) ==
    CASE ~CommandLineFits(given) -> [outcome |-> "usage", value |-> Nothing]
      [] CommandLineFits(given) /\ ~(FileFits(given) /\ AllConvert(Environment(given))) ->
             [outcome |-> "exception", value |-> Nothing]
      [] OTHER -> [outcome |-> "fits",
                   value |-> [k \in Known |-> Pick(order, Sources(given), k)]]

options_from_cmd_env_cfg(given) == options_from(<<"c", "e", "f", "d">>, given)
=============================================================================
