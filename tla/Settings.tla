------------------------------ MODULE Settings ------------------------------
(***************************************************************************)
(* How the daemon comes to its settings (src/src/settings/): the command    *)
(* line is read option by option, a configuration file is parsed against a  *)
(* schema and loaded under what the command line already set, the argument  *)
(* vector for FUSE is built on the way, and the backends are created from   *)
(* what was configured.                                                     *)
(*                                                                         *)
(* A text is a record: a word, or a number with a unit.  A configuration    *)
(* file is a record of its sections, each a sequence of entries.  Sizes are *)
(* uint32_t: here they have Width bits, and the unit factors are those of   *)
(* Factor, so that the smallest sizes that do not fit are a few bytes.      *)
(***************************************************************************)
EXTENDS Integers, Sequences, SequencesExt, FiniteSets

CONSTANTS Paths,          \* directories and files a user may name
          ConfigFiles,    \* the configuration files a user may pass
          MaxOptions,     \* bound: options on the command line
          s_max_fuse_args,
          Width, Factor,  \* bits of a uint32_t; bytes of a unit, "" included
          LongUnits       \* the units parse_size knows

VARIABLES m,        \* the settings object
          phase,    \* reading options, loading, done, or how the program ended
          given,    \* history: what the command line said of each path
          options,  \* history: how many options were read
          created   \* the backends of create_from_options, by id

settingsVars == <<m, phase, given, options, created>>

none == "none"
Word(w) == [word |-> w, n |-> 0, unit |-> ""]
Size(n, unit) == [word |-> "", n |-> n, unit |-> unit]
Entry(key, text) == [key |-> key, text |-> text]

(* settings::settings() *)
Default == [exec |-> none, daemonize |-> FALSE, debug |-> FALSE, root |-> none, mount |-> none,
            results |-> none, config |-> none, log |-> none, workers |-> 0, transfer |-> 0,
            backends |-> <<>>, resources |-> <<>>, argv |-> <<>>]

-----------------------------------------------------------------------------
(* Converters (parsers.cpp).  A converter that throws has no value.         *)

(* std::stoi reads the digits and stops at the unit.                        *)
number_parser(x) == IF x.word = "" /\ x.n > 0 THEN {x.n} ELSE {}

(* A sign is not a digit; round(...) is converted to uint32_t without a     *)
(* check, which on x86-64 keeps the low bits.                               *)
size_parser(x) ==
    IF x.word = "" /\ x.n >= 0 /\ x.unit \in DOMAIN Factor
    THEN {(x.n * Factor[x.unit]) % (2^Width)} ELSE {}

(* backend::parse_size knows the units of two and three letters only, and   *)
(* is -1 for what has none of them and is not all digits; stod throws on a  *)
(* word.                                                                    *)
parse_size(x) ==
    IF x.unit \in LongUnits THEN IF x.word = "" THEN {x.n * Factor[x.unit]} ELSE {}
    ELSE IF x.word = "" /\ x.unit = "" /\ x.n >= 0 THEN {x.n} ELSE {-1}

(* The schema of config-schema.h: what an option is converted by, whether   *)
(* it is mandatory, and its default value if there is one.                  *)
type(convert, default) == [convert |-> convert, default |-> default]
Option(mandatory, of) ==
    [mandatory |-> mandatory, convert |-> of.convert, default |-> of.default]

global_settings ==
    [o \in {"root-dir", "mount-dir", "results-dir", "log-file", "workers", "transfer-size"} |->
        CASE o \in {"root-dir", "mount-dir"} -> Option(TRUE, type("path", {}))
          [] o \in {"results-dir", "log-file"} -> Option(FALSE, type("path", {}))
          [] o = "workers" -> Option(FALSE, type("number", {8}))
          [] o = "transfer-size" -> Option(FALSE, type("size", {2^(Width - 1)}))]

backends_schema ==
    [o \in {"id", "type", "capacity", ".*"} |->
        Option(o # ".*", type(IF o = "capacity" THEN "size" ELSE "text", {}))]

resources_schema == [o \in {"path", "backend", "flags"} |-> Option(TRUE, type("text", {}))]

(* option_schema::convert: the set of the value, or empty when it throws.   *)
convert(option, text) ==
    CASE option.convert = "number" -> number_parser(text)
      [] option.convert = "size" -> size_parser(text)
      [] OTHER -> {text}

Found(schema, key) ==
    IF key \in DOMAIN schema THEN {schema[key]}
    ELSE IF ".*" \in DOMAIN schema THEN {schema[".*"]} ELSE {}

Keys(entries) == {entries[i].key : i \in DOMAIN entries}

(* emplace keeps the first entry of a key.                                  *)
First(entries, key) ==
    entries[CHOOSE i \in DOMAIN entries :
                entries[i].key = key /\ \A j \in 1..(i - 1) : entries[j].key # key].text

Converts(schema, entries) ==
    \A i \in DOMAIN entries :
        \E option \in Found(schema, entries[i].key) : convert(option, entries[i].text) # {}

Value(schema, entries, key) ==
    CHOOSE v \in convert(CHOOSE option \in Found(schema, key) : TRUE, First(entries, key)) : TRUE

(* yaml_visitor for a group: the set of the parsed values, or empty when it *)
(* throws.  Options the file does not give get their defaults.              *)
parse_group(schema, entries) ==
    LET defaulted == {o \in DOMAIN schema \ Keys(entries) : schema[o].default # {}} IN
    IF /\ Converts(schema, entries)
       /\ \A o \in DOMAIN schema : schema[o].mandatory => o \in Keys(entries)
    THEN {[o \in Keys(entries) \cup defaulted |->
             IF o \in defaulted THEN CHOOSE v \in schema[o].default : TRUE
                                ELSE Value(schema, entries, o)]}
    ELSE {}

(* yaml_visitor for a list: each item is a group of its own; what the       *)
(* schema calls mandatory is not looked at.                                 *)
parse_list(schema, items) ==
    IF \A i \in DOMAIN items : Converts(schema, items[i])
    THEN {[i \in DOMAIN items |-> [o \in Keys(items[i]) |-> Value(schema, items[i], o)]]}
    ELSE {}

(* parse_yaml_file: every section of the schema is mandatory.               *)
parse_yaml_file(file) ==
    IF file.sections = {"global-settings", "backends", "resources"}
    THEN {[global |-> g, backends |-> b, resources |-> r] :
            g \in parse_group(global_settings, file.global),
            b \in parse_list(backends_schema, file.backends),
            r \in parse_list(resources_schema, file.resources)}
    ELSE {}

-----------------------------------------------------------------------------
(* load_from_yaml_file, first part: the global settings, each only where    *)
(* the command line said nothing.                                           *)
Under(set, group, key) ==
    IF set = none /\ key \in DOMAIN group THEN group[key].word ELSE set

(* Mutated form: the file overrides the command line.                       *)
SlipFileWins(s, g) ==
    [s EXCEPT !.root = g["root-dir"].word,
              !.mount = g["mount-dir"].word,
              !.results = Under(s.results, g, "results-dir"),
              !.log = IF s.debug THEN s.log ELSE Under(s.log, g, "log-file"),
              !.workers = g["workers"],
              !.transfer = g["transfer-size"]]

WithGlobal(s, g) ==
    [s EXCEPT !.root = Under(s.root, g, "root-dir"),
              !.mount = Under(s.mount, g, "mount-dir"),
              !.results = Under(s.results, g, "results-dir"),
              !.log = IF s.debug THEN s.log ELSE Under(s.log, g, "log-file"),
              !.workers = g["workers"],
              !.transfer = g["transfer-size"]]

Needed == {"id", "type", "capacity"}

(* One backend: get_as throws on an option that is missing; the first       *)
(* backend of an id stays.                                                  *)
WithBackend(s, b) ==
    IF b["id"].word \in {s.backends[i].id : i \in DOMAIN s.backends} THEN s
    ELSE [s EXCEPT !.backends = Append(@,
            [id |-> b["id"].word, type |-> b["type"].word, capacity |-> b["capacity"],
             extra |-> [o \in DOMAIN b \ Needed |-> b[o]]])]

(* The settings after the load, and whether it ended without an exception.  *)
load_from_yaml_file(s, file) ==
    IF parse_yaml_file(file) = {} THEN [ok |-> FALSE, m |-> s]
    ELSE LET opt == CHOOSE x \in parse_yaml_file(file) : TRUE
             bad == {i \in DOMAIN opt.backends : ~(Needed \subseteq DOMAIN opt.backends[i])}
             upto == IF bad = {} THEN Len(opt.backends)
                     ELSE (CHOOSE i \in bad : \A j \in bad : i <= j) - 1
             loaded == FoldLeft(WithBackend, WithGlobal(s, opt.global),
                                SubSeq(opt.backends, 1, upto))
         IN IF bad # {} THEN [ok |-> FALSE, m |-> loaded]
            ELSE [ok |-> TRUE, m |-> [loaded EXCEPT !.resources = @ \o opt.resources]]

-----------------------------------------------------------------------------
(* from_cmdline *)

(* push_arg appends; the assertion holds while there is room.               *)
Room(s, n) == Len(s.argv) + n <= s_max_fuse_args
push_arg(s, args) == [s EXCEPT !.argv = @ \o args]

NULL == "NULL"

Init ==
    /\ m = [push_arg(Default, <<"efs-ng", NULL>>) EXCEPT !.exec = "efs-ng", !.daemonize = TRUE]
    /\ phase = "main" /\ options = 0
    /\ given = [o \in {"root", "mount", "log"} |-> none]
    /\ created = [id \in {} |-> none]

(* Without an argument main prints the usage; the exceptions of from_cmdline *)
(* end it as well.                                                          *)
main ==
    /\ phase = "main" /\ phase' \in {"options", "error"}
    /\ UNCHANGED <<m, given, options, created>>

Reads(o) ==
    /\ phase = "options" /\ options < MaxOptions
    /\ options' = options + 1
    /\ UNCHANGED created

Push(s, args) ==
    IF Room(s, Len(args)) THEN m' = push_arg(s, args) /\ UNCHANGED phase
                          ELSE phase' = "abort" /\ UNCHANGED m

(* -r, -m, -l and -c *)
PathOption(o, p) ==
    /\ Reads(o)
    /\ m' = [m EXCEPT ![o] = p]
    /\ given' = [given EXCEPT ![o] = p]
    /\ UNCHANGED phase

ConfigOption(name) ==
    /\ Reads("config")
    /\ m' = [m EXCEPT !.config = name]
    /\ UNCHANGED <<phase, given>>

(* -f, -d; -D, -S; -o arg *)
Foreground(debug) ==
    /\ Reads("f")
    /\ Push([m EXCEPT !.daemonize = FALSE, !.debug = @ \/ debug], <<"-f">>)
    /\ UNCHANGED given

FuseFlag(args) ==
    /\ Reads("o")
    /\ Push(m, args)
    /\ UNCHANGED given

(* -h, -H, -V print and exit; an unknown option or a missing parameter      *)
(* throws.                                                                  *)
Leaves(how) ==
    /\ Reads(how)
    /\ phase' = how
    /\ UNCHANGED <<m, given>>

EndOptions ==
    /\ phase = "options"
    /\ phase' = IF m.config = none THEN "finish" ELSE "config"
    /\ UNCHANGED <<m, given, options, created>>

(* settings::settings(const settings&): every member that is named, the     *)
(* arguments one by one.                                                    *)
Copied(other) ==
    [exec |-> other.exec, daemonize |-> other.daemonize, debug |-> other.debug,
     root |-> other.root, mount |-> other.mount, results |-> other.results,
     config |-> other.config, log |-> other.log, workers |-> other.workers,
     transfer |-> other.transfer, backends |-> other.backends, resources |-> other.resources,
     argv |-> [i \in DOMAIN other.argv |-> other.argv[i]]]

(* The backends and the resources stay.                                     *)
reset(s) ==
    [s EXCEPT !.exec = none, !.daemonize = FALSE, !.debug = FALSE, !.root = none, !.mount = none,
              !.results = none, !.config = none, !.log = none, !.workers = 0, !.transfer = 0,
              !.argv = <<>>]

(* Mutated form: the backends are not moved.                                *)
SlipForgets(s, other) ==
    [reset(s) EXCEPT !.exec = other.exec, !.root = other.root, !.mount = other.mount,
                     !.results = other.results, !.config = other.config, !.log = other.log,
                     !.workers = other.workers, !.transfer = other.transfer,
                     !.resources = other.resources, !.daemonize = other.daemonize,
                     !.debug = other.debug, !.argv = other.argv]

(* settings::operator=(settings&&): reset, then every member that is named. *)
Moved(s, other) ==
    [reset(s) EXCEPT !.exec = other.exec, !.root = other.root, !.mount = other.mount,
                     !.results = other.results, !.config = other.config, !.log = other.log,
                     !.workers = other.workers, !.transfer = other.transfer,
                     !.backends = other.backends, !.resources = other.resources,
                     !.daemonize = other.daemonize, !.debug = other.debug, !.argv = other.argv]

(* The file is loaded into *this, with a copy to go back to.                *)
LoadConfig ==
    /\ phase = "config"
    /\ \E file \in {f \in ConfigFiles : f.name = m.config} :
         LET backup == Copied(m)
             load == load_from_yaml_file(m, file)
         IN IF load.ok THEN m' = load.m /\ phase' = "finish"
                       ELSE m' = Moved(load.m, backup) /\ phase' = "ignored"
    /\ UNCHANGED <<given, options, created>>

NvmlDefault(s) ==
    [id |-> "nvml://", type |-> "NVRAM-NVML", capacity |-> 12,
     extra |-> [o \in {"daxfs"} |-> Word("/tmp")]]

(* Mutated form: the mount point of the command line is filled in.          *)
SlipMountGiven(s) == [s EXCEPT !.argv[2] = given["mount"]]

(* push_arg(m_mount_dir, 1)                                                 *)
FillMount(s) == [s EXCEPT !.argv[2] = s.mount]

(* The rest of from_cmdline: the directories must differ, a daemon without  *)
(* a configuration file gets one backend, one unparsed argument is passed   *)
(* on, and the mount point takes the place kept for it in fuse_argv (where  *)
(* push_arg asserts that there is room for one more).                       *)
Finish ==
    /\ phase = "finish"
    /\ IF m.root = m.mount THEN phase' = "error" /\ UNCHANGED m
       ELSE LET s == IF m.config # none THEN m
                     ELSE [m EXCEPT !.backends = Append(@, NvmlDefault(m))]
            IN \E rest \in {<<>>, <<"rest">>} :
                 LET args == <<"-o", "attr_timeout=0">> \o rest IN
                 IF ~Room(s, Len(args) + 1) THEN phase' = "abort" /\ UNCHANGED m
                 ELSE m' = FillMount(push_arg(s, args)) /\ phase' = "done"
    /\ UNCHANGED <<given, options, created>>

(* backend::create_from_options: empty when it throws, because a nvram type *)
(* has no "daxfs" or its segment size is no number; nullptr for a type it   *)
(* does not know.                                                           *)
create_from_options(b) ==
    CASE b.type = "DRAM" -> {[type |-> "DRAM", segment |-> -1]}
      [] b.type \in {"NVRAM-NVML", "NVRAM-DEVDAX"} ->
           IF "daxfs" \notin DOMAIN b.extra THEN {}
           ELSE {[type |-> b.type, segment |-> size] :
                   size \in IF "segment-size" \in DOMAIN b.extra
                            THEN parse_size(b.extra["segment-size"]) ELSE {-1}}
      [] OTHER -> {[type |-> "nullptr", segment |-> -1]}

(* context::initialize, which fuse_main comes to: where the log goes, and   *)
(* the logger, which throws when the file cannot be opened.                 *)
log_type(s) ==
    IF s.log # none THEN "file" ELSE IF s.daemonize THEN "syslog" ELSE "console color"

CreateLogger ==
    /\ phase = "done"
    /\ \/ phase' = "logging"
       \/ log_type(m) = "file" /\ phase' = "stopped"
    /\ UNCHANGED <<m, given, options, created>>

(* It leaves out the backends that throw and calls name() on the others,    *)
(* null or not; it needs one of them.                                       *)
CreateBackends ==
    /\ phase = "logging"
    /\ LET made == [i \in DOMAIN m.backends |-> create_from_options(m.backends[i])]
           good == {i \in DOMAIN made : made[i] # {}}
       IN IF \E i \in good : \E b \in made[i] : b.type = "nullptr"
          THEN phase' = "abort" /\ UNCHANGED created
          ELSE /\ phase' = IF good = {} THEN "stopped" ELSE "running"
               /\ created' = [id \in {m.backends[i].id : i \in good} |->
                    CHOOSE b \in made[CHOOSE i \in good : m.backends[i].id = id] : TRUE]
    /\ UNCHANGED <<m, given, options>>

Ended == phase \in {"running", "stopped", "ignored", "error", "exit", "abort"} /\ UNCHANGED settingsVars

Next ==
    \/ \E o \in {"root", "mount", "log"}, p \in Paths : PathOption(o, p)
    \/ \E name \in {file.name : file \in ConfigFiles} : ConfigOption(name)
    \/ \E debug \in BOOLEAN : Foreground(debug)
    \/ \E args \in {<<"-d">>, <<"-s">>, <<"-o", "arg">>} : FuseFlag(args)
    \/ \E how \in {"exit", "error"} : Leaves(how)
    \/ main \/ EndOptions \/ LoadConfig \/ Finish \/ CreateLogger \/ CreateBackends \/ Ended

Spec == Init /\ [][Next]_settingsVars

-----------------------------------------------------------------------------
Parsed == phase \in {"done", "logging", "running", "stopped"}

Arguments == {m.argv[i] : i \in DOMAIN m.argv}

(* "Command line arguments will always have precedence over configuration   *)
(* file options": what the user gave last on the command line is what the   *)
(* daemon runs with.  A configuration file with errors is ignored as a      *)
(* whole: wherever the error was, the copy and the assignment that take the *)
(* settings back leave nothing of it, and lose nothing of the command line. *)
CommandLineWins ==
    /\ Parsed => \A o \in {"root", "mount", "log"} : given[o] # none => m[o] = given[o]
    /\ phase = "ignored" =>
         /\ m.backends = <<>> /\ m.resources = <<>> /\ m.workers = 0 /\ m.transfer = 0
         /\ m.results = none /\ \A o \in {"root", "mount", "log"} : m[o] = given[o]
         /\ m.exec = "efs-ng" /\ m.config # none /\ SubSeq(m.argv, 1, 2) = <<"efs-ng", NULL>>
         /\ m.daemonize = ("-f" \notin Arguments)

(* The vector handed to FUSE, built while the options are read and finished *)
(* when the configuration file is loaded, has no hole, and its second       *)
(* argument is the mount point the settings ended up with, from either      *)
(* source.  A daemon whose log goes to the terminal is not detached from it *)
(* by FUSE, which stays in the foreground for "-f" and "-d".                *)
ArgvFitsSettings ==
    Parsed => /\ NULL \notin Arguments
              /\ m.argv[2] = m.mount
              /\ log_type(m) = "console color" => Arguments \cap {"-f", "-d"} # {}

(* examples/preload_ramon.conf asks for a capacity of "12 GiB": a backend   *)
(* has the capacity that its section of the file gives.                     *)
CapacityKept ==
    Parsed => \A file \in {f \in ConfigFiles : f.name = m.config} :
        \A i \in DOMAIN m.backends :
            \E j \in DOMAIN file.backends :
                LET text == First(file.backends[j], "capacity") IN
                /\ First(file.backends[j], "id").word = m.backends[i].id
                /\ m.backends[i].capacity = text.n * Factor[text.unit]
=============================================================================
