-------------------------------- MODULE Config --------------------------------
(***************************************************************************)
(* The options of a run: config_parse, config_file_parse, parse_argument   *)
(* and config_save of src/src/config.c, and what main does with them, the  *)
(* file of the host included.  Files name further files, and what one run  *)
(* saves a later run loads.                                                *)
(***************************************************************************)
EXTENDS Integers, Sequences, SequencesExt, FiniteSetsExt

CONSTANTS
    Options,        \* what may be typed
    Disks,          \* the files there may be when the first run starts
    Address,        \* what discovery may find
    NULL,
    MAX_INPUTS,     \* 6 in the code
    MaxOptions,     \* bound: options typed in the first run, in the n-th 1/n of them
    MaxOpen,        \* bound: files open at once
    MaxRuns         \* bound: runs of the program

(* A file is a place and a name, its content the settings in its lines; an *)
(* option is a setting too, with the name "" if it is a plain word.        *)
Place == <<"here", "user", "system">>
required_argument == {"width", "height", "bitrate", "packetsize", "app", "input", "mapping",
                      "audio", "config", "platform", "save", "keydir", "fps"}
no_argument == {"720", "1080", "30fps", "60fps", "nosops", "localaudio", "remote",
                "windowed", "surround", "forcehw", "forcehevc", "unsupported"}

IsFile(file) ==
    file = <<file[1], file[2]>> /\ file[1] \in {Place[n] : n \in DOMAIN Place} \cup {"hosts"}
IsText(lines) ==
    /\ Len(lines) \in Nat /\ DOMAIN lines = 1 .. Len(lines)
    /\ \A n \in DOMAIN lines : lines[n].name = "save" => IsFile(lines[n].value)

ASSUME ConfigAssumption ==
    /\ \A o \in Options : /\ o.name \in required_argument \cup no_argument \cup {""}
                          /\ o.name = "" => o.value # NULL
                          /\ o.name = "save" => IsFile(o.value)
    /\ \A d \in Disks : \A f \in DOMAIN d : IsFile(f) /\ IsText(d[f])
    /\ MAX_INPUTS \in Nat /\ MaxOptions \in Nat /\ MaxOpen \in Nat \ {0} /\ MaxRuns \in Nat \ {0}

VARIABLES
    disk,           \* the files: a function of those there are
    runs,           \* runs started
    stage,
    reading,        \* the files that are open, outermost first, with the lines read
    host_config_file,
    system,         \* what platform_check found, NULL before
    config,         \* CONFIGURATION but for inputs and mapping; audio_device
    inputs, mapping, inputAdded, mapped,
    typed, found,   \* history of the run: its options, the disk it started with
    saved           \* history: the file last saved, and from what

runVars == <<reading, host_config_file, system, config, inputs, mapping, inputAdded, mapped, typed, found>>
configVars == <<disk, runs, stage, runVars, saved>>

(* The fields as config_parse sets them.  It leaves out forcehw, which is  *)
(* then whatever main's stack held.                                        *)
Defaults(garbage) ==
    [width |-> 1280, height |-> 720, fps |-> 60, bitrate |-> -1, packetsize |-> 1024,
     app |-> "Steam", sops |-> TRUE, localaudio |-> FALSE, remote |-> FALSE,
     windowed |-> FALSE, surround |-> FALSE, forcehevc |-> FALSE, unsupported |-> FALSE,
     forcehw |-> garbage, platform |-> "default", audio |-> NULL, keydir |-> NULL,
     save |-> NULL, action |-> NULL, address |-> NULL]
Default == Defaults(FALSE)
Field == DOMAIN Default
Platform == {"imx", "pi", "aml", "sdl", "fake"}
SavedField == {"width", "height", "fps", "bitrate", "packetsize", "app", "sops", "localaudio"}

ConfigTypeOK ==
    /\ runs \in 1 .. MaxRuns
    /\ stage \in {"start", "args", "parsed", "save", "fclose", "derive", "main", "host", "using", "exited"}
    /\ Len(reading) <= MaxOpen /\ \A i \in DOMAIN reading : reading[i].file \in DOMAIN disk
    /\ system \in Platform \cup {NULL} /\ DOMAIN config = Field /\ Len(typed) <= MaxOptions
    /\ Len(inputs) <= MAX_INPUTS /\ inputAdded = (inputs # <<>>) /\ mapped \in BOOLEAN
    /\ \A n \in DOMAIN inputs : inputs[n].mapping \in DOMAIN disk \cup {NULL}

(* The first of the places where there is such a file.                     *)
get_path(files, name) ==
    LET there == {n \in DOMAIN Place : <<Place[n], name>> \in DOMAIN files}
    IN IF there = {} THEN NULL ELSE <<Place[Min(there)], name>>

Nowhere == <<>>

ConfigInit ==
    /\ disk \in Disks /\ runs = 1 /\ stage = "start" /\ saved = NULL
    /\ typed = <<>> /\ found = disk /\ reading = <<>>
    /\ host_config_file = Nowhere /\ system = NULL
    /\ \E garbage \in BOOLEAN : config = Defaults(garbage)
    /\ inputs = <<>> /\ mapping = get_path(disk, "default.map") /\ inputAdded = FALSE /\ mapped = TRUE

----------------------------------------------------------------------------
(* parse_argument.  Where reading goes on is given: the files that are open. *)

Set(values) == config' = [f \in Field |-> IF f \in DOMAIN values THEN values[f] ELSE config[f]]

(* The fields that an option sets and what to, for those that set fields.  *)
Sets(name, value) ==
    CASE name = "720" -> [width |-> 1280, height |-> 720]
      [] name = "1080" -> [width |-> 1920, height |-> 1080]
      [] name = "30fps" -> [fps |-> 30]
      [] name = "60fps" -> [fps |-> 60]
      [] name = "nosops" -> [sops |-> FALSE]
      [] name \in no_argument \cap Field -> [f \in {name} |-> TRUE]
      [] name \in required_argument \cap Field -> [f \in {name} |-> value]
      [] OTHER -> [f \in {} |-> value]

Opened(file) == [file |-> file, line |-> 0]

inputVars == <<inputs, mapping, inputAdded, mapped>>

Exits == stage' = "exited" /\ UNCHANGED runVars

Simple(name, value, open) ==
    /\ name \notin {"input", "mapping", "config", ""}
    /\ Set(Sets(name, value))
    /\ reading' = open /\ UNCHANGED <<stage, inputVars>>

(* Mutant: the input keeps the mapping that was the first to be given.     *)
InputFirst(value, open) ==
    /\ Len(inputs) < MAX_INPUTS
    /\ inputs' = Append(inputs, [path |-> value,
                                 mapping |-> IF inputs = <<>> THEN mapping ELSE inputs[1].mapping])
    /\ inputAdded' = TRUE /\ mapped' = TRUE
    /\ reading' = open /\ UNCHANGED <<stage, config, mapping>>

Input(value, open) ==
    /\ Len(inputs) < MAX_INPUTS
    /\ inputs' = Append(inputs, [path |-> value, mapping |-> mapping])
    /\ inputAdded' = TRUE /\ mapped' = TRUE
    /\ reading' = open /\ UNCHANGED <<stage, config, mapping>>

Mapping(value, open) ==
    /\ get_path(disk, value) # NULL /\ mapping' = get_path(disk, value) /\ mapped' = FALSE
    /\ reading' = open /\ UNCHANGED <<stage, config, inputs, inputAdded>>

(* Mutant: a file that is named is read after the one that names it.       *)
IncludeLast(file, open) ==
    /\ file \in DOMAIN disk
    /\ reading' = <<Opened(file)>> \o open /\ UNCHANGED <<stage, config, inputVars>>

(* config_file_parse is called before the rest of what names the file.     *)
Include(file, open) ==
    /\ file \in DOMAIN disk /\ Len(open) < MaxOpen
    /\ reading' = Append(open, Opened(file)) /\ UNCHANGED <<stage, config, inputVars>>

Word(value, open) ==
    /\ NULL \in {config.action, config.address}
    /\ config' = IF config.action = NULL THEN [config EXCEPT !.action = value]
                                         ELSE [config EXCEPT !.address = value]
    /\ reading' = open /\ UNCHANGED <<stage, inputVars>>

Refused(name, value) ==
    \/ name = "input" /\ Len(inputs) >= MAX_INPUTS
    \/ name = "mapping" /\ get_path(disk, value) = NULL
    \/ name = "config" /\ value \notin DOMAIN disk
    \/ name = "" /\ NULL \notin {config.action, config.address}

parse_argument(name, value, open) ==
    \/ Simple(name, value, open)
    \/ name = "input" /\ Input(value, open)
    \/ name = "mapping" /\ Mapping(value, open)
    \/ name = "config" /\ Include(value, open)
    \/ name = "" /\ Word(value, open)
    \/ /\ Refused(name, value)
       /\ stage' = "exited" /\ UNCHANGED <<reading, config, inputVars>>

----------------------------------------------------------------------------
(* config_file_parse: one line of the innermost file.                      *)

(* The options without an argument are not known in a file; sops and       *)
(* localaudio are, with a truth value.                                     *)
FileLine(line, open) ==
    \/ /\ line.name \in {"address", "sops", "localaudio"}
       /\ Set([f \in {line.name} |-> IF f = "address" THEN line.value ELSE line.value = "true"])
       /\ reading' = open /\ UNCHANGED <<stage, inputVars>>
    \/ line.name \in required_argument /\ parse_argument(line.name, line.value, open)
    \/ /\ line.name \notin {"address", "sops", "localaudio"} \cup required_argument
       /\ reading' = open /\ UNCHANGED <<stage, config, inputVars>>

ReadLine ==
    /\ reading # <<>> /\ stage # "exited"
    /\ LET fd == Last(reading)
           lines == disk[fd.file]
       IN \/ /\ fd.line = Len(lines) /\ reading' = Front(reading)
             /\ UNCHANGED <<stage, config, inputVars>>
          \/ /\ fd.line < Len(lines)
             /\ FileLine(lines[fd.line + 1], Append(Front(reading), [fd EXCEPT !.line = @ + 1]))
    /\ UNCHANGED <<disk, runs, host_config_file, system, saved, typed, found>>

At(label) == stage = label /\ reading = <<>> /\ UNCHANGED runs

Keeps(kept) == UNCHANGED <<kept, host_config_file, system, disk, saved, typed, found>>

----------------------------------------------------------------------------
(* config_parse.                                                           *)

BaseFile ==
    /\ At("start") /\ stage' = "args"
    /\ LET file == get_path(disk, "moonlight.conf")
       IN reading' = IF file = NULL THEN <<>> ELSE <<Opened(file)>>
    /\ Keeps(<<config, inputVars>>)

(* The only argument is a file.                                            *)
OnlyAFile ==
    /\ At("args") /\ typed = <<>> /\ stage' = "parsed"
    /\ \E file \in DOMAIN disk :
         /\ file[1] = "here" /\ reading' = <<Opened(file)>>
         /\ typed' = <<[name |-> "config", value |-> file]>>
    /\ config' = [config EXCEPT !.action = "stream"]
    /\ UNCHANGED <<disk, host_config_file, system, saved, found, inputVars>>

Type(option) ==
    /\ At("args") /\ Len(typed) < MaxOptions \div runs
    /\ typed' = Append(typed, option)
    /\ parse_argument(option.name, option.value, <<>>)
    /\ UNCHANGED <<disk, host_config_file, system, saved, found>>

OptionsEnd ==
    /\ stage \in {"args", "parsed"} /\ At(stage)
    /\ stage' = IF config.save = NULL THEN "derive" ELSE "save"
    /\ Keeps(<<reading, config, inputVars>>)

Written(file, lines) == [f \in DOMAIN disk \cup {file} |-> IF f = file THEN lines ELSE disk[f]]

(* config_save: fopen empties the file, fclose writes it.  The file may be *)
(* one that cannot be opened.                                              *)
SaveOpens ==
    /\ At("save")
    /\ \/ /\ stage' = "fclose" /\ disk' = Written(config.save, <<>>)
          /\ saved' = NULL /\ UNCHANGED runVars
       \/ Exits /\ UNCHANGED <<disk, saved>>

(* The fields that do not have their default value are written; the lines  *)
(* are of different fields, so that their order is of no matter.           *)
LineToSave(conf, f) ==
    [name |-> f, value |-> IF f \notin {"sops", "localaudio"} THEN conf[f]
                           ELSE IF conf[f] THEN "true" ELSE "false"]

(* Mutant: the rate is compared with another default than it is given.     *)
LinesToSaveOther(conf) ==
    SetToSeq({LineToSave(conf, f) : f \in {g \in SavedField : conf[g] # [Default EXCEPT !.fps = 30][g]}})

LinesToSave(conf) ==
    SetToSeq({LineToSave(conf, f) : f \in {g \in SavedField : conf[g] # Default[g]}})

SaveCloses ==
    /\ At("fclose") /\ stage' = "derive"
    /\ disk' = Written(config.save, LinesToSave(config))
    /\ saved' = [file |-> config.save, config |-> config]
    /\ UNCHANGED runVars

(* The process is killed with the file still empty.                        *)
Killed == At("fclose") /\ Exits /\ UNCHANGED <<disk, saved>>

Bitrate(height, fps) ==
    CASE height >= 1080 /\ fps >= 60 -> 20000
      [] (height >= 1080) # (fps >= 60) -> 10000
      [] OTHER -> 5000

Derive ==
    /\ At("derive")
    /\ IF inputAdded /\ (~mapped \/ mapping = NULL) THEN Exits
       ELSE /\ config' = [config EXCEPT
                 !.keydir = IF @ = NULL THEN "cache" ELSE @,
                 !.bitrate = IF @ = -1 THEN Bitrate(config.height, config.fps) ELSE @]
            /\ stage' = "main" /\ UNCHANGED <<reading, host_config_file, system, inputVars, typed, found>>
    /\ UNCHANGED <<disk, saved>>

----------------------------------------------------------------------------
(* main.                                                                   *)

(* The platform of that name or, by default, any that is built in and      *)
(* whose library and device are there; none if there is none.              *)
platform_check(name) == {NULL} \cup {s \in Platform : name \in {"default", s}}

platform_supports_hevc(s) == s = "aml"

(* The platform is looked for once the action is known and before it is    *)
(* done; the server is then named or discovered.                           *)
Main ==
    /\ At("main")
    /\ \/ config.action \in {NULL, "help"} /\ Exits
       \/ config.action \notin {NULL, "help"} /\ NULL \in platform_check(config.platform) /\ Exits
       \/ /\ config.action = "map" /\ config.address = NULL /\ Exits
       \/ /\ config.action \notin {NULL, "help", "map"} /\ config.address = NULL
          /\ Exits                                          \* discovery fails
       \/ /\ config.action \notin {NULL, "help"}
          /\ system' \in platform_check(config.platform) \ {NULL}
          /\ stage' = IF config.action = "map" THEN "using" ELSE "host"
          /\ \E address \in IF config.address = NULL /\ config.action # "map"
                           THEN Address ELSE {config.address} \ {NULL} :
               config' = [config EXCEPT
                 !.forcehevc = @ \/ platform_supports_hevc(system'),
                 !.address = address]
          /\ UNCHANGED <<reading, host_config_file, inputVars, typed, found>>
    /\ UNCHANGED <<disk, saved>>

HostFile ==
    /\ At("host") /\ stage' = "using"
    /\ host_config_file' = <<"hosts", config.address>>
    /\ reading' = IF host_config_file' \in DOMAIN disk THEN <<Opened(host_config_file')>> ELSE <<>>
    /\ UNCHANGED <<config, system, inputVars, disk, saved, typed, found>>

Restart ==
    /\ stage = "exited" \/ (stage = "using" /\ reading = <<>>)
    /\ runs < MaxRuns /\ runs' = runs + 1
    /\ stage' = "start" /\ typed' = <<>> /\ found' = disk /\ reading' = <<>>
    /\ host_config_file' = Nowhere /\ system' = NULL
    /\ \E garbage \in BOOLEAN : config' = Defaults(garbage)
    /\ inputs' = <<>> /\ mapping' = get_path(disk, "default.map") /\ inputAdded' = FALSE /\ mapped' = TRUE
    /\ UNCHANGED <<disk, saved>>

ConfigNext ==
    \/ ReadLine \/ BaseFile \/ OnlyAFile \/ OptionsEnd \/ SaveOpens \/ SaveCloses \/ Killed
    \/ Derive \/ Main \/ HostFile \/ Restart
    \/ \E option \in Options : Type(option)

ConfigSpec == ConfigInit /\ [][ConfigNext]_configVars

----------------------------------------------------------------------------
(* What the documents say the options of a run amount to, as a reference.  *)

(* A setting stands in a line of what is typed, of the file that is always *)
(* read, of the host's, or of one that is named in a line of these, and so *)
(* on; where, is the sequence of these lines, its own the last.  Files are *)
(* as the run found them, but for the host's, which is read after saving.  *)
argv == <<"argv", "">>
Files(top) ==
    IF top[1] = "hosts" THEN disk
    ELSE [f \in DOMAIN found \cup {argv} |-> IF f = argv THEN typed ELSE found[f]]

Tops == ({get_path(found, "moonlight.conf")} \ {NULL}) \cup {argv} \cup ({host_config_file} \cap DOMAIN disk)

LineOf(top, spot) == Files(top)[spot.file][spot.line]
Spots(top, file) == {[file |-> file, line |-> n] : n \in DOMAIN Files(top)[file]}
Naming(top) == {s \in UNION {Spots(top, f) : f \in DOMAIN Files(top)} :
                  LineOf(top, s).name = "config" /\ LineOf(top, s).value \in DOMAIN Files(top) \ {argv}}
NamedBy(top, chain, i) == IF i = 0 THEN top ELSE LineOf(top, chain[i]).value
Chains(top) == {c \in UNION {[1 .. n -> Naming(top)] : n \in 0 .. MaxOpen} :
                  \A i \in DOMAIN c : c[i].file = NamedBy(top, c, i - 1)}
PlacesFrom(top) ==
    UNION {{Append(c, s) : s \in Spots(top, NamedBy(top, c, Len(c)))} : c \in Chains(top)}
Places == UNION {PlacesFrom(top) : top \in Tops}

Setting(p) == LineOf(p[1].file, Last(p))

(* The file that is always read, what is typed, the file of the host; and  *)
(* a file stands where it is named.                                        *)
Rank(file) == CASE file = argv -> 2 [] file[1] = "hosts" -> 3 [] OTHER -> 1
Earlier(s, t) == Rank(s.file) < Rank(t.file) \/ (s.file = t.file /\ s.line < t.line)
Before(p, q) ==
    \E k \in DOMAIN p \cap DOMAIN q :
      Earlier(p[k], q[k]) /\ \A i \in 1 .. k - 1 : p[i] = q[i]

(* What a setting says of the fields; a second word is the address.        *)
Says(p) ==
    LET s == Setting(p)
        inFile == Last(p).file # argv
    IN CASE inFile /\ s.name \in {"sops", "localaudio"} -> [f \in {s.name} |-> s.value = "true"]
         [] inFile /\ s.name = "address" -> [f \in {s.name} |-> s.value]
         [] inFile /\ s.name \notin required_argument \cup {"sops", "localaudio", "address"} ->
              [f \in {} |-> s.value]
         [] ~inFile /\ s.name = "" ->
              [f \in {x \in {"address"} : \E n \in 1 .. Last(p).line - 1 : typed[n].name = ""} |-> s.value]
         [] OTHER -> Sets(s.name, s.value)

Lasting(places, f) ==
    {p \in places : f \in DOMAIN Says(p) /\ \A q \in places : f \in DOMAIN Says(q) => ~Before(p, q)}
LastSaid(places, f) ==
    IF \E p \in places : f \in DOMAIN Says(p) THEN Says(CHOOSE p \in Lasting(places, f) : TRUE)[f]
    ELSE Default[f]

OfHost(places) == {p \in places : p[1].file = host_config_file}
Used == stage = "using" /\ reading = <<>>

(* The setting that comes last counts, in the order of the file that is    *)
(* always read, the options, and the file of the host, a file standing     *)
(* where it is named (docs/README.pod, "All options specified before       *)
(* -config will be overwritten"); only, the bitrate, the directory and the *)
(* platform are settled before the host's file is read, a platform that    *)
(* supports HEVC has it whatever was asked for, and forcehw is anything if *)
(* not asked for.                                                          *)
LastSettingWins ==
    LET all == Places
        ofHost == OfHost(all)
        before == all \ ofHost
        address == LastSaid(before, "address")
    IN Used =>
         /\ \A f \in Field \ {"action", "address", "bitrate", "keydir", "forcehw", "forcehevc"} :
              config[f] = LastSaid(all, f)
         /\ system \in platform_check(LastSaid(before, "platform")) \ {NULL}
         /\ config.forcehevc = (LastSaid(all, "forcehevc") \/ platform_supports_hevc(system))
         /\ LastSaid(all, "address") \in {NULL, config.address}
         /\ config.action # "map" =>
              \E a \in Address \cup {address} : host_config_file = <<"hosts", a>> /\ address \in {NULL, a}
         /\ config.bitrate =
              IF \E p \in ofHost : "bitrate" \in DOMAIN Says(p) THEN LastSaid(all, "bitrate")
              ELSE IF LastSaid(before, "bitrate") # -1 THEN LastSaid(before, "bitrate")
              ELSE Bitrate(LastSaid(before, "height"), LastSaid(before, "fps"))

Of(places, name) == {p \in places : Setting(p).name = name}

LastMapping(mappings) ==
    LET last == CHOOSE q \in mappings : \A r \in mappings : ~Before(q, r)
    IN IF mappings = {} THEN get_path(found, "default.map")
                        ELSE get_path(Files(last[1].file), Setting(last).value)

(* Every input is opened in its turn, with the mapping that was named last *)
(* before it, in whatever files either of them is, or the default one; and *)
(* where no input is named, devices are opened as they are found, with the *)
(* mapping that was named last of all (docs/README.pod, "-mapping").  One  *)
(* that is named after the last of some inputs ends the program (Derive)   *)
(* or, in the host's file, is not used.                                    *)
InputsMapped ==
    LET all == Places
        named == Of(all, "input")
        mappings == Of(all, "mapping")
    IN Used =>
         /\ \E at \in [DOMAIN inputs -> named] :
              /\ \A p \in named : \E k \in DOMAIN at : at[k] = p
              /\ \A j, k \in DOMAIN at : j < k => Before(at[j], at[k])
              /\ \A k \in DOMAIN at :
                   inputs[k] = [path |-> Setting(at[k]).value,
                                mapping |-> LastMapping({q \in mappings : Before(q, at[k])})]
         /\ named = {} => ~inputAdded /\ mapping = LastMapping(mappings)

(* A run that is given nothing but a file that was saved to the end has    *)
(* the eight fields that config_save writes as in the run that saved them, *)
(* but for those of them that have their default value where the file that *)
(* is always read says otherwise.  Nothing else of that run comes back:    *)
(* all other fields, the inputs and the mapping are what the file that is  *)
(* always read says, although "-save" is said to "Save the configuration   *)
(* provided by the options" (docs/README.pod:56).                          *)
SavedLoads ==
    LET others == {p \in Places : p[1].file # argv}
    IN (/\ stage \in {"save", "derive"} /\ saved # NULL /\ disk = found
        /\ typed = <<[name |-> "config", value |-> saved.file]>>)
       => /\ \A f \in SavedField :
               \/ config[f] = saved.config[f]
               \/ saved.config[f] = Default[f] /\ \E p \in others : f \in DOMAIN Says(p)
          /\ \A f \in Field \ (SavedField \cup {"action", "forcehw"}) :
               config[f] = LastSaid(others, f)
          /\ \A p \in Places : Setting(p).name \in {"input", "mapping"} => p \in others
==============================================================================
