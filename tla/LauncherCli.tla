----------------------------- MODULE LauncherCli -----------------------------
(* The command line of the launcher (strawwu-launcher, cli.rs): from the words  *)
(* after the program's name to a command, or to an error.  Most subcommands    *)
(* are read in two passes: parse_home_json takes --json and --home out and      *)
(* turns -p and --prefix into marked words, wherever they stand; what is left   *)
(* goes to the scan of the subcommand.                                          *)
EXTENDS Naturals, Sequences, FiniteSets, Functions

CONSTANTS
    Lines,      \* the command lines: a subcommand and the words after it
    Dashed,     \* the words that start with '-', those the launcher knows and any other
    Nothing     \* no value

\* The flags and options the launcher knows.
Flags == {"--json", "--home", "-p", "--prefix", "--arch", "--force", "--notes", "--status",
          "--token", "--channel", "--profile", "--set", "--apply", "--grant", "--revoke",
          "--backend", "--bundle", "--install", "--run", "--auto", "--"}

\* (That a literal such as "--json" is in STRING is not known to the provers.)
\* No word is empty, and none starts with the mark that parse_home_json sets.
ASSUME LinesAssumption ==
    /\ Flags \subseteq Dashed /\ Nothing \notin STRING \union Dashed
    /\ \A l \in Lines : l.cmd \in STRING /\ l.words \in Seq(STRING)

VARIABLES
    line,       \* the words given
    parsed      \* the command made of them

cliVars == <<line, parsed>>

NotYet == [state |-> "none", flags |-> {}, values |-> {}, prefixes |-> << >>,
           operands |-> << >>, want |-> Nothing]
Fresh == [NotYet EXCEPT !.state = "ok"]
Rejected == [NotYet EXCEPT !.state = "error"]

SmallerNat(a, b) == IF a < b THEN a ELSE b

\* What a scan keeps of a word: the last value of an option, every flag and
\* operand.
Keep(r, option, w) ==
    [r EXCEPT !.values = {v \in @ : v[1] # option} \union {<<option, w>>}, !.want = Nothing]
SetFlag(r, w) == [r EXCEPT !.flags = @ \union {w}]
Operand(r, w) == [r EXCEPT !.operands = Append(@, w)]
Error(r) == [r EXCEPT !.state = "error"]

\* The loop of a scan: one word, or one item, at a time.
Loop(Word(_, _), start, words) ==
    LET upTo[i \in 0 .. Len(words)] ==
            IF i = 0 THEN start ELSE Word(upTo[i - 1], words[i])
    IN  upTo[Len(words)]

\* One pass over words with flags, options that take a value, whatever it is,
\* and operands.
ScanWord(r, w, flags, options) ==
    CASE r.want # Nothing -> Keep(r, r.want, w)
      [] r.want = Nothing /\ w \in flags -> SetFlag(r, w)
      [] r.want = Nothing /\ w \in options -> [r EXCEPT !.want = w]
      [] OTHER -> Operand(r, w)

Scan(words, flags, options) ==
    Loop(LAMBDA r, w : ScanWord(r, w, flags, options), Fresh, words)

\* The command, unless an option at the end has no value.
Done(r) == IF r.state = "error" \/ r.want # Nothing THEN Rejected ELSE r

\* An item of the words that parse_home_json leaves; a subcommand that does not
\* look for the mark takes the marked text.
Item(w, marked) == [word |-> w, marked |-> marked]
MarkedText == "__prefix__:"
Text(item) == IF item.marked THEN MarkedText ELSE item.word

HomeWord(r, w) ==
    CASE r.want = "--home" -> Keep(r, "--home", w)
      [] r.want \in {"-p", "--prefix"} ->
             [r EXCEPT !.operands = Append(@, Item(w, TRUE)), !.want = Nothing]
      [] r.want = Nothing /\ w = "--json" -> SetFlag(r, w)
      [] r.want = Nothing /\ w \in {"--home", "-p", "--prefix"} -> [r EXCEPT !.want = w]
      [] OTHER -> Operand(r, Item(w, FALSE))

HomeJson(words) == Done(Loop(HomeWord, Fresh, words))

\* Mutation: a word there is no room for is dropped.
TakeItemOrDrop(r, item, room, dashed) ==
    IF Len(r.operands) < room /\ (item.marked \/ item.word \notin Dashed \/ dashed)
    THEN Operand(r, Text(item)) ELSE r

\* An operand, if the subcommand has room for it.
TakeItem(r, item, room, dashed) ==
    IF Len(r.operands) < room /\ (item.marked \/ item.word \notin Dashed \/ dashed)
    THEN Operand(r, Text(item)) ELSE Error(r)

\* The second pass, over items: marked ones are prefixes if the subcommand
\* looks for the mark, and words like any other if it does not.
ItemWord(r, item, flags, options, marks, room, dashed) ==
    CASE r.want # Nothing -> Keep(r, r.want, Text(item))
      [] r.want = Nothing /\ item.marked /\ marks -> [r EXCEPT !.prefixes = Append(@, item.word)]
      [] r.want = Nothing /\ ~item.marked /\ item.word \in flags -> SetFlag(r, item.word)
      [] r.want = Nothing /\ ~item.marked /\ item.word \in options -> [r EXCEPT !.want = item.word]
      [] OTHER -> TakeItem(r, item, room, dashed)

Emptied(s) == [s EXCEPT !.operands = << >>]

SecondPass(s, flags, options, marks, room, dashed) ==
    IF s.state = "error" THEN Rejected
    ELSE Done(Loop(LAMBDA r, item : ItemWord(r, item, flags, options, marks, room, dashed),
                   Emptied(s), s.operands))

NeedsOperands(r, n) == IF Len(r.operands) < n THEN Rejected ELSE r

\* list, seed, smoke and status: nothing may be left.
NoRest(words) == SecondPass(HomeJson(words), {}, {}, FALSE, 0, FALSE)

\* plan, get, manifest and launch: the first items, whatever they are; more
\* are passed over.
FirstItems(words, least, most) ==
    LET s == HomeJson(words)
        kept == SubSeq(s.operands, 1, SmallerNat(Len(s.operands), most))
    IN  IF s.state = "error" THEN Rejected
        ELSE NeedsOperands([s EXCEPT !.operands = [i \in DOMAIN kept |-> Text(kept[i])]], least)

Is(cmd) == line.cmd = cmd /\ parsed.state = "none" /\ UNCHANGED line

ParseList == \E c \in {"sysapps list", "sysapps smoke", "interop status", "interop smoke",
                       "prefix list", "recipes list", "matrix list", "matrix seed"} :
    Is(c) /\ parsed' = NoRest(line.words)

ParseSysapps ==
    \/ Is("sysapps launch") /\ parsed' = FirstItems(line.words, 1, 2)
    \/ Is("sysapps manifest") /\ parsed' = FirstItems(line.words, 1, 1)

ParseInteropGrant ==
    LET r == SecondPass(HomeJson(line.words), {}, {"--token", "--channel"}, TRUE, 0, FALSE)
    IN  /\ Is("interop grant")
        /\ parsed' = IF Len(r.prefixes) < 2 \/ {v[1] : v \in r.values} \ {"--home"}
                            # {"--token", "--channel"} THEN Rejected ELSE r

\* The names of the two profiles are values of --profile.
ProfileWord(r, item) ==
    CASE r.want # Nothing -> Keep(r, r.want, Text(item))
      [] r.want = Nothing /\ ~item.marked /\ item.word = "--profile" -> [r EXCEPT !.want = item.word]
      [] r.want = Nothing /\ ~item.marked /\ item.word \in {"baseline", "optimized"} ->
             Keep(r, "--profile", item.word)
      [] OTHER -> Error(r)

ParseBench ==
    LET s == HomeJson(line.words)
    IN  /\ Is("bench")
        /\ parsed' = IF s.state = "error" THEN Rejected
                     ELSE Done(Loop(ProfileWord, Emptied(s), s.operands))

ParsePrefixCreate ==
    /\ Is("prefix create")
    /\ parsed' = NeedsOperands(
           SecondPass(HomeJson(line.words), {"--force"}, {"--arch"}, FALSE, 1, FALSE), 1)

ParseRecipes ==
    \/ Is("recipes plan") /\ parsed' = FirstItems(line.words, 1, 1)
    \/ LET r == SecondPass(HomeJson(line.words), {}, {}, TRUE, 1, TRUE)
       IN  /\ Is("recipes apply")
           /\ parsed' = IF r.prefixes = << >> THEN Rejected ELSE NeedsOperands(r, 1)

\* The second operand is the status, if --status did not give it before; one
\* that follows takes its place.
HasStatus(r) == \E v \in r.values : v[1] = "--status"
StatusWord(r, item) ==
    CASE r.want # Nothing -> Keep(r, r.want, Text(item))
      [] r.want = Nothing /\ item.marked -> [r EXCEPT !.prefixes = Append(@, item.word)]
      [] r.want = Nothing /\ ~item.marked /\ item.word \in {"--notes", "--status"} ->
             [r EXCEPT !.want = item.word]
      [] r.want = Nothing /\ ~item.marked /\ item.word \notin Dashed
             /\ r.operands # << >> /\ ~HasStatus(r) -> Keep(r, "--status", item.word)
      [] OTHER -> TakeItem(r, item, 1, FALSE)

ParseMatrix ==
    \/ Is("matrix get") /\ parsed' = FirstItems(line.words, 1, 1)
    \/ LET s == HomeJson(line.words)
           r == Done(Loop(StatusWord, Emptied(s), s.operands))
       IN  /\ Is("matrix set")
           /\ parsed' = IF s.state = "error" \/ ~HasStatus(r) THEN Rejected
                        ELSE NeedsOperands(r, 1)

\* engine, doctor, devices and mfp: a closed set of words.
OnlyWords(words, known) ==
    IF Range(words) \subseteq known
    THEN [Fresh EXCEPT !.flags = Range(words)] ELSE Rejected

ParseEngine == Is("engine") /\ parsed' = OnlyWords(line.words, {"--json", "status", "hello"})
ParseDoctor == Is("doctor") /\ parsed' = OnlyWords(line.words, {"--json"})
ParseDevices == Is("devices") /\ parsed' = OnlyWords(line.words, {"--json", "list"})
ParseMfp == Is("mfp") /\ parsed' = OnlyWords(line.words, {"--json", "smoke"})

ParseOpen ==
    LET r == Scan(line.words, {"--install", "--run", "--auto"}, {})
    IN  /\ Is("open")
        /\ parsed' = IF Len(r.operands) # 1 THEN Rejected ELSE r

\* run: the first operand is the program, the others are its arguments, and so
\* is everything behind "--".
RunWord(r, w) ==
    CASE "--" \in r.flags -> Operand(r, w)
      [] "--" \notin r.flags /\ r.want = Nothing /\ w = "--" ->
             IF r.operands = << >> THEN Error(r) ELSE SetFlag(r, w)
      [] OTHER -> ScanWord(r, w, {}, {"--backend", "--bundle", "--profile"})

ParseRun ==
    LET r == Done(Loop(RunWord, Fresh, line.words))
    IN  Is("run") /\ parsed' = NeedsOperands(r, 1)

\* install, repair, profile and config: the words by their place, more are
\* passed over.
FirstWords(words, n) ==
    IF Len(words) < n THEN Rejected ELSE [Fresh EXCEPT !.operands = SubSeq(words, 1, n)]

ParseInstall == Is("install") /\ parsed' = FirstWords(line.words, 1)
ParseRepair == Is("repair") /\ parsed' = FirstWords(line.words, 1)
ParseProfile == Is("profile inspect") /\ parsed' = FirstWords(line.words, 1)
ParseConfig == Is("config set") /\ parsed' = FirstWords(line.words, 2)

\* apps: one pass for all subcommands, which pick what they use of it.
WithId == {"show", "install", "uninstall", "launch", "prefix", "recipes", "compat"}
Needs(sub) == IF sub \in WithId THEN 2 ELSE 0
Takes(sub) == IF sub \in WithId \union {"permissions"} THEN 2 ELSE 1
Uses(sub) == {"--home"} \union
    CASE sub = "install" -> {"--prefix"}
      [] sub \in {"prefix", "channel"} -> {"--set"}
      [] sub = "recipes" -> {"--apply"}
      [] sub = "permissions" -> {"--grant", "--revoke"}
      [] OTHER -> {}
AppsSubcommand == WithId \union {"list", "status", "channel", "permissions", "catalog", "sysapps", "smoke"}

ParseApps ==
    LET r == Done(Scan(line.words, {"--json"},
                       {"--home", "--prefix", "--set", "--apply", "--grant", "--revoke"}))
        sub == IF r.operands = << >> THEN "list" ELSE r.operands[1]
        used == [r EXCEPT !.values = {v \in @ : v[1] \in Uses(sub)},
                          !.operands = SubSeq(@, 1, SmallerNat(Len(@), Takes(sub)))]
    IN  /\ Is("apps")
        /\ parsed' = IF r.state = "error" \/ sub \notin AppsSubcommand
                        \/ Len(r.operands) < Needs(sub) THEN Rejected ELSE used

CliInit(l) == line = l /\ parsed = NotYet

CliNext ==
    \/ ParseList \/ ParseSysapps \/ ParseInteropGrant \/ ParseBench \/ ParsePrefixCreate
    \/ ParseRecipes \/ ParseMatrix \/ ParseEngine \/ ParseDoctor \/ ParseDevices \/ ParseMfp
    \/ ParseOpen \/ ParseRun \/ ParseInstall \/ ParseRepair \/ ParseProfile \/ ParseConfig
    \/ ParseApps

-----------------------------------------------------------------------------
CliTypeOK ==
    /\ parsed.state \in {"none", "ok", "error"}
    /\ parsed.state # "ok" => parsed.operands = << >> /\ parsed.values = {}
    /\ parsed.want = Nothing

\* The commands that pass over words they have no use for, or whose operand
\* gives way to an option that follows it.
PassOver == {"sysapps launch", "sysapps manifest", "recipes plan", "matrix get", "matrix set",
             "bench", "apps", "install", "repair", "profile inspect", "config set"}

\* No word is dropped and none counted twice.  In every other command, if it was
\* accepted and no word stands there twice, each word is a flag, an option with
\* its value, a prefix with its mark, or an operand, wherever --json, --home and
\* --prefix stand between them.  (A marked prefix that a subcommand takes for
\* something else is the exception.)
NoWordDropped ==
    parsed.state = "ok" /\ line.cmd \notin PassOver /\ IsInjective(line.words)
        /\ MarkedText \notin Range(parsed.operands) \union {v[2] : v \in parsed.values} =>
        Len(line.words) = Cardinality(parsed.flags) + 2 * Cardinality(parsed.values)
            + 2 * Len(parsed.prefixes) + Len(parsed.operands)
=============================================================================
