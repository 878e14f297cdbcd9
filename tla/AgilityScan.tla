----------------------------- MODULE AgilityScan ----------------------------
(***************************************************************************)
(* The static agility scanner (scanner.rs, rules.rs).  A file is a path, a *)
(* size, whether it is text, and its lines; a line is the set of the       *)
(* patterns that match it.  A path and a glob are sequences of words, with *)
(* "/" and the wildcards "*", "**" and "**/" as words of their own.        *)
(***************************************************************************)
EXTENDS Schema, Integers, SequencesExt, FiniteSetsExt

(* The levels from most to least agile (the order of ord_max).             *)
Rank == [negotiated |-> 4, configurable |-> 3, pinned |-> 2, locked |-> 1, frozen |-> 0]

(* The scope of a rule; NoGlob is a path_glob that is not given.           *)
NoGlob == <<>>
RuleScope(kind, glob) == [kind |-> kind, path_glob |-> glob]

Rule(id, applies_to, pattern, emit_level, evidence_kind) ==
  [id |-> id, applies_to |-> applies_to, pattern |-> pattern,
   emit_level |-> emit_level, evidence_kind |-> evidence_kind]

(* load_ruleset: a file that cannot be read, parsed or compiled fails the  *)
(* whole load; a file that is not YAML is passed over.                     *)
load_ruleset(dir) ==
  LET yaml == {f \in dir : f.yaml}
  IN  [ok    |-> \A f \in yaml : f.fault = "none",
       rules |-> {f.rule : f \in yaml}]

(* The words a path consists of, for the tests on its name and extension.  *)
ConfigExts == {".conf", ".cnf", ".ini", ".yaml", ".yml", ".toml", ".json"}
ConfigFilenames == {"sshd_config", "ssh_config", "haproxy.cfg", "postfix", "main.cf"}

(* The name of the file is what follows the last "/"; an extension is a    *)
(* word of its own, so a file name listed whole is one word.               *)
classify_file(path) ==
  IF Last(path) \in ConfigExts \union ConfigFilenames THEN "config" ELSE "code"

(* glob_match: "**/" is any number of directories, "**" anything, "*"      *)
(* anything within one directory; every other word is itself.              *)
glob_match(glob, path) ==
  LET m[i \in 1..Len(glob) + 1, j \in 1..Len(path) + 1] ==
        IF i > Len(glob) THEN j > Len(path)
        ELSE CASE glob[i] = "**/" -> \/ m[i + 1, j]
                                     \/ \E k \in j..Len(path) : path[k] = "/" /\ m[i + 1, k + 1]
               [] glob[i] = "**"  -> \E k \in j..Len(path) + 1 : m[i + 1, k]
               [] glob[i] = "*"   -> \E k \in j..Len(path) + 1 :
                                       /\ \A l \in j..k - 1 : path[l] # "/"
                                       /\ m[i + 1, k]
               [] OTHER           -> j <= Len(path) /\ path[j] = glob[i] /\ m[i + 1, j + 1]
  IN  m[1, 1]

rule_applies(scopes, kind, path) ==
  \E s \in scopes : s.kind = kind /\ (s.path_glob = NoGlob \/ glob_match(s.path_glob, path))

(* Is the content read?  An entry that cannot be opened, a file that is    *)
(* too large and one that is not UTF-8 are skipped.                        *)
Scanned(f, unreadable, max_file_bytes) ==
  f \notin unreadable /\ f.bytes <= max_file_bytes /\ f.text

(* The evidence, each with the level of its rule (TaggedEvidence).         *)
Tagged(files, unreadable, rules, max_file_bytes, max_lines) ==
  LET Hits(f, r) == {n \in 1..max_lines :
        /\ Scanned(f, unreadable, max_file_bytes)
        /\ rule_applies(r.applies_to, classify_file(f.path), f.path)
        /\ n <= Len(f.lines) /\ r.pattern \in f.lines[n]}
  IN  UNION {{[file |-> f.path, line |-> n, kind |-> r.evidence_kind, emit_level |-> r.emit_level] :
                n \in Hits(f, r)} : f \in files, r \in rules}

ord_max(a, b) == IF Rank[a] >= Rank[b] THEN a ELSE b

(* Mutant of aggregate_tagged_level: the fallback takes part.              *)
aggregate_tagged_levelPinned(tagged) ==
  CHOOSE l \in {t.emit_level : t \in tagged} \union {"pinned"} :
    \A k \in {t.emit_level : t \in tagged} \union {"pinned"} : ord_max(l, k) = l

(* The most agile evidence wins; without evidence the level is pinned      *)
(* (UNKNOWN_LEVEL_FALLBACK).                                               *)
aggregate_tagged_level(tagged) ==
  IF tagged = {} THEN "pinned"
    ELSE CHOOSE l \in {t.emit_level : t \in tagged} :
           \A t \in tagged : ord_max(l, t.emit_level) = l

(* AgilityEvidence: a firmware string has no line.                         *)
Evidence(t) ==
  [file |-> t.file, kind |-> t.kind, line |-> IF t.kind = "firmware_string" THEN 0 ELSE t.line]

(* scan_target: the block of a target, its evidence without the levels.    *)
scan_target(files, unreadable, rules, max_file_bytes, max_lines) ==
  LET tagged == Tagged(files, unreadable, rules, max_file_bytes, max_lines)
      level == aggregate_tagged_level(tagged)
  IN  [level |-> level, level_score |-> score[level], evidence |-> {Evidence(t) : t \in tagged}]

=============================================================================
