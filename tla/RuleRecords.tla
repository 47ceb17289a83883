---------------------------- MODULE RuleRecords ----------------------------
(***************************************************************************)
(* The records of rule_context_cache.py: what one discovery pass derives   *)
(* from the files of a worktree, and what comparing a stored record with a *)
(* fresh one lets an agent reuse.  SHA-256 is taken to be injective: a     *)
(* digest is the value it digests.                                         *)
(***************************************************************************)
EXTENDS Naturals, Sequences, FiniteSets, SequencesExt

CONSTANTS
    Paths,          \* files of the worktree that may be rules
    Directories     \* instruction candidates, per directory from root to cwd

RecordAssumption == IsFiniteSet(Paths) /\ Directories \in Seq(Seq(Paths))

NoRecord == [status |-> "none"]

-----------------------------------------------------------------------------
(* Discovery and fingerprints                                               *)

\* _read_nonempty
NonEmpty(content) == content.present /\ content.text # ""

\* _markdown_references, _repo_map_references and _resolve_reference: the rule
\* files that a file's text names.
References(content) == IF content.utf8 THEN content.refs ELSE {}

\* _instruction_chain: the first candidate of each directory that has content.
Instruction(files, names) ==
    LET filled == {i \in DOMAIN names : NonEmpty(files[names[i]])}
    IN  IF filled = {} THEN <<>> ELSE <<names[Min(filled)]>>
Chain(files) ==
    LET upTo[d \in 0..Len(Directories)] ==
            IF d = 0 THEN <<>> ELSE upTo[d - 1] \o Instruction(files, Directories[d])
    IN  upTo[Len(Directories)]

ChainReasons(files, limit) ==
    LET chain == Chain(files)
        sizes == [i \in DOMAIN chain |-> files[chain[i]].size]
    IN  (IF FoldSeq(+, 0, sizes) + 2 * (Len(chain) - 1) > limit /\ chain # <<>>
           THEN {"DISCOVERY_SIZE_LIMIT_EXCEEDED"} ELSE {})
        \cup (IF chain = <<>> THEN {"REPOSITORY_INSTRUCTION_CHAIN_EMPTY"} ELSE {})

\* _logical_content
Logical(content) ==
    IF content.utf8 THEN [normalization |-> "UTF8_CRLF_LF_NORMALIZED",
                          semantic |-> <<content.text>>]
    ELSE [normalization |-> "BYTE_EXACT", semantic |-> <<content.text, content.eol>>]

\* _fingerprint_source, with the dependencies _finalize_record adds.
Fingerprint(kind, content, git, dependencies) ==
    [kind |-> kind, raw |-> <<content.text, content.eol>>,
     normalization |-> Logical(content).normalization,
     semantic |-> Logical(content).semantic,
     git |-> git, dependencies |-> dependencies]

\* _transitive_dependencies: the least set that holds the dependencies of path and of
\* its own members, without path itself.
ClosedUnder(graph, S) == \A q \in S : graph[q] \subseteq S
Reach(graph, path) ==
    {q \in DOMAIN graph \ {path} :
        \A S \in SUBSET DOMAIN graph :
            graph[path] \subseteq S /\ ClosedUnder(graph, S) => q \in S}

Graph(record) == [q \in DOMAIN record.sources |-> record.sources[q].dependencies]

\* scope_context and analysis_key of _finalize_record.
ScopeContext(record) ==
    [cwd |-> record.cwd, discovery |-> record.discovery,
     chain |-> [i \in DOMAIN record.chain |->
                  <<record.chain[i], record.sources[record.chain[i]].semantic>>]]
AnalysisKey(record, path) ==
    [scope |-> ScopeContext(record), path |-> path,
     semantic |-> record.sources[path].semantic,
     closure |-> [q \in Reach(Graph(record), path) |->
                    <<record.sources[q].semantic, record.sources[q].dependencies>>]]

\* _validate_record_shape, what it relates: a chain without repetition, whose paths
\* are exactly the instructions, and dependencies that are sources.
ValidScope(record) ==
    /\ record.chain # <<>>
    /\ \A i, j \in DOMAIN record.chain : record.chain[i] = record.chain[j] => i = j
ValidSources(record) ==
    /\ {p \in DOMAIN record.sources : record.sources[p].kind = "instruction"}
         = ToSet(record.chain)
    /\ \A p \in DOMAIN record.sources :
          record.sources[p].dependencies \subseteq DOMAIN record.sources

-----------------------------------------------------------------------------
(* Comparison of a stored record with a snapshot                            *)

Plan(status, reasons, reanalyze, reuse) ==
    [status |-> status, reasons |-> reasons, reanalyze |-> reanalyze, reuse |-> reuse]
Miss(reasons, record) == Plan("CACHE_MISS", reasons, DOMAIN record.sources, {})

\* Mutation: only the direct dependents are invalidated.
DirectDependents(changed, sources) ==
    changed \cup {p \in DOMAIN sources : sources[p].dependencies \cap changed # {}}
\* _dependent_closure: the least set with the changed paths and what depends on it.
DependentClosure(changed, sources) ==
    {p \in DOMAIN sources :
        \A S \in SUBSET DOMAIN sources :
            /\ changed \subseteq S
            /\ \A q \in DOMAIN sources : sources[q].dependencies \cap S # {} => q \in S
            => p \in S}

ContentChanged(old, new) ==
    old.semantic # new.semantic \/ old.normalization # new.normalization
RawEolOnly(old, new) ==
    /\ old.raw # new.raw /\ old.semantic = new.semantic
    /\ old.normalization = "UTF8_CRLF_LF_NORMALIZED"
    /\ new.normalization = "UTF8_CRLF_LF_NORMALIZED"
GitChanged(old, new) == old.git # new.git /\ ~RawEolOnly(old, new)

\* Why the whole context must be read again, whatever the sources say.
ScopeReasons(old, new) ==
    (IF old.cwd # new.cwd THEN {"WORKING_DIRECTORY_CHANGED"} ELSE {})
    \cup (IF old.discovery # new.discovery
            THEN {"DISCOVERY_CONFIGURATION_CHANGED"} ELSE {})
    \cup (IF old.chain # new.chain THEN {"INSTRUCTION_CHAIN_CHANGED"} ELSE {})
SourceSetReasons(old, new) ==
    LET added == DOMAIN new \ DOMAIN old
        removed == DOMAIN old \ DOMAIN new
    IN  IF added \cup removed = {} THEN {}
        ELSE {"SOURCE_SET_CHANGED"}
             \cup (IF added # {} THEN {"SOURCE_ADDED"} ELSE {})
             \cup (IF removed # {} THEN {"SOURCE_REMOVED"} ELSE {})
             \cup (IF {old[p].semantic : p \in removed}
                        \cap {new[p].semantic : p \in added} # {}
                     THEN {"SOURCE_RENAMED_OR_MOVED"} ELSE {})
TopologyChanged(old, new) ==
    old.kind # new.kind \/ old.dependencies # new.dependencies

\* compare_records between two records of equal scope and source set.
CompareSources(chain, old, new) ==
    LET content == {p \in DOMAIN new : ContentChanged(old[p], new[p])}
        git == {p \in DOMAIN new : GitChanged(old[p], new[p])}
        invalid == DependentClosure(content \cup git, new)
    IN  IF \E p \in DOMAIN new : TopologyChanged(old[p], new[p])
          THEN Plan("CACHE_MISS", {"DEPENDENCY_GRAPH_CHANGED"}, DOMAIN new, {})
        ELSE IF (content \cup git) \cap ToSet(chain) # {}
          THEN Plan("CACHE_MISS", {"INSTRUCTION_CHAIN_FULL_INVALIDATION"}, DOMAIN new, {})
        ELSE IF content \cup git # {}
          THEN Plan("PARTIAL_INVALIDATION",
                    (IF content # {} THEN {"RULE_CONTENT_CHANGED"} ELSE {})
                    \cup (IF git # {} THEN {"RULE_GIT_STATE_CHANGED"} ELSE {}),
                    invalid, DOMAIN new \ invalid)
        ELSE Plan("CACHE_HIT",
                  IF \E p \in DOMAIN new : old[p].raw # new[p].raw
                    THEN {"EOL_REPRESENTATION_EQUIVALENT"} ELSE {"CACHE_RECORD_VALID"},
                  {}, DOMAIN new)

\* compare_records.  A snapshot is complete or says why not; a record that is missing
\* and one that _read_record refuses are told apart by their reason code only.
Compare(previous, snapshot) ==
    LET current == snapshot.record
        scope == ScopeReasons(previous, current)
        set == SourceSetReasons(previous.sources, current.sources)
    IN  IF snapshot.reasons # {} THEN Miss(snapshot.reasons, current)
        ELSE IF previous = NoRecord THEN Miss({"NO_VALID_RECORD"}, current)
        ELSE IF scope # {} THEN Miss(scope, current)
        ELSE IF set # {} THEN Miss(set, current)
        ELSE CompareSources(current.chain, previous.sources, current.sources)
=============================================================================
