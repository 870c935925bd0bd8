# ftml in TLA+

ftml turns the markup of a wiki page (Wikidot's and Wikijump's) into a syntax
tree and renders the tree as HTML or text. This directory holds TLA+ models of
the parts of it whose correctness depends on the order of steps, on state
shared between attempts, on what a scan remembers, or on bounds: the parser's
backtracking engine with its memos and its recursion limit, the registries its
attempts share, the driver that parses a page twice, the inclusion of pages into a
text and the arguments of an include, the re-split of bracket runs, the builder of
nested lists, the pairing of inline markers and the nesting of inline elements that
cross, the scans ahead and their memos, the pairing of code blocks and of nested
blocks, the gathering of paragraphs, citations and footnotes as they are rendered,
and the expressions of parser functions. TLC checks the models on small instances;
TLAPS proves the theorems for every value of the constants.

Paths below are relative to the repository.

## 1. The system

### The pipeline

    include()      src/includes    text of the page -> text with other pages in it
    preprocess()   src/preproc     replacements over the text
    tokenize()     src/tokenizer   text -> tokens
    parse()        src/parsing     tokens -> SyntaxTree, errors
    render         src/render      SyntaxTree, PageInfo -> HTML or text

Each stage takes the whole output of the one before and returns. The program is
sequential, with two exceptions: `parse()` runs the parser on a worker thread of
its own for the sake of its stack and joins it; and two caches are kept per
thread. Callbacks leave the program in two places: the `Includer` (asked for the
pages to include, and for the text of a missing one) and the render `Handle`
(asked for page titles and the like).

What makes it hard is not concurrency but *backtracking with shared state*. A
rule is attempted on a clone of the parser. The clones share, through
`Rc<RefCell<..>>`, what they register (footnotes, code blocks, headings) and what
they learn (memos of earlier attempts); an attempt that fails must give back the
first and may keep the second, and a memo entry may be used only where the
attempt would come out the same. Recursion is limited, and the limit is an error
like any other, so what an attempt answers depends on how deep it starts. And
Layout::Wikidot reproduces a program made of ordered text replacements, so it decides
ahead of the rules, in passes over the whole page, who owns which delimiter.

### Components

State, operations and what makes each correct. `PROJECT.json` has the same list
with the source files of each, and every hazard with its line.

| component | state | operations | interacts with | correct if | status |
|---|---|---|---|---|---|
| Includes (`src/includes`) | cursor, ranges found, edited text | scan, parse a plain or quoted block, ask, substitute | the caller's `Includer` | no include lost or replaced twice, the rest of the text untouched, one answer per include | partly: `Includes` |
| Include argument resolution (`includes/parse.rs`) | the arguments of a round | expand keys and values in rounds | Includes | ends within its limits; a reference is replaced, blocked or kept for a reason | partly: `IncludeArguments` |
| Preprocessor (`src/preproc`) | none | rewrites of the text | include() before, tokenizer after | each rewrite leaves the others' input alone; what is put off until the page is parsed is done then | typography partly: `Seams` |
| Comments and parser functions (`src/preproc`) | counts of operators and parentheses | cut out comments, evaluate expressions, take branches | preprocessor | an expression has the value it means, within its limits | partly: `Expressions` |
| Tokenizer (`src/tokenizer.rs`, `parsing/token`) | none | longest-match lexing, twice (grammar and scanner) | parser | the two lexers agree, tokens tile the text | not modelled |
| Bracket run repair (`parsing/mod.rs:392-1029`) | token list, two gates that remember where they scanned to | re-split `[`+`[[[` and `[[[`+`!--` | tokenizer before, probes with the parser | a gate never refuses a reading that would parse; tokens still tile the text | partly: `BracketRuns` |
| Rule engine and memos (`parsing/consume.rs`, `rule/mod.rs`, `parser.rs`) | the stack of clones, depth and peak depth, five memos | consume, try_consume, body loops, lookups | registries, every rule | memos change nothing but time; depth is the stack; backtracking ends | partly, on a reduced grammar: `RuleEngine` |
| Shared registries (`parser.rs`) | footnotes and row tails, html and code blocks, headings, bibliographies | push, snapshot, reset, truncate, probe, fuse | every rule | an attempt that fails is undone exactly; footnote numbers are consecutive and refer to what they name | partly, by the ways an attempt ends: `Registries` |
| Parse driver (`parsing/mod.rs:98-390`) | which parse, the outcome | spawn or not, ordinary parse, deep parse, convert | rule engine twice, caller | the second parse sees nothing of the first; a limit met is reported or retried | partly: `ParseDriver` |
| Depth stack (`parsing/depth.rs`) and the list rule behind it | open layers, finished trees | push item, deepen, shallow, change type, finish; settle types, build elements | lists, quotes, definition lists, table of contents | rows read back at their depth and type, no panic, no empty list | modelled: `Depths`, `Lists` |
| Paragraph stack (`parsing/paragraph`) | the run being built, the finished elements, marks | push, batch, end, reopen for a footnote | gather_paragraphs | no element lost, no empty or nested paragraph | partly: `Paragraphs`; the gathering loop in `RuleEngine` |
| Inline pairing (`parser/inline_pairs.rs`, `inline_format.rs`) | markers and their roles | pair in six rules, find what interleaves, assign roles | Layout::Wikidot, consume | pairs as the replaced patterns would; no event without its partner | partly: `InlinePairs` |
| Inline scopes (`inline_scope.rs`) | pairs by number, open scopes, the inline stack | number and pair, lower, close, reopen | paragraphs, block frames | elements nest as the inline stack says; both passes number alike | partly: `InlineScopes` |
| Block pairing and closer scans (`parser/block_pairs.rs`, `closer_scan.rs`, `unmatched_close_scan.rs`) | memos of closers by position, the pairs of a block kind | which opener owns which closer; does a closer come | rules, Layout::Wikidot | a memo answers as the scan would; pairs as a lazy pattern | partly: `ScanMemos` with `ScanMemosProofs`, `NestPairs` |
| Code and raw spans (`wikidot_code.rs`, `wikidot_raw_escape.rs`) | two monotone memos, a stack of openers | pair openers and closers before the parse | preprocessor, block rule | the reader ends at the closer the scan paired | partly: `CodeSpans` |
| Block rules, line and inline rules (`parsing/rule/impls`) | none beyond the parser's | one per construct | rule engine, registries, depth stack | element and arguments as documented | reduced to the shapes the engine tells apart |
| Finishing passes (`parsing/footnote.rs`, `heading.rs`, `strip.rs`) | none | rewrites of finished elements | parser | text kept | not modelled |
| Delayed resolution (`src/delayed*`) | seams between pieces | resolve conditional content | preprocessor before, tree, renderer | a page reads as if hidden parts and tags had not been written | partly: `Seams` |
| Syntax tree (`src/tree`) | bounded traversal, bibliography counters | visit, clone, number | renderer, parser | a label has one number; no walk recurses past the bound | bibliographies: `Citations` |
| HTML rendering (`src/render/html`) | context counters, footnotes and citations being rendered | one per element | tree, Handle | a reference shows what it refers to, once at a time; ids unique | references: `Citations` |
| Text rendering, settings and page data, identifiers, caches per thread, WebAssembly, text utilities, probes and tests | little or none | | | | not modelled, see section 7 |

### Hard behaviours

* **Backtracking over shared state.** Snapshots are lengths, not copies; they are
  taken and reset by more than a dozen rules by hand, one kind of probe undoes
  only part (footnotes), and rules tried out for their answer undo nothing.
* **Memos with contexts.** A key that leaves out something an attempt depends on
  gives a wrong answer only on a page that meets the same position in two contexts.
* **Recursion limits.** The depth of an attempt is recorded as a difference of two
  counters (a *height*), reset, restored and raised around each attempt. The depth
  itself is incremented once and decremented at a dozen exits.
* **Two parses of one page.** The second must start from nothing.
* **Two passes that count alike.** The lowering of inline scopes numbers its markers
  twice, in two traversals; one count too many and every later marker has another's
  partner.
* **Ranges into a text that changes**, in `include()`, and offsets found in a text
  without its quote prefixes.
* **Scans that remember how far they got**, asked by rules that fail and are rolled
  back, in any order and context.
* **Marks that outlive what they are about**: the paragraph stack decides what a run
  becomes from marks set several elements before.
* **Unbounded input**: loops that advance by assignments on several paths must end,
  and rounds that feed on themselves must meet a limit.

There are no crashes to recover from (nothing is persisted), no lost or duplicated
messages and no locks that two threads contend for.

## 2. Modules

| module | models | state and actions |
|---|---|---|
| `Depths` | `process_depths`, `DepthStack` | `stack`, `finished`, and the row and level the loops are at; one action per loop iteration: `IncreaseDepth`, `DecreaseDepth`, `NewListAtBottom` and `NewListNested` (a change of type), `PushItem`, and at the end `CollapseLayer` and `IntoTrees` |
| `Lists` | `retain_active_nested_list_types` and `build_list_element` around it | extends `Depths`; `caller`, `written` (the rows as written); no step of its own |
| `Transactions` | abstract: nested transactions over copies | `data`, `saved`; `Begin`, `Add`, `End(R)` |
| `Registries` | the shared registries and how attempts end | `reg`, the current clone's `tree` and `block` flag, the `frames` of open attempts, the footnotes left as `orphans`; registrations, `Begin`, and `Succeed`, `Fail`, `EndProbe`, `EndTrial`, `Fuse`, `Unfuse` |
| `RuleGrammar` | rules and pages as the engine sees them | constants, and `input` |
| `RuleEngine` | `consume`, `Rule::try_consume`, body loops, limit, memos | `frames` is the stack of parser clones, each at a point of its body loop or of its `consume` call; `notes` the footnote registry; `peak`; the memos; one action per step that changes state, per way out and per kind of memo hit |
| `RuleReference` | what a grammar makes of a page without memos | functions of text, position and context, no state: `RefPage`, `RefBody`, `RefAttempt` |
| `RuleMemos` | what the memos promise | extends engine and reference by the properties that compare them (`PageMatches`, `FailuresSound`, ...); no step of its own |
| `RuleInvariants` | what holds of the engine at every step | definitions that the engine's theorems are stated with: its inductive invariants (`IInv`, `NInv`, `EngineRight`), and under what they hold (`Faithful`, `SparesExactly`); no step of its own |
| `ParseDriver` | `parse()`, `parse_internal`, `parse_and_convert` | the engine's state, `driver` and `outcome`; composes two instances of the engine, at the ordinary and the deep limit |
| `Includes` | `include()`, `parse_include_block`, `parse_quoted_include`, `substitute_replacements` | `text`, `cursor`, `match`, `blockText`, the ranges, `edits`, `output`, `pages`, `status`; one action per branch of the scan, per answer of the Includer and per replacement |
| `BracketRuns` | `repair_bracket_run_tokenization` and its head and name gates | `tokens`, `index`, both gates; one action per reading committed or refused |
| `InlineStack` | abstract: the elements E and the stack I of `docs/WikidotInlineNesting.md` | `open`, `stack`; the tag being `close`d, its `slot`, `mode`; `Boundary` is what the document says of the end of a paragraph, `OutermostStay` what the code does there |
| `InlineScopes` | `PendingScopes`, `collect_valid_pairs`, `ActiveScopes`, `tidy_close` | `stream` and where it is `at`; `pairs`, `valid` and `ordinal` of the numbering; `active` (chain, inline stack, scopes, watches); `closing`; one action per marker, boundary and step of a close |
| `Picking` | what is left of a sequence when elements go by their places (`unlink`, filters) | operators, no state |
| `ScanMemos` | `closer_scan.rs`, `unmatched_close_scan.rs` | the page's `tokens` and the memos `plain`, `free`, `math`, `found`, `region`, `heads`, `labels`, with `claims`, the outcomes of probes by context; the `walk` under way; one action per question asked |
| `NestPairs` | `pair_nest` and its tree of sums | `events`, `tree`, `ranges`, `out`; one action per range |
| `CodeSpans` | `wikidot_code.rs` `candidates`, `active_ranges`, and the block rule that reads up to the closer | `source`, `cursor`, `stack`, `output`, the memos `lines` and `brackets`; one action per kind of marker |
| `InlinePairs` | `compute_wikidot_inline_markers` | operators on a page, no state |
| `IncludeArguments` | `resolve_include_arguments` | `raw`, `arguments`, `round`, `resolving`; one action per round and way out |
| `Paragraphs` | `ParagraphStack` as `gather_paragraphs` feeds it | `gathered` (the stack with its marks), `given` (what was pushed), `breaks`, `line`, `phase`; one action per kind of input |
| `Citations` | `BibliographyList`, and citations, footnotes and their blocks in `render/html` | `bibliographies`, `footnotes`, `body`; the calls of `render_elements` in `work`; the stacks `citing` and `noting`; `shown` |
| `Expressions` | `expression.rs` | operators on an expression, no state |
| `Seams` | `substitute_wikidot_impl` before the parse, `rewrite_elements` and `wikidot_seam_edits` after it | operators on a source, no state: `Substituted`, `Parsed`, `Rewritten`, and `Shown`, which is all three |
| `MC*` | instances for TLC | constants (`MCGrammar`: the small grammar of the engine and the driver), the pages to explore, and for the algorithms the properties that compare with a reference; `MCStructures` and `MCAlgorithms` each put together modules that share no state |
| `*Proofs` | theorems | see section 5 |

How they fit together: `RuleEngine` and `RuleReference` extend
`RuleGrammar`; `RuleMemos` extends both, and `MCRuleEngine` and `RuleInvariants` extend
`RuleMemos`. `RuleEngineProofs` extends `RuleInvariants`. `ParseDriver` instances `RuleEngineProofs` twice
(`Ordinary`, `Deep`) rather than `RuleEngine`, so that its own proofs can cite what
is proved of the engine at either limit; the proof module adds theorems and no
state. `Registries` implements `Transactions` under the mapping `saved <- Copies`.
`RuleEngine` keeps the one registry an engine step can tell apart, the footnotes
(a parser inside a footnote behaves differently, and successes that registered one
are not remembered); the others, the probes and the fuses are in `Registries`.
`Lists` extends `Depths` with a caller in front and behind, so that one run checks the
stack and what the list rule makes of it. `InlineScopes` implements `InlineStack`
(`Implements`) where the document that the latter is written from
speaks: paragraphs, no anchors. At the end of a paragraph the code does not keep to the
document (section 6), so there are two specifications in `InlineStack`: `Spec`, with the
document's `Boundary`, and `LoweredSpec`, with `OutermostStay` in its place. The code
implements the second, and the first as long as no other paragraph begins.
`MCStructures` puts together `Lists`, `Registries`, `Includes` and `InlineScopes`, and
`MCAlgorithms` nine modules whose inputs are a page, a source or an expression and whose
caller only waits for the answer. Neither's modules share state: a behaviour is about one
of them (`part`, `asked`), and the others stay where they are. That saves a run for each and
changes nothing they explore.

### From the code to the states

*Rule engine.* `frames[k]` is the k-th parser clone. `phase = "body"` is the loop
around `consume` (`collect`, `gather_paragraphs`, or a block's body loop), `"rules"`
is inside `consume`, with `tried` the errors of the rules that have failed so far.
`StartRule` pushes the clone `try_consume` makes; `CloseAccepted`, `CloseRejected`
and the callers of `Fail` pop it. `Key`, `Stored` and `Usable` are
`rule_attempt_key`, the pinning of an outcome that met the limit to its depth, and
the lookup. `deterministic_block_failures` and `recursion_depth_failures` are one
set, `blockFailures`. The hundred rules are six shapes: a leaf of one token, an
inline format, a block, a block whose body takes partial elements (`[[ruby]]`), a
partial block (`[[rt]]`), a footnote; two of the shapes come gathered by
`gather_paragraphs` and two do not, as in the code. The layout is Wikijump's:
Wikidot's pairs delimiters and blocks ahead of the rules.

*Registries.* A registration is a number that is never used twice, so that two
registries are equal exactly if nothing happened to either. The tree is reduced to
the elements that refer to a registry. A *probe* is a rule run on a clone whose elements
are dropped and whose footnotes are given back (`link_single.rs:385`); a *trial* is one, or
a body read and given up, that gives back nothing (`line_break.rs:245`,
`paragraph/mod.rs:745, 797`, `consume.rs:2006`; mostly through `evaluate_fn`, `parser.rs:3558`). A
footnote a trial registered stays, and no element refers to it: `orphans` holds its number,
so that the properties can tell it from one that was lost in another way.

*Includes.* A text is a sequence of tokens whose boundaries are the only ones the
scanner's expressions and parsers can stop at; offsets count tokens.

*Include arguments.* Keys and values are sequences of atoms, an atom a character or a
whole reference `{$name}`; sizes are the code's byte counts of those. A round is one
step, because the code's map of the next round is only looked at when it is whole.

*Depths and lists.* A tree is kept as a sequence of opens, items and closes. Which rows
have no content matters only to `build_list_element`, so every choice is compared in the
last state.

*Bracket runs.* A token is its kind with its span, and the text is its characters, a
word being one, so that what a re-split does to the spans can be checked. The head
word of a candidate is collected as in the code, with `[[iftags]]` segments put in and
comments left out; whether a block with a known name then parses to its closer is
given for every offset and any set of offsets (`complete`), as whether the page's tags
meet the conditions of segments (`tagged`). The pages are those the tokenizer's
tokens tile (`PagesAssumption`).

*Inline scopes.* `stream` is what the passes before leave: openers, closers, complete
elements, closers that table cells make up (`synth`), and where paragraphs and block
frames begin and end. `Collect` is the whole first pass. A close takes one step per
element of the chain that ends on the way (`TidyLast`, `TidyCrossed`, `TidyNone`) and one
for what reopens, as `tidy_close` loops. A scope keeps the `origin` of which it is a
copy.

*Scan memos.* A rule may ask any question at any position in any context at any time,
because rules fail and are rolled back and memos are not: so every question is enabled in
every state. A context is what the code's key holds of a parser. Whether a block head
claims its closer is decided by a probe whose outcome the model takes from `claims`.

*Inline pairs.* The six rules are in the code's order, the symmetric rule with its monospace
stage in the middle; `MarkerRoles` is the map of roles that `consume` reads.

*Code spans.* The scan is a state machine, since its two memos depend on the order of
questions; the reader, which counts closers in tokens, is an operator on its result.

*Paragraphs.* An element is its kind with its number. The marks of `ParagraphStack` are
fields of `gathered`; an input is what `gather_paragraphs` receives: one element, a
batch, a break, an end of input, a control character.

*Citations.* Rendering is recursive in the code; here `work` is the stack of calls, so
that the state between two calls, with its two stacks of references, can be looked at.

*Expressions.* A number is a fraction; what is infinite or irrational is *wild*, and what is
made of it is not followed further. `Level` is the ladder of recursive functions, one
per precedence; `Meaning` is what an expression means by where its loosest operator is,
and shares no definition with it but the values.

*Seams.* A source is its characters, with a conditional that is hidden as one element and
the two tags of one that is shown. `Substituted` is the preprocessor, told whether to put
off what touches a conditional; `Parsed` leaves a seam where a tag was; `Rewritten` goes
through the elements group by group, a group being what lies between two line breaks.
Replacements are edits of ranges, as in the code, and all of a group are found before one
is made.

## 3. Runs

Bounds are in the `.cfg` files and, where inputs are enumerated, in the `MC*` modules.
All runs set `CHECK_DEADLOCK FALSE`: every component returns, and a finished one takes no
more steps. That each does finish is a property of its own (`Terminates`) where a loop
could fail to advance: the engine, the driver and `include()`. It is not in `Registries`
and `ScanMemos`, whose steps are the page's to choose, nor where every step moves a
position on.

| run | explores | shows |
|---|---|---|
| `structures` | four structures, each on its own (below); 1.89 million states | see below |
| `registries_line_probe` | up to 3 registrations under up to 3 nested attempts | violation: `EveryFootnoteReferred`, section 6 |
| `engine` | every page of up to 5 of dash, `[[ruby]]`, `[[rt]]` and closers; up to 6 of two crossing formats, breaks, `[[blockquote]]`; up to 5 of dash, `[[footnote]]`, `[[rt]]`; up to 5 of `[[ruby]]`, `[[rt]]`, `[[blockquote]]` and closers; limit 4; 716 thousand states | the page and every remembered failure, success and body walk are what the engine without memos makes of them (`PageMatches`, `FailuresSound`, `SuccessesSound`, `WalksSound`), where it is claimed (below); backtracking ends (`Terminates`) |
| `engine_block_memo` | up to 5 tokens, no limit met | violation: `BlockFailuresDeterministic`, section 6 |
| `parse_driver` | every page of up to 5 of `[[blockquote]]`, `[[footnote]]`, dash at limits 2 and 4, with and without a worker; 178 thousand states | the outcome is that of one parse without memos at the deep limit (`LimitsInvisible`), a limit is reported only if the deep one was met (`DepthReported`), footnotes agree with references (`FootnotesServed`), `parse()` returns (`Terminates`) |
| `bracket_runs` | every text of up to 4 of 12 pieces (runs, comments, segments whole and in parts, names, what ends them) with a run in it, every set of blocks that parse, Wikijump layout; 705 thousand states | repaired tokens tile the text (`TokensTile`); the head gate answers as a full scan would (`HeadGateExact`); what the name gate remembers refuses nothing more (`MemoryRefusesNoMore`); a reading that parses is never spared (`ParsingReadingTaken`) |
| `bracket_runs_wikidot` | up to 5 of the pieces without comments, Wikidot layout | violation: `ParsingReadingTaken`, section 6 |
| `inline_anchor` | up to 6 markers | violation: `ClosersConsumed`, section 6 |
| `inline_boundary` | four openers, and every order of five closers and paragraphs in which closers of the outermost and the third come before a paragraph | violation: `BoundaryReopensStack`, section 6 |
| `algorithms` | nine algorithms, each on all its small inputs (below); 843 thousand states | see below |
| `paragraphs_footnote` | up to 4 inputs, batches where a footnote reopens | violation: `EveryElementKept`, section 6 |
| `expression_limits` | the inputs of `algorithms` | violation: `LimitsStayLiteral`, section 6 |

The run `structures`, one structure at a time:

| structure | inputs | shows |
|---|---|---|
| depths and lists (`Lists`) | every run of up to 4 rows of depth 0-3, and, where the list rule calls, of its two marker types with every set of rows without content | the stack never underflows (`LayersMatchLevel`); rows read back at their depth and type, in one list while nothing changes, and no list is empty (`RowsReadBack`); the elements of a list hold every row that has content or one that has inside it, once and in order, below the row written around it (`ListsBuilt`) |
| registries (`Registries`) | up to 3 registrations in 3 registries under up to 3 nested attempts, probes, trials and fuses, every order | lengths implement copies (`Transactional`); footnotes and row tails go together (`TailsParallel`); elements refer, in order and once, to the footnotes there are but for those of trials (`RefsMatchFootnotes`); a footnote block is placed once (`FootnotesPrintedOnce`) |
| includes (`Includes`) | every text of up to 3 of 13 kinds of line, every answer | ranges lie apart (`RangesApart`), edits are valid when made (`PrefixUntouched`); nothing quoted is cut that is not part of the quote, and no include is lost (`IncludesExact`); the output is as specified token by token (`OutputMatches`), and `include()` returns (`Terminates`) |
| inline scopes (`InlineScopes`) | every sequence of up to 7 markers of three elements and paragraphs, or of two and block frames; of up to 5 where anchors, closers made up by tables or complete elements take part; block frames behind a reopened span; limit of 3 scopes | a marker has one partner at most, of its own class, and no more pairs overlap than the limit (`PairsCapped`); no scope is open twice and no tag twice on the stack (`NoneTwice`); step by step, E and I of the document but for the ends of paragraphs, and there what `OutermostStay` says (`Implements`) |

The run `algorithms`, one algorithm at a time:

| algorithm | inputs | shows |
|---|---|---|
| scans ahead (`ScanMemos`) | every page of up to 3 or 4 tokens of the 3 to 6 kinds each scan tells apart, every order of questions, contexts and outcomes of probes | an answer from memory is the one a fresh look at the tokens would give (`ScansFresh`); how a walk that passes all tokens ends, folded token by token, is what `ScansFresh` says of it (`WalksEnd`) |
| code blocks (`CodeSpans`) | every source of up to 5 of 6 words | what is paired and what is read up to is what the balance of openers and closers over the whole source says; the memos of line and bracket answer as a fresh look (`CandidatesExact`) |
| inline markers (`InlinePairs`) | every page of up to 5 or 6 tokens of seven alphabets of 4 | a symmetric rule pairs as its ungreedy pattern does on the text that is left (`PairsMatchPatterns`); the events the roles stand for open and close in turn, and crossing pairs are found exactly (`RolesExact`) |
| nested blocks (`NestPairs`) | every sequence of up to 7 heads and closers | the tree finds the pairs of the lazy recursive pattern (`NestPairsExact`) |
| paragraphs (`Paragraphs`) | up to 5 inputs of five sets of 5 or 6, both layouts | every element pushed is in the result once and in order (`EveryElementKept`); a paragraph holds no paragraph and no block, spans no break unless a footnote reopened it, and text is bare only for a reason (`ParagraphsWellDivided`) |
| include arguments (`IncludeArguments`) | up to 3 arguments of 3 keys and 6 values, an allowance of 4 bytes | the result never grows past the limit; names as written settle before the rounds are used up, with no reference left that would fit; the first value of a name counts (`ArgumentsResolved`) |
| citations (`Citations`) | up to 3 calls that make bibliographies, two labels, two footnotes, both layouts | what is shown is what the references mean, under the numbers the entries bear, and no reference is shown inside itself (`ReferencesShown`) |
| expressions (`Expressions`) | every expression of up to 5 or 6 tokens of six alphabets of 5 or 6, limits of 2 operators and 2 parentheses, both policies on zero | an expression has the value it means; what is none, divides by zero or passes a limit stays as it was written if it breaks off, or passes the limit with its last token and outside every operand, and is shown as an error otherwise (`ExpressionsExact`) |
| typography at seams (`Seams`) | every source of up to 5 or 6 elements of eight alphabets of 4 or 5 (angles, dots, spaces, quotes, breaks, hidden and shown conditionals), one shown conditional | a page reads as if the tags and the hidden parts had not been written, and no replacement at a seam overlaps another (`SeamsTransparent`) |

**Why the bounds are enough.** *Depths*: four rows hold a jump of several levels up,
a drop to a layer of another type, a change of type at the same depth and a row
after each; depth 3 is one more than a jump of two. *Registries*: three nested attempts
are an outer one, one that ends wrongly and one inside it; three registrations put one in
each, under an attempt, a probe or a trial in any order. *Engine*: a memo error needs one position met in two contexts. Two attempts at one
token, or one token inside an enclosing rule and again after that rule has failed, take
two openers, the token, and one or two closers; five or six tokens leave room for a second
failure, and a limit of four is met by nesting, while the pages with the fewest levels keep
within it (MIN_TOKENS of 2 instead of the code's larger number makes entries out of attempts
this short). One of the four alphabets holds the page of `engine_block_memo`, which keeps
within the limit. *ParseDriver*: limits
of two and four give pages that fit the first, that fit only the second, and that fit
neither, from nesting as well as from footnotes. *Includes*: the thirteen lines are whole,
quoted, malformed and unfinished blocks, comments over terminators and quotes of several
depths; three of them put a block before, inside and after another. *BracketRuns*: a gate's
memory matters when two runs ask, so a text needs two runs and what lies between or
behind them; four pieces hold two runs, a name or segment, and what ends it.
*InlineScopes*: three pairs that cross in every way are six markers; a paragraph between
them is the seventh, and a limit of three is met by four openers. *Scans*: a memo is
wrong if it was learnt at one position in one context and used at another position or in
another context, so a page needs two positions, what lies between and what ends the
scan. *CodeSpans*: an opener in an opener with a closer each and one word
that only looks like one. *InlinePairs*: two crossing pairs and two more tokens.
*NestPairs*: seven events make a range that is trimmed, split and split again, and a
tree of four levels. *Paragraphs*: a paragraph, what sets a mark, a break, what should
clear it, and the footnote that reads it. *IncludeArguments*: three arguments refer to each
other in a ring with a fourth reference out of it, and doubling passes the
allowance in the second round. *Citations*: two labels and two footnotes cite each other
both ways. *Expressions*: two binary operators of every two levels with a sign, or with
parentheses around one. *Seams*: an ellipsis with spaces is five characters and a
conditional anywhere in it; two pairs of double marks, or a run of four split at any place,
are four and a conditional. A hidden block is one element, so the tags of shown ones need
the fifth.

**Where memo equality is not claimed.** Two memos answer what the parser without them
would not. `deterministic_block_failure` answers by name and position, whatever
encloses the block (`rule.rs:830`), and without raising `peak_depth`, so that an attempt
which passes a spared block is remembered with too small a height (`parser.rs:2850`).
`partial_rejections` leaves the depth and the footnote out of its key (`parser.rs:2453`), and
so may change the error of an attempt that meets the limit. `PageMatches` speaks of pages where
neither memo holds anything, whatever their depth, and of pages within the limit as long as
no block is known to have run to the end (`NoneEnded`): there refusals are exempt in
the errors only. What is left out is what the code gets wrong: the page of `engine_block_memo` is
among the start states of `engine`, keeps within its limit of four, and comes out other than
the reference. The other three properties leave out an attempt, rather than a page, under
the same condition (`Comparable`): an entry in either memo before its start is no
exemption, since attempts do not look back. The conditions are part of the properties,
stated in `RuleMemos`, and under them they are proved (section 5).

**Other premises.** They are stated with the property that needs them.
`CandidatesExact` speaks of sources in which no nested line-owned `[[code ` head holds a
whole `[[/code]]` before it ends: there the scan passes the closer over and the reader,
which counts `[[/code]]` by tokens, stops one closer early (`wikidot_code.rs:164-167`).
`Implements` speaks of streams without anchors, which the document's rules do not mention,
and without block frames, of which they say less than the code does (section 6).
`RefsMatchFootnotes` speaks of all footnotes but those of trials (section 6). The passing
paragraphs leave out a batch of elements while a footnote may reopen (`ReopenedBatch`),
which is the violation of `paragraphs_footnote`. Citations rely on what the parser allows: no footnote inside a footnote, no footnote block inside one
(`footnote.rs:62`, `footnote.rs:363`), and one reference per footnote.
`SeamsTransparent` builds in the three differences the repository knows of: spaces on both
sides of a seam are one, `>>` at the start of a line is a quoted line only if no seam lies
before its second character, and a line that was hidden as a whole is gone. It leaves out
quotes opened within others and double quotes put together across a tag (`PlainQuotes`,
section 6). How near the model is can be counted: on the twelve tokens of the repository's
own check, up to five of them (271,453 sources), `Shown` differs from the plain text in
3,239, 342, 139 and 1 cases by the classes of
`verification/seam-typography/known-findings.txt`, which are the numbers listed there.

**Fairness.** `WF_vars(Next)` in `RuleEngine` and `ParseDriver`, and that of `Includes` in
`MCStructures`, the modules with `Terminates`: sequential loops that keep running until they return, which is all that
weak fairness of the whole next-state relation says. In `ParseDriver` the caller waits for
a worker that does nothing but run. The Includer is assumed to return, as `include()` does.
No other module states fairness, and none has a liveness property.

## 4. Mutants

Each property of each passing run has a mutated form of one mapped definition
beside that definition (its comment starts with "Mutated form"), the way a plausible
slip in the code would change it: a missing `depth_decrement`, a memo key without its
context, an inclusive range, a probe that gives back nothing, a gate that
answers from a token behind the one it is asked about, list types that outlive a
shallower row, a scope that reopens without those above it, a limit checked after the
operation. TLC finds the property violated under the mutant, with the run's own cfg.

## 5. Proofs

TLAPS proves, for every value of the constants the named assumptions admit:

* **`DepthsProofs`** (assumption `DepthsAssumption`). `TypeCorrect` and
  `NeverUnderflows`: `expect("No depth to pop off!")` never fires. The invariant is
  `DepthsTypeOK` with `LayersMatchLevel`, which is inductive as it stands: each loop moves
  `level` by one exactly when it pushes or pops a layer.
  `RowsPlaced` says of the lists that are built that they hold every row, in order, at its
  depth and in a list of its type (`RowsReadBack`, which reads the document back). The
  prover sees it because no loop does more to the document than to append nodes at its end
  or to give the bottom layer, still empty, another type; reading goes node by node, so what
  was read stays read. The invariant `DocFits` says that the document reads back as the
  rows taken so far, inside the layers open now; that a layer without nodes is the bottom
  or awaits the next row; and that twins, rows of one depth and type, stay in one list.
* **`RegistriesProofs`** (`RegistriesAssumption`). `TypeCorrect`, `StartsSurvive`,
  `SlotsPaired`, and `LengthsAreCopies`: `Spec => Transactional`. The inductive
  invariant adds that the lengths each open attempt recorded fit the registries and
  that a fuse's full copy agrees with the present registries up to the lengths of the
  attempts around it. The refinement then goes by steps: a registration maps to `Add`,
  an attempt that fails to `End` of every registry, one that succeeds or a trial to `End` of
  none, a probe to `End` of the footnotes and their tails; that a reset restores *contents*
  and not just lengths is that nothing below a recorded length is ever rewritten
  (`Keeps`). Writing a footnote's row tail in place is harmless because its slot was
  pushed in the same step.
  `FootnotesReferredOnce` and `BlockPlacedOnce` state what the page is to look like:
  `RefsMatchFootnotes` and `FootnotesPrintedOnce`, which speak of all elements not
  dropped, are not inductive, because when an attempt is dropped they say nothing of what
  is left. `TreesFit` divides the registry among the open parsers: what each of them
  gathered leads from the number of footnotes, the flag and the tails at its start to
  those at the next one's start (`Leads`), so whatever suffix of the stack is dropped, the
  rest still leads to the lengths the registries are cut back to. A parser's part may hold
  orphans of trials that ended inside it; they are what `Leads` steps over, and they go when
  the part does. That a page has none (`EveryFootnoteReferred`) is false of the code (section 6).
* **`RuleEngineProofs`** (`RuleEngineAssumption`). `TypeCorrect`, `DepthIsPlace`,
  `NoHeightUnderflow`, from `Invariance`. The invariants are in `RuleInvariants`. The
  first (`IInv`) says that the stack is a chain
  of attempts, each at its place (`Placed`: its depth is its place, less one outside
  `consume`), that snapshots of the registry grow with the stack and are covered by it,
  that `peak` lies between the
  depth at work and one above the limit, and that every memo entry is well typed and
  fits its depth. `StackBounded` alone is not inductive: without the chain a return
  could put a parser at another depth than its place, and without the bound on
  remembered heights a memo hit could raise `peak` past the limit.
  The second half is about the engine's footnotes, for the driver's theorem. What is
  returned can only be accounted for if every parser on the stack is: `NotesFit` divides
  the registry among them at their snapshots, and says that the elements each has gathered
  refer to its part, in order (`Refers`). A return joins two parts, a failure cuts off the
  last one. It needs that a note in a note never closes, that a leaf gathers nothing, and
  that a remembered success brings no note (`SuccessesPlain`), which is why
  `CloseAccepted` does not remember what registered one.
  The third part is that memos change nothing. `EngineRight` ties the engine to
  `RuleReference`: what each parser on the stack has gathered, followed by what the
  reference makes of the rest of its body in its context, is what the reference makes of
  that body (`StackRight`); what a parser inside `consume` has tried has failed in the
  reference too, and its `peak` covers what that took; every memo entry is what the
  reference answers wherever the entry may be used (`MemosRight`); and the page is the
  reference's (`PageRight`). It comes in two strengths: exact, to the error and the height,
  or for pages that keep within the limit and there for what succeeds. Two lemmas carry
  it. `BodyMoved` and `RuleMoved`: an attempt answers the same, at a height shifted by as
  much, wherever accepted partials and footnote are the same and it has the room it needs;
  this is what makes a remembered height the right condition for use, and a depth in the
  key necessary where the limit was met. `FromTheEnd`: a set of positions that holds a position once it
  holds all later ones holds all; that is induction over the page by sets, since bodies
  are defined from those of later positions. From it:
  - `MemosChangeNothing`: `Spec => []PageMatches`, with no further hypothesis: what the
    property leaves out is in the property. `FailureMemoSound`, `SuccessMemoSound` and
    `WalkMemoSound` (`FailuresSound`, `SuccessesSound`, `WalksSound`) hold as long as
    `rejections` and `blockFailures` hold nothing (`Unasked`); the last also on a page that
    keeps within the limit (`WithinLimit`) where no block is known to run to the end
    (`NoneEnded`), and there `MemosWithinLimit` says of the memos what is left of the other
    two. Such a page never has a depth error to remember or to warn of (`NoDepthWarning`).
  - `MemosSound`: without exception, limit met or not, page, failures, successes and walks
    are the reference's (`PageExact`, `FailuresFollow`, `SuccessesFollow`, `WalksFollow`), if an
    entry of the two memos is only ever used for an attempt that would fail with that error
    and no higher than `peak` accounts for (`SparesExactly`, of each step). So no other memo
    can break them.
  - `BlocksWithinLimit`: within the limit the context that block failures leave out of
    their key is all that does harm; were `BlockFailuresDeterministic` true, outcome,
    elements, footnotes and the other memos would follow the reference, whatever blocks are
    known to run to the end. The run `engine_block_memo` shows that it is not (section 6).

  The conditions are not decoration: without them the statements are false.
  `partial_rejections` leaves depth and footnote out of its key, so it may answer
  *partial* where the attempt would meet the limit or a footnote's end; block failures
  leave out whatever encloses the block. Nor do they empty the theorems: most pages
  use remembered failures and successes before, or without, an entry in either memo, and
  TLC finds steps that use the two memos and satisfy `SparesExactly`, and others that do
  not.
* **`ParseDriverProofs`** (`ParseDriverAssumption`, which is the engine's at both
  limits). `TypeCorrect`, `StackNeverExceeded`, `FootnotesReferred`, `LimitsLeaveNothing`
  and `DepthErrorsTrue`. `parse()` returns
  all its footnotes, each referred to once and in order. The invariant is the engine's and
  that of its footnotes, at the
  limit of the parse under way; within a parse the engine's own lemmas preserve it, and
  `Retry` establishes it at the deep limit from nothing, because `NewParser` forgets
  everything. That is the point: the ordinary invariant of the state before is not used.
  `LimitsLeaveNothing` (`LimitsInvisible`): what is returned is what one parse without memos
  at the deep limit makes of the page, if the parse that came to it refused nothing and
  knows of no block that runs to the end. `JInv` adds the engine's `Faithful` at the limit
  of the parse under way; the reference of the one parse is that of the other, which knows
  no limit but that of its context (`SamePage`), and a page that fits both limits is the
  same at both (`LimitPlaysNoPart`, an instance of `BodyMoved`). `DepthErrorsTrue`
  (`DepthReported`): a recursion error is returned only for a page that does not fit the
  deep limit, unless a block is known to run to the end; refusals are not exempt. A depth
  error itself leaves an entry in `blockFailures` on the small grammar, so a hypothesis
  that excludes every entry would make this theorem empty; this one excludes only the kind
  of entry that is used in the wrong context.
* **`IncludesProofs`** (`IncludesAssumption`). `NoOverlap` and `EditsValid` from
  `Invariance`: ranges end at or before the cursor, and later ones start where earlier
  ones have ended, so they are apart; the edits are all of them in order, so the text up
  to the end of every edit still to be made is the input's.
  `NothingLost` (`IncludesExact`) needs to know that the opener at work is the next one
  there is, and what is parsed really what the text holds there (`ScanOK`); the rest is
  that every move of the cursor accounts for the openers it passes (`LostOK`): those of a
  range it covers, and those before the terminator of an opener that is none go down
  with it. That a quoted block goes with lines of its own only is read off the positions
  kept: the place of a token in the text without quotes is its rank among them, so the
  block's last token is the terminator in the text as well (`Ranks`, `QuotedEnd`).
  `OutputExact` (`OutputMatches`) compares what is put together from the back with what the
  text should be, token by token from the front: the invariant `OutputOK` says that the
  text is the input up to the last edit left, and from there on what it becomes
  (`Replacing`). It needs that the edits are the ranges, each once (`EditsAll`): they are
  given as a sequence without repetitions of as many edits as there are ranges, so none is
  missing (`EveryEdit`); and that the pages gathered are those of the last includes
  (`PagesBack`), because includes are found in the order of the text (`InOrder`).
* **`BracketRunsProofs`** (`PagesAssumption`: the tokenizer's tokens tile their text).
  `TypeCorrect`, `RepairTiles`, `GateExact`, `NothingForgotten`, `GatesOnlySpare` and
  `PrefixesNeverSpared`. Tiling is inductive: each reading holds
  the same characters as the tokens it replaces (`Fits`), and the tokens behind move
  together. The gate's answers are exact because of what it remembers (`GateFits`): a
  token that can end a head, up to which it has looked, or that none is left behind any
  place that will still be asked about. The second half needs that `index` only grows,
  and that every commit starts the gate from nothing at the new `index`.
  What the name gate remembers is a word that ends and in which no segment may form
  (`StretchFits`); that it refuses nothing more than a fresh look rests on what `Stops`
  computes, that a word which starts within another ends no later (`StopsWithin`), and in
  one without comments at the same place (`StopsAsOne`). That no reading which parses is
  missed compares `Stops` with `Collected`, the word the parser would gather in the
  tokens *after* the split: if that word ends, either a segment stands in it, or it is
  made of the tokens up to where `Stops` ends (`WholeDrawn`), one place further on
  (`StopsShift`). `GatesOnlySpare` assumes the native layout, and must: the legacy one
  violates `ParsingReadingTaken` (section 6), by its segments only
  (`PrefixesNeverSpared`).
* **`ScanMemosProofs`** (`ScanMemosAssumption`: no token but the last is of the kind
  `end`, and the kinds that stop a walk are not delimiters).
  `MemoryIsFresh`: `Spec => []ScansFresh`, whatever is asked in whatever order and
  contexts, and whatever the probes claim. The inductive invariant says that every memo
  holds what is so of the tokens, and the walk under way what is so of the tokens it has
  met: no closer from its start on, and the last break it saw. The point that makes it
  inductive is what a proof of absence was learnt under: one learnt where block ends matter
  is kept only if it met none (`AbsencesFit`), so it says the same where other probes
  answer; one learnt where they do not matter is kept in a memo of its own, which no
  context in which they matter reads. A walk
  for a formula that jumped over a part remembers nothing, so the memo needs only what was
  walked. The scans of a region for heads are kept for all contexts only if they saw none.
* **`InlineScopesProofs`** (`InlineScopesAssumption`). `OnceEach` (`NoneTwice`) and
  `Refinement`: `ScopesSpec => Implements`, from `Invariance`. The invariant `IInv` says that the
  chain runs through the scopes in the order they were made (`ActiveOK`; a scope that is
  reopened is a new one, at the end), that the tags on the stack differ, that the slot of a
  close lies on the stack, or just above it once its top is gone (`ClosingOK`), and that a
  stream without anchors leaves none anywhere. The tags differ only because `PushFrom` asks
  first, a close only exchanges entries, and everything else takes entries out; what is
  picked out of a sequence keeps what holds of any two of its elements (`Narrowed`). The
  refinement then goes by steps, each marker's and each step of a close: tags of the chain
  map to E, tags of the entries to I. `MarkersStack` says that every step but the start of
  a paragraph is one of the document's (`MarkerStep`), and with it `DocumentBetweenParagraphs`
  concludes the document's own `Spec` for as long as no other paragraph begins. Over whole
  pages that would be false (`inline_boundary`), so `Implements` is `LoweredSpec`, whose
  step at a boundary is the code's (`OutermostStay`). That the slot lies on the stack is needed there,
  because `Reopen` of `InlineStack` takes what the stack has from the slot upward; what
  `Reopened`, a recursive function, makes of the chain is found by counting entries
  (`ReopenedSteps`), and no entry is pushed again because every tag is there already.
  `PairsKept` (`PairsCapped`) is about the pass before, which counts the whole stream in one
  step: by induction on the elements counted (`CollectedOK`), each of which keeps
  `PendingOK`. An opener waits once, in the queue of its class and with a smaller number;
  what has a partner waits no more, and neither does what a closer from a table took and
  may lose again; `count` is how many of those that wait were accepted (`CountOK`). The
  limit itself needs more than the count now: for every marker passed, the openers behind
  it that were accepted and still wait, or have got a closer past it, are no more than the
  limit (`CapOK`). They were as many when the marker was met, and none can join them since
  (`CapStays`). A stream with a closer from a table is exempt, because taking an opener
  back pairs one that the count has let go. That the numbers are those of `MarkersOf` is
  `PlaceOf` and `MarkersAre`.

What stays with TLC: *liveness* (`Terminates`) and anything with ENABLED, because the
prover does not reason about fairness here. *What recursive definitions compute for every
input*: `CandidatesExact`, `PairsMatchPatterns`, `RolesExact`, `NestPairsExact`,
`EveryElementKept`, `ParagraphsWellDivided`, `ArgumentsResolved`, `ReferencesShown`,
`ExpressionsExact` and `SeamsTransparent` of the run `algorithms`, and `ListsBuilt`, compare
with recursive references or fold over sequences. *Where the two memos hold entries*
that section 5 excludes, the properties of the engine and of the driver are checked
with the exceptions they state, and not proved. A recursive *function* can be proved about,
and the proofs above do so (`Stops`, `Collected`, `Concat`, `ReadBack`, `From`,
`Reopened`, `RefBodies`): that there
is one is shown by taking the least length at which there is none (`Induct`), and so is
what it returns. The proofs about `Includes` carry the parts of its `IncludesTypeOK` they need
(`TextOK`, `SearchOK`).

## 6. Findings

* **A block failure remembered for every context** (`engine_block_memo`,
  `rule/impls/block/rule.rs:821`). In Layout::Wikijump a block that ran to the end of
  the input is remembered by name and position only, as *deterministic*. It is not: in
  `[[ruby]][[blockquote]][[rt]]x[[/blockquote]][[/rt]]` the `[[blockquote]]` inside
  `[[ruby]]` runs to the end, because `[[rt]]` is legal there and takes
  `[[/blockquote]]` as its text; `[[ruby]]` fails, `[[rt]]` becomes text, and the
  `[[blockquote]]` that would now close is failed from memory.
* **White space in front of a run's segment** (`bracket_runs_wikidot`,
  `parsing/mod.rs:805`). The comment at 396-401 says that a candidate whose block parses
  is committed, and that a complete segment commits the segment reading instead of
  leaving a link made of its text. In Layout::Wikidot the name gate does not pass over
  white space, so in `[[[[ iftags -x]][[/iftags]]some-page` it sees no name and refuses;
  `iftags_segment_fused` does pass over it, and would have found the segment complete.
* **A closer that counts twice** (`inline_anchor`, `inline_scope.rs:2486`). The closer of a
  span takes its number and then asks about the next marker's; if an anchor is open inside
  the span it counts that one too, although it is still to come. In
  `[[span]]a[[a href="x"]]b[[/span]]c[[/a]]` the anchor's closer is then met under a number
  nobody paired, and becomes text. The closer of a size, with the same test, counts once.
* **Elements lost before a footnote** (`paragraphs_footnote`, `paragraph/stack.rs:1592`). In
  Layout::Wikidot a footnote behind a blank line goes back into the paragraph before. A rule
  that gives several elements at once (an anchor whose name has a space) does not
  clear the mark for it, so in `A`, a blank line, `[[# a b]][[footnote]]c[[/footnote]]` the
  run with the anchor's elements is replaced by the reopened paragraph.
* **Footnotes of rules tried out** (`registries_line_probe`, `line_break.rs:245`). The comment
  at `link_single.rs:318-320` says that a footnote registered by a probe must not survive
  into the real parse, and that probe truncates. `line_break_skipped_for_own_line_block` runs
  the rules of a line on a clone, keeps the answer and gives nothing back. In
  `text`, a line break, `* item[[footnote]]x[[/footnote]]` the list is parsed and rejected,
  because it registers a footnote, tried out, and parsed again: the page has two footnotes,
  and nothing refers to the first. `paragraph/mod.rs:745, 797` end their probes the same way.
* **What a paragraph reopens** (`inline_boundary`, `inline_scope.rs:288`). The comment at
  284-287 and `docs/WikidotInlineNesting.md:30` say that what follows a boundary reopens
  exactly what the stack holds. `sync_chain_to_istack` takes elements out of the chain and
  opens none. In `//a[[span]]b**c[[span]]d//e**`, a blank line, `f[[/span]]g[[/span]]` nothing is
  open behind the blank line, and the stack holds a span.
* **Expressions past a limit** (`expression_limits`, `expression.rs:113`).
  `parser_functions/mod.rs:52` says that they remain literal. A limit is reported as any
  invalid expression is, so that one met while an operand is read becomes *too few
  parameters* (485-487), and one met before the end a *syntax error* (113-118), and the page
  shows that. With a limit of two operators `- - - 2` and `0+0+0+0` do.

### Observations

Met while modelling, and checked by no run: the cost is time only, the repository
states nothing to compare with, or the part is not modelled.

* `consume` passes a recursion error on only if it is the *last* rule's
  (`consume.rs:2303`). If a later rule of the token succeeds, or an enclosing rule fails
  for another reason, the error is dropped, the page returns without a recursion error,
  and `parse()` does not parse it at the deep limit. `LimitsInvisible` therefore speaks of
  pages that fit the ordinary limit, and of those that were parsed again.
* `body_end.rs:62-64` says that walks at different nesting depths share a fingerprint; lines
  79-88 add every repeat of an ancestor and mix in their number. It costs time.
* `drop_block_boundary_scopes` (`inline_scope.rs:278`) leaves on the inline stack the entries
  of scopes that are copies of one opened outside the frame, so that after a frame with
  `[[span]]x[[/span]]**a[[span]]b**` more reopens than is open in the comment's sense
  (284-287).
* An anchor can be open in an anchor, though `docs/Blocks.md:159` says that an anchor inside
  an anchor's body closes the enclosing one: what reopens when a span is closed may be an
  anchor, while the first is still open. It takes elements that cross the anchor, as in
  `[[span]]`, `[[a]]`, `[[span]]`, `//`, `[[/span]]`. `NoneTwice` says nothing of it.
* `lower_sequence` (`inline_scope.rs:3041`) does not bring the open scopes in step with the
  stack where a block frame or an inner paragraph starts, though
  `docs/WikidotInlineNesting.md:30,39` says that boundaries do. So in
  the model (`StartInner`, `EnterBlock`).
* The limit on scopes (`inline_scope.rs:1107`) caps the openers that wait for a closer, not
  the scopes that are open; reopened copies are not counted.
* An include argument whose *key* is computed may change its name every round until the
  rounds are used up; `ArgumentsResolved` claims that rounds settle only for keys as written.
* `parser_functions/mod.rs:62` speaks of 8,192 candidates; the constant (line 29) is 65,536.
* In Layout::Wikijump a bibliography's block numbers its entries by position, while a citation
  prints the number of distinct labels before; with a label given twice they differ.
* Anchors of the table of contents are numbered as headings are pushed
  (`parsing/mod.rs:1113`, `header.rs:132`), ids of headings as they are rendered
  (`tree/heading.rs:34`, `render/html/context.rs:323`). A heading in a footnote is
  pushed where the footnote is and rendered where the footnotes are, so the links after it
  lead one heading too far.
* Around conditionals, quotes within quotes do not always read as in the joined text. A pair
  found at a seam is skipped if it overlaps one of an earlier kind (`typography.rs:1145`), so
  that in ``` ``a[[iftags +no]]x[[/iftags]] `b' c'' ``` the inner pair stays as it is written;
  and two characters of a double quote that a tag keeps apart are converted as single ones
  before the parse. A pair whose quotes lie on two lines, with a conditional between, stays
  as well, because a group ends at the break. The repository's check has no quotes that
  open in its tokens.
* In `pair_nest` the branch for a range without a balance cannot be reached.

## 7. Not modelled

* **What rules make of arguments, and markup**: the sixty block rules and the renderers
  differ in arguments, elements and strings. A table of inputs and outputs (the
  repository has seven thousand) tests them better than a model.
* **Lexing and preprocessing**: character level, below what the models tell apart. Of
  typography: low quotes, digits and units, dashes, the places it leaves alone (links,
  formulas, attributes, code), Layout::Wikijump. Of delayed resolution: elements within
  elements, and the binding of generated values to their slots. Of the
  parser functions only the expressions are modelled, not the pass that finds functions in
  a text and takes their branches, and not the printing and rounding of numbers.
* **Layout::Wikidot around the pairing**: what a chunk's block heads are beyond their class,
  colours, the events that `inline_format.rs` emits from the roles; which heads and closers
  `block_pairs.rs` counts; the body ends and failure memos of the layout in the engine.
* **Inline scopes**: white space that moves between elements, headings, table cells,
  bibliographies, anchors at block boundaries, and the passes that flatten containers before.
* **Paragraphs**: lists, tables, tabs, collapsibles, math, partial blocks, raw lines and
  literal divs, which set marks of their own, and comments.
* **Lists**: what Layout::Wikidot does to finished lists (`fuse_run_leaf_list`, the collapse
  of single items, footnote blocks taken out, splits).
* **Citations**: references to index 0 or past the end, the paragraph taken into a Wikidot
  bibliography, hidden blocks, scope wrappers, split tails.
* **Parts of the bracket run repair**: `]]]` and closers fused with it, control
  characters, the residual openers of Layout::Wikidot, and the limits (64, 8192 and
  16384 tokens) past which a gate lets everything pass.
* **Remembered state without a model**: the success memo's token budget and its eviction
  (`parser.rs:2790`), two boundary stacks with one 64-bit fingerprint (`body_end.rs:65`),
  the scan of a line's owner, failed targets.
* **Traversals** (`tree/traversal.rs`, `delayed.rs`): the check of depth has a match of its
  own over the kinds of element; a kind it does not look into would be recursed into later.
* **Registries the lengths do not see**: the counter of split tails inside a bibliography
  (`tree/bibliography.rs:191`) is not taken back by a reset, and a footnote block takes the
  row tails registered before it only (`footnote.rs:411`).
* **Panics and memory**: the models have no panics. Where the code would underflow,
  index out of range or `expect`, a property says that it does not.
* **Configuration, counters that hand out ids, per-thread caches, text utilities, the
  WebAssembly boundary**: values fixed beforehand, single increments, lookups keyed by
  all they depend on, conversions.

## 8. Plan

What is done is marked.

1. `Depths` (done): small and closed; the panic and the read-back. `Lists` (done): the
   caller in front and behind. The other callers hand their rows over as they are.
2. `Registries` and `Transactions` (done): what an attempt may leave behind, trials included.
3. `RuleEngine`, `RuleReference`, `RuleMemos` (done): memos, limit, backtracking; proofs of
   the depth accounting, and that memos change nothing.
4. `Includes` (done): ranges, quotes, the Includer's contract; proofs that edits are
   valid, that nothing is lost, and of the output.
5. `ParseDriver` (done): composition of two engines; proofs by the engine's lemmas, also
   that limits leave no trace.
6. `BracketRuns` (done): scans that remember; what the gates may refuse.
7. `IncludeArguments` (done): rounds of expansion under a round and a size limit.
8. `InlinePairs` (done), and `InlineScopes` with `InlineStack` (done): who owns a marker, and
   how elements that cross nest.
9. Bounded traversal (`tree/traversal.rs`) and its users: no walk deeper than the bound,
   every element visited. Proof: the stack's height is the depth of the element.
10. `Paragraphs` (done but for the elements that set marks of their own).
11. `Citations` (done but for split tails and hidden blocks).
12. `Expressions` (done). The pass over parser functions, with its candidates and branches.
13. `ScanMemos` (done, with its proof), `CodeSpans`, `NestPairs` (done). Block heads and closers of
    `block_pairs.rs`, raw escapes. `Seams` (done for one list of elements): seams that meet
    across elements.
14. More proofs: that memos answer rightly also behind an entry of `partial_rejections`
    used where depth and footnote agree; that the inline stack holds a tag once and that `InlineScopes` implements
    `InlineStack` (done); that the pairs open at once stay within the limit (done); that
    the size of an include's arguments stays within its limit; that no step of
    `Registries` rewrites what an open attempt saw, as an action property.
