----------------------------- MODULE Symbolizer -----------------------------
(***************************************************************************)
(* The symbolizer of a trace (native/symbolizer.py, native/symbol_paths.py, *)
(* native/pdb_identity.py): the modules of the trace are registered without *)
(* being loaded; the first address asked for in a module looks for its PDB *)
(* along the symbol path, verifies its identity and hands it to DbgHelp;   *)
(* answers are cached until the symbol path changes.  Every operation      *)
(* holds Symbolizer._lock from end to end, so each is one step here.       *)
(* DbgHelp and the file system are external: what DbgHelp finds and what   *)
(* becomes of a load is any outcome the code distinguishes.                *)
(***************************************************************************)
EXTENDS Integers, Sequences, FiniteSets

CONSTANTS
  Bases,      \* image bases
  Size,       \* ImageSize of a base, 0 when it is not known
  Images,     \* what ImageLoad events say of a base: [base, pdb, guid, age]
  Store,      \* symbol path entry -> the PDB files in it, in the order of a
              \* listing: [pdb, guid, age, format, folder]
  Remote,     \* entries that only DbgHelp reaches (symbol servers)
  Paths,      \* symbol paths: sequences of entries
  DefaultPath, \* the one a symbolizer is created with (the environment's)
  Addresses,  \* return addresses of the trace's stacks
  Builds,     \* identities [guid, age] of images on the analyst's machine
  None

ASSUME SymbolizerAssumption ==
  /\ Bases \subseteq Nat \ {0} /\ Size \in [Bases -> Nat]
  /\ Addresses \subseteq Nat \ {0}
  /\ \A i \in Images : i.base \in Bases
  /\ DefaultPath \in Paths /\ \A p \in Paths : \A k \in DOMAIN p : p[k] \in DOMAIN Store
  /\ None \notin Bases

VARIABLES
  modules,    \* _modules: base -> [image, state], for the registered bases
  bound,      \* what DbgHelp holds at a base (SymGetModuleInfoW64)
  path,       \* _symbol_path
  cache,      \* _cache and _source_cache: address -> [name, source]
  started,    \* _initialized
  tried,      \* the path with which a base was attempted last
  pathError   \* the last set_symbol_path raised

symVars == <<modules, bound, path, cache, started, tried, pathError>>

\* What DbgHelp may hold: nothing, an image whose symbols it has not read yet,
\* the image's export table, or a PDB of some build.  via says how a compressed
\* PDB was found: by SymFindFileInPathW or by listing the path.
Nothing == [type |-> "none", guid |-> None, age |-> None, format |-> None, via |-> None]
Lazy    == [Nothing EXCEPT !.type = "deferred"]
Exports == [Nothing EXCEPT !.type = "export"]
Pdb(f, how) == [type |-> "pdb", guid |-> f.guid, age |-> f.age, format |-> f.format,
                via |-> IF f.format = "msfz" THEN how ELSE None]
OwnPdb(b) == [type |-> "pdb", guid |-> b.guid, age |-> b.age, format |-> "msf7", via |-> None]

(***************************************************************************)
(* Which module an address is in (_find_module_for_address)                *)
(***************************************************************************)

\* The greatest registered base not above the address, if the address is
\* within the module's size; a module of unknown size has no end.
Containing(a) ==
  {b \in DOMAIN modules : /\ b <= a
                          /\ \A c \in DOMAIN modules : c <= a => c <= b
                          /\ Size[b] = 0 \/ a < b + Size[b]}

ModuleAt(a) == IF Containing(a) = {} THEN None ELSE CHOOSE b \in Containing(a) : TRUE

(***************************************************************************)
(* Loading a module's symbols (_ensure_pdb_loaded)                         *)
(***************************************************************************)

\* _read_msf_streams follows the file's page directory to its streams; a
\* compressed, older or broken file is refused.
Readable(f) == f.format = "msf7"

\* read_pdb_identity succeeds and gives the identity that the trace recorded.
Exact(i, f) ==
  Readable(f) /\ f.guid = i.guid /\ i.age # None /\ f.age = i.age

\* A wrong version: what DbgHelp found is taken without reading it.
SearchAcceptsUnread(i, f) == f.format \in {"msf7", "msfz"}

\* A compressed PDB cannot be read: DbgHelp's word is taken when it found the
\* file, the folder's name when it was found by listing.
SearchAccepts(i, f) == Exact(i, f) \/ f.format = "msfz"

ListingAccepts(i, f) ==
  Exact(i, f) \/ (f.format = "msfz" /\ f.folder # None /\ i.age # None
                    /\ f.folder = [guid |-> i.guid, age |-> i.age])

\* iter_pdb_candidates: where the files of that name are, <<k, n>> being the
\* nth file of the path's kth entry.
Candidates(p, i) ==
  UNION {{<<k, n>> : n \in {n \in DOMAIN Store[p[k]] : Store[p[k]][n].pdb = i.pdb}} :
           k \in DOMAIN p}

FileAt(p, c) == Store[p[c[1]]][c[2]]

\* candidate_pdb_paths: those that a listing finds, in path order.
Listed(p, i) == {c \in Candidates(p, i) : p[c[1]] \notin Remote}
NotAfter(c, d) == c[1] < d[1] \/ (c[1] = d[1] /\ c[2] <= d[2])

\* SymFindFileInPathW gives for each entry some file of that name or none, and
\* the search goes on until one is accepted: so any acceptable file, or none.
FoundBySearch(p, i) ==
  {f \in {FileAt(p, c) : c \in Candidates(p, i)} : SearchAccepts(i, f)}

\* The first of the listing that is accepted.
FoundByListing(p, i) ==
  LET hits == {c \in Listed(p, i) : ListingAccepts(i, FileAt(p, c))}
  IN {FileAt(p, c) : c \in {c \in hits : \A d \in hits : NotAfter(c, d)}}

\* SymLoadModuleExW on an accepted file, and the second check on what DbgHelp
\* says it loaded: the PDB, or not (then it is unloaded again); or no module
\* ("error" and "not_loaded" differ in nothing but the word).
LoadFile(f, how) ==
  {[state |-> "pdb", bound |-> Pdb(f, how)],
   [state |-> "rejected_export", bound |-> Nothing],
   [state |-> "not_loaded", bound |-> Nothing]}

\* No file was accepted.
NotFound(p, i) ==
  LET of(format) == \E c \in Listed(p, i) : FileAt(p, c).format = format
  IN [state |-> IF of("msf7") THEN "mismatched"
                ELSE IF Listed(p, i) # {} THEN "invalid" ELSE "not_found",
      bound |-> Nothing]

\* A trace that recorded an identity gets that PDB or nothing; only without
\* one does the image on this machine serve, with its own PDB or its exports.
Attempts(p, i) ==
  IF i.guid # None
  THEN IF i.pdb = None THEN {[state |-> "not_found", bound |-> Nothing]}
       ELSE (UNION {LoadFile(f, "search") : f \in FoundBySearch(p, i)})
              \union (IF FoundByListing(p, i) # {}
                      THEN UNION {LoadFile(f, "listing") : f \in FoundByListing(p, i)}
                      ELSE {NotFound(p, i)})
  ELSE {[state |-> "export", bound |-> Exports],
        [state |-> "image", bound |-> Lazy],
        [state |-> "not_loaded", bound |-> Nothing]}
         \union {[state |-> "pdb_unverified", bound |-> OwnPdb(b)] : b \in Builds}

(***************************************************************************)
(* What an address is called (_resolve_one, _resolve_one_with_source)      *)
(***************************************************************************)

Unknown == [name |-> "unknown", of |-> None, source |-> "unknown"]
Rva(s)  == [name |-> "module+rva", of |-> None, source |-> s]

\* _module_pdb_matches: only a PDB that says it is another one is refused.
PdbMatches(m, h) ==
  \/ m.state = "pdb"
  \/ m.image.guid = None
  \/ h.guid = m.image.guid /\ (m.image.age = None \/ h.age = m.image.age)

Named(m, h) ==
  CASE h.type = "export" -> [name |-> "export", of |-> None, source |-> "export"]
    [] h.type = "pdb" /\ PdbMatches(m, h) ->
         [name |-> "function", of |-> [guid |-> h.guid, age |-> h.age], source |-> "pdb"]
    [] h.type = "pdb" /\ ~PdbMatches(m, h) -> Rva("mismatched")
    [] OTHER -> Rva("unknown")

\* What SymFromAddrW makes of a module whose symbols were postponed.
Probed(h) == IF h.type = "deferred"
             THEN {Exports, Nothing} \union {OwnPdb(b) : b \in Builds}
             ELSE {h}

Answer(a) ==
  IF ModuleAt(a) = None THEN Unknown ELSE Named(modules[ModuleAt(a)], bound[ModuleAt(a)])

(***************************************************************************)
(* Operations                                                              *)
(***************************************************************************)

SymbolizerInit ==
  /\ modules = << >>
  /\ bound = [b \in Bases |-> Nothing]
  /\ path = DefaultPath
  /\ cache = << >>
  /\ started = FALSE
  /\ tried = [b \in Bases |-> None]
  /\ pathError = FALSE

Attempted(b) == modules[b].state # "deferred"
Failed(b) == modules[b].state \notin {"deferred", "pdb"}

SameModule(i, j) == i = j

\* add_module: the same module keeps its state; another one at the same base
\* replaces it, and if DbgHelp had been asked for the old one its symbols go
\* and no cached answer survives.
AddModule(i) ==
  LET b == i.base
      known == b \in DOMAIN modules
      replaced == known /\ ~SameModule(modules[b].image, i)
      fresh == [image |-> i, state |-> "deferred"]
  IN /\ modules' = [c \in DOMAIN modules \union {b} |->
                      IF c = b /\ (~known \/ replaced) THEN fresh ELSE modules[c]]
     /\ IF replaced /\ Attempted(b)
        THEN cache' = << >> /\ bound' = [bound EXCEPT ![b] = Nothing]
        ELSE UNCHANGED <<cache, bound>>
     /\ UNCHANGED <<path, started, tried, pathError>>

\* The state of modules and DbgHelp after the bases in B have been attempted,
\* each with one of its possible outcomes.
Load(B, outcome) ==
  /\ \A b \in B : outcome[b] \in IF Attempted(b)
                                 THEN {[state |-> modules[b].state, bound |-> bound[b]]}
                                 ELSE Attempts(path, modules[b].image)
  /\ modules' = [b \in DOMAIN modules |->
                   IF b \in B THEN [modules[b] EXCEPT !.state = outcome[b].state] ELSE modules[b]]
  /\ started' = (started \/ B # {})
  /\ tried' = [b \in Bases |-> IF b \in B /\ ~Attempted(b) THEN path ELSE tried[b]]

Outcomes == (UNION {Attempts(p, i) : p \in Paths, i \in Images})
              \union {[state |-> "image", bound |-> h] : h \in Probed(Lazy)}

\* resolve(a) of an address that is not cached: its module is attempted unless
\* it has been, and the answer goes into both caches.
Resolve(a) ==
  /\ a \notin DOMAIN cache
  /\ IF ModuleAt(a) = None
     THEN /\ cache' = [x \in DOMAIN cache \union {a} |-> IF x = a THEN Unknown ELSE cache[x]]
          /\ started' = TRUE
          /\ UNCHANGED <<modules, bound, tried>>
     ELSE LET b == ModuleAt(a) IN
          \E o \in Outcomes : \E h \in Probed(o.bound) :
            /\ Load({b}, [c \in {b} |-> o])
            /\ bound' = [bound EXCEPT ![b] = h]
            /\ cache' = [x \in DOMAIN cache \union {a} |->
                           IF x = a THEN Named(modules'[b], h) ELSE cache[x]]
  /\ UNCHANGED <<path, pathError>>

\* ensure_modules_loaded, called for named modules or for all.
EnsureLoaded(B) ==
  /\ B \subseteq DOMAIN modules
  /\ \E outcome \in [B -> Outcomes] :
       /\ Load(B, outcome)
       /\ bound' = [b \in Bases |-> IF b \in B THEN outcome[b].bound ELSE bound[b]]
  /\ UNCHANGED <<path, cache, pathError>>

Retried(m) == IF m.state = "pdb" THEN m ELSE [m EXCEPT !.state = "deferred"]

\* Mutant: the cache is kept when the path is the same.
SetSymbolPathKeeping(p) ==
  /\ path' = p
  /\ modules' = [b \in DOMAIN modules |-> Retried(modules[b])]
  /\ bound' = [b \in Bases |-> IF b \in DOMAIN modules /\ Failed(b) THEN Nothing ELSE bound[b]]
  /\ cache' = IF p = path THEN cache ELSE << >>
  /\ pathError' = FALSE
  /\ UNCHANGED <<started, tried>>

\* set_symbol_path(p): every module but those with their exact PDB is to be
\* attempted again, and every cached answer goes.
SetSymbolPath(p) ==
  /\ path' = p
  /\ modules' = [b \in DOMAIN modules |-> Retried(modules[b])]
  /\ bound' = [b \in Bases |-> IF b \in DOMAIN modules /\ Failed(b) THEN Nothing ELSE bound[b]]
  /\ cache' = << >>
  /\ pathError' = FALSE
  /\ UNCHANGED <<started, tried>>

\* Mutant: only another path counts.
InvalidatesOnChange(p) == p # path

\* What set_symbol_path returns: whether anything derived from the old answers
\* must go as well.
Invalidates(p) == p # path \/ \E b \in DOMAIN modules : Failed(b)

\* SymSetSearchPathW fails: the new path is already stored and nothing else is
\* done; the tools report it and go on.
SetSymbolPathRaises(p) ==
  /\ started /\ p # path
  /\ path' = p
  /\ pathError' = TRUE
  /\ UNCHANGED <<modules, bound, cache, started, tried>>

SymbolizerNext ==
  \/ \E i \in Images : AddModule(i)
  \/ \E a \in Addresses : Resolve(a)
  \/ \E B \in SUBSET DOMAIN modules : EnsureLoaded(B)
  \/ \E p \in Paths : SetSymbolPath(p) \/ SetSymbolPathRaises(p)

SymbolizerSpec == SymbolizerInit /\ [][SymbolizerNext]_symVars

(***************************************************************************)
(* Properties                                                              *)
(***************************************************************************)

\* What load_state says; "loading" is never seen outside the lock.
States == {"deferred", "pdb", "rejected_export", "not_loaded", "mismatched", "invalid",
           "not_found", "export", "image", "pdb_unverified"}

SymbolizerTypeOK ==
  /\ DOMAIN modules \subseteq Bases
  /\ \A b \in DOMAIN modules :
       modules[b] \in [image : Images, state : States] /\ modules[b].image.base = b
  /\ DOMAIN bound = Bases
  /\ path \in Paths
  /\ DOMAIN cache \subseteq Addresses
  /\ started \in BOOLEAN /\ pathError \in BOOLEAN

\* A symbol store keeps a compressed PDB in the folder of its identity, which
\* is what symstore_folder_identity reads for the identity it cannot read.
FoldersAreTrue ==
  \A e \in DOMAIN Store : \A n \in DOMAIN Store[e] :
    LET f == Store[e][n] IN
    f.format = "msfz" /\ f.folder # None => f.folder = [guid |-> f.guid, age |-> f.age]

\* A function name shown for a module whose identity the trace recorded comes
\* from the PDB of that identity, whatever else lies on the symbol path and
\* whatever has been replaced at the same base since, and never from an export
\* table; the one exception is a compressed PDB that DbgHelp itself found,
\* whose identity the code cannot read.
NamesAreExact ==
  \A a \in DOMAIN cache :
    LET b == ModuleAt(a) IN
    b # None /\ cache[a] # Unknown /\ modules[b].image.guid # None =>
      /\ cache[a].source # "export"
      /\ cache[a].source = "pdb" =>
           \/ cache[a].of = [guid |-> modules[b].image.guid, age |-> modules[b].image.age]
           \/ bound[b].format = "msfz" /\ bound[b].via = "search"

\* What the cache says of an address is what it would be called if it were
\* asked for now; only an address that no module held when it was asked for
\* may keep its unknown answer.
CacheIsCurrent ==
  \A a \in DOMAIN cache : cache[a] = Answer(a) \/ cache[a] = Unknown

\* A module that failed was last attempted with the symbol path that is set
\* now, unless setting the path failed.
FailuresAreCurrent ==
  ~pathError => \A b \in DOMAIN modules : Failed(b) => tried[b] = path

\* No answer outlives what it came from: a name neither the symbol path nor
\* the module it was read under, a failure no path that may have the PDB.
AnswersAreCurrent == CacheIsCurrent /\ FailuresAreCurrent

(***************************************************************************)
(* What the proofs add to the properties                                   *)
(***************************************************************************)

\* The module of an address has been attempted and what DbgHelp holds of it
\* has been read, so that its names do not change until the path does.
Settled(a) ==
  \/ ModuleAt(a) = None
  \/ Attempted(ModuleAt(a)) /\ bound[ModuleAt(a)].type # "deferred"

\* Names that are what the symbolizer says now and goes on to say.
Current(t) == \A a \in DOMAIN t : t[a] = Answer(a) /\ Settled(a)

\* What DbgHelp holds of a module with an identity: nothing, the PDB of that
\* identity, or a compressed one that it found itself.
ExactFor(i, h) ==
  \/ i.guid = None
  \/ h = Nothing
  \/ h.type = "pdb" /\ h.format = "msfz" /\ h.via = "search"
  \/ h.type = "pdb" /\ h.guid = i.guid /\ h.age = i.age

\* It holds something only of a module that has been attempted.
LoadedExact ==
  /\ \A b \in Bases : b \notin DOMAIN modules \/ ~Attempted(b) => bound[b] = Nothing
  /\ \A b \in DOMAIN modules : ExactFor(modules[b].image, bound[b])

SymbolizerInv == SymbolizerTypeOK /\ FailuresAreCurrent /\ (FoldersAreTrue => LoadedExact)
=============================================================================
