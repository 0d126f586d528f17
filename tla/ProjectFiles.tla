---------------------------- MODULE ProjectFiles ----------------------------
(***************************************************************************)
(* What the engine reads before it does anything: princess.toml and its    *)
(* paths (config.rs of princess-core), the manifests of the languages      *)
(* (registry.rs and manifest.rs of princess-lang) and the [ai] section     *)
(* (config.rs of princess-ai).                                             *)
(***************************************************************************)
EXTENDS Naturals, Sequences, SequencesExt, FiniteSets

CONSTANTS
    Names,      \* names of files, extensions and languages
    MaxDepth,   \* bound on the components of a path
    MaxFiles    \* bound on the files of a directory

VARIABLE job

None == "none"

-----------------------------------------------------------------------------
(* Paths: [abs : BOOLEAN, parts]. *)

Path(abs, parts) == [abs |-> abs, parts |-> parts]
Parts == SeqOf(Names \cup {".", ".."}, MaxDepth)

FoldParts(parts, Step(_, _)) ==
    LET out[n \in 0..Len(parts)] == IF n = 0 THEN <<>> ELSE Step(out[n - 1], parts[n])
    IN  out[Len(parts)]

\* One component of normalize: there is nothing to pop at the root.
DropParent(out, part) == IF part \in {".", ".."} THEN out ELSE Append(out, part)    \* mutant
PushOrPop(out, part) ==
    CASE part = "." -> out
      [] part = ".." -> IF out = <<>> THEN <<"..">> ELSE Front(out)
      [] OTHER -> Append(out, part)

normalize(path) == [path EXCEPT !.parts = FoldParts(path.parts, PushOrPop)]

\* root.join: an absolute path replaces the root.
join(root, path) == IF path.abs THEN path ELSE Path(root.abs, root.parts \o path.parts)

\* expand_env, for the forms whose first component is ~ or a variable.  A variable or a
\* HOME that is not set expands to nothing, and the slash after it stays.
Leads == {"plain", "root", "~", "$V"}
expand_env(text, value) ==
    CASE text.lead = "plain" -> Path(FALSE, text.parts)
      [] text.lead = "root" -> Path(TRUE, text.parts)
      [] OTHER -> IF value = <<>> THEN Path(text.parts # <<>>, text.parts)
                  ELSE join(value[1], Path(FALSE, text.parts))

resolve_path(text, value, root) == normalize(join(root, expand_env(text, value)))

Values == {<<>>, <<Path(TRUE, <<"a">>)>>, <<Path(FALSE, <<"b">>)>>}

\* An absolute directory, as the file system walks it: .. of the root is the root.
Walk(path) ==
    FoldParts(path.parts, LAMBDA out, part :
        IF part = "." THEN out
        ELSE IF part # ".." THEN Append(out, part)
        ELSE IF out = <<>> THEN out ELSE Front(out))

-----------------------------------------------------------------------------
(* The sections of the manifest.  A key has the values it may be given, the *)
(* one serde gives it when the section leaves it out, and the one it has    *)
(* when there is no such section.                                           *)

Key(values, omitted, default) == [values |-> values, omitted |-> omitted, default |-> default]
Plain(values, default) == Key(values, default, default)
Optional(value) == Key({value}, None, None)

Language == {"c", "asm", "cpp", "rust", "zig", "java"}
Arch == {"x86_64", "i386", "aarch64", "riscv64"}
BuildBackendKind == {"make", "cmake", "cargo", "zig", "javac", "custom"}
RunBackendKind == {"qemu", "jvm"}
BootProtocol == {"multiboot1", "multiboot2", "uefi", "raw"}
DebugBackendKind == {"gdb"}
AiProviderKind == {"openai-compatible", "none"}

NoDatabase == None    \* mutant
default_compile_commands == "compile_commands.json"
default_serial_tee == "build/serial.log"

ProjectSection ==
    [name |-> Optional("kernel"), language |-> Plain(Language, "c"), arch |-> Plain(Arch, "x86_64")]
BuildSection ==
    [backend |-> Plain(BuildBackendKind, "make"), command |-> Optional("ninja"),
     cwd |-> Plain({"."}, "."), targets |-> Plain({"[iso]"}, "[]"),
     artifacts |-> Plain({"[kernel.elf]"}, "[]"),
     compile_commands |-> Key({"build/cc.json"}, default_compile_commands, "compile_commands.json"),
     jobs |-> Optional("4")]
SerialSection ==
    [device |-> Plain({"com2"}, "com1"),
     tee_to_file |-> Key({"serial.txt"}, default_serial_tee, "build/serial.log")]
RunSection ==
    [backend |-> Plain(RunBackendKind, "qemu"), kernel |-> Optional("kernel.elf"),
     boot |-> Plain(BootProtocol, "multiboot2"), args |-> Plain({"[-m]"}, "[]"),
     timeout_ms |-> Plain({"0"}, "15000")]
StubSection ==
    [host |-> Plain({"::1"}, "127.0.0.1"), port |-> Plain({"0"}, "1234"), mode |-> Plain({"attach"}, "launch")]
DebugSection == [backend |-> Plain(DebugBackendKind, "gdb"), symbols |-> Optional("kernel.sym")]
ToolchainSection ==
    [cc |-> Optional("cc"), assembler |-> Optional("as"), ld |-> Optional("ld"), gdb |-> Optional("gdb")]
AiSection ==
    [provider |-> Plain(AiProviderKind, "none"), base_url |-> Plain({"x"}, ""), model |-> Plain({"x"}, "")]
ProjectConfig ==
    [project |-> ProjectSection, build |-> BuildSection, serial |-> SerialSection, run |-> RunSection,
     stub |-> StubSection, debug |-> DebugSection, toolchain |-> ToolchainSection, ai |-> AiSection]

\* A manifest writes some keys of one section, and some it does not know.
Manifest(section, keys, key, value, unknown) ==
    [kind |-> "config", section |-> section, unknown |-> unknown,
     written |-> [k \in keys |-> IF k = key THEN value
                                 ELSE CHOOSE v \in ProjectConfig[section][k].values : TRUE]]

\* from_toml_str: deny_unknown_fields, or the value of every key of every section.
from_toml_str(j) ==
    IF j.unknown THEN <<>>
    ELSE <<[section \in DOMAIN ProjectConfig |-> [key \in DOMAIN ProjectConfig[section] |->
              IF section # j.section THEN ProjectConfig[section][key].default
              ELSE IF key \in DOMAIN j.written THEN j.written[key]
              ELSE ProjectConfig[section][key].omitted]]>>
Default ==
    [section \in DOMAIN ProjectConfig |-> [key \in DOMAIN ProjectConfig[section] |->
        ProjectConfig[section][key].default]]

-----------------------------------------------------------------------------
(* load_or_default, with somebody else at work in the directory. *)

Manifests == {"absent", "unreadable", "invalid", "schema 2", "valid"}
Makefiles == {"absent", "unreadable", "plain", "iso"}

Opening(dir, manifest, makefile) ==
    [kind |-> "open", dir |-> dir, manifest |-> manifest, makefile |-> makefile,
     pc |-> "look", changed |-> FALSE, result |-> None, targets |-> <<>>,
     saw |-> manifest, read |-> None]

Refuse == job' = [job EXCEPT !.pc = "done", !.result = "refused"]

\* Is there a manifest?
LookForManifest ==
    /\ job.kind = "open" /\ job.pc = "look"
    /\ job' = [job EXCEPT !.saw = job.manifest,
                          !.pc = IF job.manifest # "absent" THEN "load" ELSE "default"]

\* load: unknown keys, a missing schema and a schema other than 1 refuse the project.
Lenient(manifest) == manifest \in {"valid", "schema 2"}    \* mutant
Accepted(manifest) == manifest = "valid"
Load ==
    /\ job.kind = "open" /\ job.pc = "load"
    /\ IF Accepted(job.manifest)
       THEN job' = [job EXCEPT !.pc = "done", !.result = "manifest", !.read = job.manifest]
       ELSE Refuse

\* Without one a Makefile is asked for, and its iso target is looked for.
SynthesiseDefaults ==
    /\ job.kind = "open" /\ job.pc = "default"
    /\ IF ~job.dir \/ job.makefile = "absent" THEN Refuse
       ELSE job' = [job EXCEPT !.pc = "done", !.result = "defaults",
                               !.targets = IF job.makefile = "iso" THEN <<"iso">> ELSE <<>>]

\* An editor saves, or removes, the manifest.
ManifestChanges ==
    /\ job.kind = "open" /\ job.pc # "done" /\ job.dir /\ ~job.changed
    /\ \E manifest \in Manifests \ {job.manifest} :
         job' = [job EXCEPT !.manifest = manifest, !.changed = TRUE]

-----------------------------------------------------------------------------
(* LanguageRegistry::load_from_dir. *)

\* A manifest of a language: its id and extensions, or why it is refused.
LanguageFiles ==
    [id : Names, extensions : {<<>>} \cup {<<n>> : n \in Names} \cup {<<n, n>> : n \in Names},
     toml : BOOLEAN]

Languages(files) ==
    [kind |-> "languages", files |-> files, at |-> 1, loaded |-> <<>>, adapters |-> {},
     state |-> "reading"]

\* validate_and_convert: extensions, none of them twice.
IsValid(file) == file.extensions # <<>> /\ IsInjective(file.extensions)
contains_key(id) == \E i \in ToSet(job.loaded) : job.files[i].id = id
NeverThere(id) == FALSE    \* mutant
IsDuplicate(id) == contains_key(id)

\* The adapter of C is built in: it answers for itself and not for the manifest.
CAdapter == "c"

\* One entry of the directory; an error ends the scan and keeps what is registered.
LoadFromFile ==
    /\ job.kind = "languages" /\ job.state = "reading" /\ job.at <= Len(job.files)
    /\ LET file == job.files[job.at]
       IN  job' = IF ~file.toml THEN [job EXCEPT !.at = @ + 1]
                  ELSE IF ~IsValid(file) THEN [job EXCEPT !.state = "invalid"]
                  ELSE IF IsDuplicate(file.id) THEN [job EXCEPT !.state = "duplicate"]
                  ELSE [job EXCEPT !.at = @ + 1, !.loaded = Append(@, job.at),
                                   !.adapters = IF file.id = "c" THEN @ \cup {CAdapter} ELSE @]

EndOfDir ==
    /\ job.kind = "languages" /\ job.state = "reading" /\ job.at > Len(job.files)
    /\ job' = [job EXCEPT !.state = "done"]

\* get, by_extension.
by_extension(extension) ==
    {job.files[i].id : i \in {k \in ToSet(job.loaded) :
                                extension \in ToSet(job.files[k].extensions)}}

-----------------------------------------------------------------------------
(* resolve_ai_config. *)

Settings == {None, "blank", "x", "y"}
Given(setting) == setting \notin {None, "blank"}
FirstGiven(settings) ==
    LET given == SelectSeq(settings, Given) IN IF given = <<>> THEN None ELSE given[1]

\* process_env drops blank variables before anybody looks at them.
process_env(setting) == IF setting = "blank" THEN None ELSE setting
env_base_url(env) == FirstGiven(env)
env_model(env) == IF env[1] # None THEN env[1] ELSE env[2]

ManifestLast(manifest, env, global) == FirstGiven(<<env, global, manifest>>)    \* mutant
pick(manifest, env, global) == FirstGiven(<<manifest, env, global>>)

Ai(provider, base, model) == [kind |-> "ai", provider |-> provider, base |-> base, model |-> model]

resolve_ai_config(j) ==
    LET base == pick(j.base[1], env_base_url(SubSeq(j.base, 2, 4)), j.base[5])
        model == pick(j.model[1], env_model(SubSeq(j.model, 2, 3)), j.model[4])
    IN  IF ~j.provider \/ base = None \/ model = None THEN <<>> ELSE <<base, model>>

\* normalize_base_url and chat_completions_url, on the parts of an endpoint.
normalize_base_url(url) == [url EXCEPT !.scheme = TRUE, !.slashes = 0]
chat_completions_url(url) == [normalize_base_url(url) EXCEPT !.chat = TRUE]

-----------------------------------------------------------------------------
Init ==
    \/ \E lead \in Leads, parts \in Parts, value \in Values, root \in {<<>>, <<"b", "a">>} :
         job = [kind |-> "path", text |-> [lead |-> lead, parts |-> parts], value |-> value,
                root |-> Path(TRUE, root)]
    \/ \E dir \in BOOLEAN, manifest \in Manifests, makefile \in Makefiles :
         /\ ~dir => manifest = "absent" /\ makefile = "absent"
         /\ job = Opening(dir, manifest, makefile)
    \/ \E files \in SeqOf(LanguageFiles, MaxFiles) : job = Languages(files)
    \/ \E provider \in BOOLEAN, base \in [1..5 -> Settings], model \in [1..4 -> Settings] :
         /\ \A i \in 2..4 : base[i] = process_env(base[i])
         /\ \A i \in 2..3 : model[i] = process_env(model[i])
         /\ "y" \in ToSet(model) => "y" \notin ToSet(base)
         /\ job = Ai(provider, base, model)
    \/ \E section \in DOMAIN ProjectConfig : \E keys \in SUBSET DOMAIN ProjectConfig[section] :
         \E key \in DOMAIN ProjectConfig[section], unknown \in BOOLEAN :
           \E value \in ProjectConfig[section][key].values :
             job = Manifest(section, keys, key, value, unknown)
    \/ \E scheme, chat \in BOOLEAN, slashes \in 0..2 :
         job = [kind |-> "url", url |-> [scheme |-> scheme, chat |-> chat, slashes |-> slashes]]

Next ==
    \/ LookForManifest \/ Load \/ SynthesiseDefaults \/ ManifestChanges
    \/ LoadFromFile \/ EndOfDir

Spec == Init /\ [][Next]_job

-----------------------------------------------------------------------------
(* Properties. *)

\* A path of the manifest is made absolute, keeps no `.' and no `..' behind a name,
\* and is still the file that a shell in the root would have meant.
PathIsTheSame ==
    job.kind = "path" =>
        LET path == resolve_path(job.text, job.value, job.root)
            meant == Walk(join(job.root, expand_env(job.text, job.value)))
        IN  /\ path.abs /\ Walk(path) = meant
            /\ path.parts \in {meant, <<"..">> \o meant}

\* A project runs on its manifest or, when it has none, on the defaults for its Makefile:
\* never on a manifest that the engine does not understand, whoever edits it meanwhile.
NothingIsGuessed ==
    job.kind = "open" /\ job.pc = "done" =>
        /\ job.result = "manifest" => job.read = "valid" /\ job.saw # "absent"
        /\ job.result = "defaults" =>
             /\ job.saw = "absent" /\ job.makefile # "absent"
             /\ job.targets # <<>> => job.makefile = "iso"
        /\ ~job.changed /\ job.manifest # "absent" =>
             (job.result = "manifest" <=> job.manifest = "valid")

\* Whatever order the directory lists its files in: no id is there twice, every language
\* is that of a valid file, and a scan that ends well has used every one of them.
LanguagesAreDistinct ==
    job.kind = "languages" =>
        /\ IsInjective([i \in DOMAIN job.loaded |-> job.files[job.loaded[i]].id])
        /\ \A i \in ToSet(job.loaded) : job.files[i].toml /\ IsValid(job.files[i])
        /\ job.adapters = {"c"} \cap {job.files[i].id : i \in ToSet(job.loaded)}
        /\ job.state = "done" =>
             ToSet(job.loaded) = {i \in DOMAIN job.files : job.files[i].toml}

\* The manifest decides, then the environment, then the application; and a provider that
\* is half configured is none.
FirstSettingWins ==
    job.kind = "ai" =>
        LET First(settings) ==
              IF \E i \in DOMAIN settings : Given(settings[i])
              THEN settings[CHOOSE i \in DOMAIN settings : Given(settings[i])
                              /\ \A k \in 1..(i - 1) : ~Given(settings[k])]
              ELSE None
        IN  resolve_ai_config(job) =
              IF job.provider /\ First(job.base) # None /\ First(job.model) # None
              THEN <<First(job.base), First(job.model)>> ELSE <<>>

\* However the endpoint is written, one URL comes out of it, and it stays the same.
UrlIsStable ==
    job.kind = "url" =>
        LET url == chat_completions_url(job.url)
        IN  url = [scheme |-> TRUE, chat |-> TRUE, slashes |-> 0]
            /\ chat_completions_url(url) = url

\* What a manifest leaves out is what a project without that section has, key by key, and a
\* key that is not known refuses all of it.
OmittedIsDefault ==
    job.kind = "config" =>
        LET config == from_toml_str(job)
        IN  IF job.unknown THEN config = <<>>
            ELSE \A section \in DOMAIN ProjectConfig : \A key \in DOMAIN ProjectConfig[section] :
                   config[1][section][key] # Default[section][key]
                     => (section = job.section /\ key \in DOMAIN job.written)

ProjectIsUnderstood ==
    /\ OmittedIsDefault
    /\ PathIsTheSame /\ NothingIsGuessed /\ LanguagesAreDistinct /\ FirstSettingWins
    /\ UrlIsStable

\* Not so: a manifest cannot switch off the database or the copy of the serial line, though
\* the fields are optional and the backends have a case for them.
CanBeSwitchedOff ==
    job.kind = "config" /\ ~job.unknown /\ "compile_commands" \notin DOMAIN job.written =>
        from_toml_str(job)[1].build.compile_commands = None

\* Not so: a variable that is not set leaves the slash behind it, and the path leaves
\* the project, against the comment of resolve_path.
UnsetStaysInside ==
    job.kind = "path" /\ job.text.lead = "$V" /\ job.value = <<>> /\ ".." \notin ToSet(job.text.parts)
        => IsPrefix(job.root.parts, resolve_path(job.text, job.value, job.root).parts)

\* Not so: two `..' in front of a relative path undo each other.
RelativeKeepsItsParents ==
    job.kind = "path" /\ ~(\E n \in Names : n \in ToSet(job.text.parts)) =>
        Cardinality({i \in DOMAIN job.text.parts : job.text.parts[i] = ".."}) =
            Len(normalize(Path(FALSE, job.text.parts)).parts)

\* Not so: a scan that fails has registered what came before the bad file, and a second
\* scan of the repaired directory then finds a duplicate.
FailedScanLeavesNothing ==
    job.kind = "languages" /\ job.state \in {"invalid", "duplicate"} => job.loaded = <<>>

\* Not so: two languages may claim one extension, and the map decides which is found.
ExtensionIsOnes ==
    job.kind = "languages" => \A n \in Names : Cardinality(by_extension(n)) <= 1

=============================================================================
