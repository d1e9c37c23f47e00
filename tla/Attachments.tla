------------------------------ MODULE Attachments ------------------------------
(***************************************************************************)
(* One message with attachments, sent and edited by its sender from        *)
(* several devices: sendMessage and editMessage of the SDK's client.ts,    *)
(* the AttachmentsManager they use and the storage the files go to, while  *)
(* the group's key is rotated.                                             *)
(*                                                                         *)
(* The text, every file and every file's metadata are encrypted one after  *)
(* the other, each with the key version read for it, from a fullnode that  *)
(* may lag (getCurrentKeyVersion): the version of the file may be older    *)
(* than that of the text.  Only the version of the text travels with the   *)
(* message.  Every device is taken to have the right DEK of each version,  *)
(* so a version stands for its DEK.                                        *)
(***************************************************************************)
EXTENDS Integers, FiniteSets

CONSTANTS
    Devices,      \* devices of the sender
    MaxRotations, \* bound: key versions
    MaxFiles,     \* bound: files uploaded
    MaxWrites     \* bound: times the message is written

ASSUME AttachmentsAssumption ==
    MaxRotations \in Nat /\ MaxFiles \in Nat /\ MaxWrites \in Nat

VARIABLES
    version,     \* the key version on chain
    message,     \* the message at the relayer: key version and attachments
    writes,      \* writes of the message so far (0: not sent)
    storage,     \* the stored files: the version each is encrypted with
    uploads,     \* files uploaded so far: a storage id is its number
    held,        \* the attachments each device has seen last
    operation,   \* what each device is doing
    deleting,    \* storage ids being deleted
    overlapped,  \* history: an edit replaced attachments it had not seen
    regressed    \* history: the files a lagging fullnode gave an older
                 \* version than the text, or their metadata than the file

attachmentsVars ==
    <<version, message, writes, storage, uploads, held, operation, deleting,
      overlapped, regressed>>

-----------------------------------------------------------------------------

Files == 1..MaxFiles

(* Attachment: the metadata is inline, encrypted with some version. *)
Attachment == [storageId: Files, metadata: 0..MaxRotations]

StorageIds(attachments) == {a.storageId : a \in attachments}

Idle ==
    [stage |-> "idle", version |-> 0, current |-> {}, kept |-> {},
     remove |-> {}, files |-> 0, uploaded |-> {}]

Sent == writes > 0

-----------------------------------------------------------------------------

(* #decryptMessage fails as a whole, and the message is left out, when the *)
(* metadata of one attachment does not open with the message's version.    *)
Resolves(m) == \A a \in m.attachments : a.metadata = m.version

(* A handle's data(): the file is downloaded, and decrypted with the       *)
(* version of the message.                                                 *)
Download(f) == storage[f]

DataOpens(a, v) == Download(a.storageId) = v

Begin(d, v, current, kept, remove, files) ==
    /\ operation[d].stage = "idle"
    /\ writes < MaxWrites
    /\ operation' = [operation EXCEPT ![d] =
           [stage |-> "encrypt", version |-> v, current |-> current,
            kept |-> kept, remove |-> remove, files |-> files,
            uploaded |-> {}]]
    /\ UNCHANGED <<version, message, writes, storage, uploads, held, deleting,
                   overlapped, regressed>>

(* sendMessage, with a file or without. *)
BeginSend(d, v, files) ==
    /\ ~Sent
    /\ \A other \in Devices : operation[other].stage = "idle"
    /\ Begin(d, v, {}, {}, {}, files)

(* editMessage with attachments: what is kept of those the application     *)
(* passes as the current ones, and a new file or none.                     *)
BeginEdit(d, v, remove, files) ==
    /\ Sent
    /\ remove \subseteq StorageIds(held[d])
    /\ Begin(d, v, held[d],
             {a \in held[d] : a.storageId \notin remove}, remove, files)

(* editMessage without attachments: updateMessage sends an empty list. *)
BeginTextEdit(d, v) ==
    /\ Sent
    /\ Begin(d, v, held[d], {}, {}, 0)

(* The storage keeps what it is given under an id of its own.              *)
StorageWith(f, v) ==
    [g \in DOMAIN storage \cup {f} |->
        IF g \in DOMAIN storage THEN storage[g] ELSE v]

(* upload, steps 1 and 2: the file is encrypted and stored. *)
Upload(d, v) ==
    /\ operation[d].stage = "encrypt"
    /\ operation[d].files = 1
    /\ uploads < MaxFiles
    /\ uploads' = uploads + 1
    /\ storage' = StorageWith(uploads + 1, v)
    /\ regressed' = regressed \cup
           {f \in {uploads + 1} : v < operation[d].version}
    /\ operation' = [operation EXCEPT ![d].stage = "describe",
                                      ![d].uploaded = {uploads + 1}]
    /\ UNCHANGED <<version, message, writes, held, deleting, overlapped>>

(* upload, step 3: the metadata is encrypted. *)
Describe(d, v) ==
    /\ operation[d].stage = "describe"
    /\ operation' = [operation EXCEPT
           ![d].stage = "write",
           ![d].kept = @ \cup {[storageId |-> f, metadata |-> v] :
                                  f \in operation[d].uploaded}]
    /\ regressed' = regressed \cup {f \in operation[d].uploaded : v < storage[f]}
    /\ UNCHANGED <<version, message, writes, storage, uploads, held, deleting,
                   overlapped>>

(* Nothing to upload.  Mutant: a file to upload is forgotten. *)
SkipUploadAlways(d) ==
    /\ operation[d].stage = "encrypt"
    /\ operation' = [operation EXCEPT ![d].stage = "write"]
    /\ UNCHANGED <<version, message, writes, storage, uploads, held, deleting,
                   overlapped, regressed>>

SkipUpload(d) ==
    /\ operation[d].stage = "encrypt"
    /\ operation[d].files = 0
    /\ operation' = [operation EXCEPT ![d].stage = "write"]
    /\ UNCHANGED <<version, message, writes, storage, uploads, held, deleting,
                   overlapped, regressed>>

(* The relayer stores what it is sent, and the removed files are deleted   *)
(* from the storage if the answer arrives.  Mutant: they are deleted       *)
(* before the relayer has answered.                                        *)
Stored(d) ==
    /\ writes < MaxWrites
    /\ writes' = writes + 1
    /\ message' = [version |-> operation[d].version,
                   attachments |-> operation[d].kept]
    /\ overlapped' =
           (overlapped \/ message.attachments # operation[d].current)

WriteCleaningFirst(d) ==
    /\ operation[d].stage = "write"
    /\ deleting' = deleting \cup operation[d].remove
    /\ \/ Stored(d)
       \/ UNCHANGED <<writes, message, overlapped>>
    /\ operation' = [operation EXCEPT ![d] = Idle]
    /\ UNCHANGED <<version, storage, uploads, held, regressed>>

Write(d) ==
    /\ operation[d].stage = "write"
    /\ Stored(d)
    /\ deleting' \in {deleting, deleting \cup operation[d].remove}
    /\ operation' = [operation EXCEPT ![d] = Idle]
    /\ UNCHANGED <<version, storage, uploads, held, regressed>>

(* Any of the calls fails: what was uploaded stays behind. *)
Fail(d) ==
    /\ operation[d].stage # "idle"
    /\ operation' = [operation EXCEPT ![d] = Idle]
    /\ UNCHANGED <<version, message, writes, storage, uploads, held, deleting,
                   overlapped, regressed>>

(* getMessages: a message that does not resolve is silently left out.      *)
(* Mutant: it is shown with the attachments that it has.                   *)
LoadUnresolved(d) ==
    /\ Sent
    /\ held' = [held EXCEPT ![d] = message.attachments]
    /\ UNCHANGED <<version, message, writes, storage, uploads, operation,
                   deleting, overlapped, regressed>>

Load(d) ==
    /\ Sent
    /\ Resolves(message)
    /\ held' = [held EXCEPT ![d] = message.attachments]
    /\ UNCHANGED <<version, message, writes, storage, uploads, operation,
                   deleting, overlapped, regressed>>

(* deleteStorageEntries: best effort. *)
DeleteEntry(f) ==
    /\ f \in deleting
    /\ deleting' = deleting \ {f}
    /\ storage' \in {storage, [g \in DOMAIN storage \ {f} |-> storage[g]]}
    /\ UNCHANGED <<version, message, writes, uploads, held, operation,
                   overlapped, regressed>>

(* Some admin rotates the key. *)
Rotate ==
    /\ version < MaxRotations
    /\ version' = version + 1
    /\ UNCHANGED <<message, writes, storage, uploads, held, operation,
                   deleting, overlapped, regressed>>

-----------------------------------------------------------------------------

AttachmentsInit ==
    /\ version = 0
    /\ message = [version |-> 0, attachments |-> {}]
    /\ writes = 0
    /\ storage = [f \in {} |-> 0]
    /\ uploads = 0
    /\ held = [d \in Devices |-> {}]
    /\ operation = [d \in Devices |-> Idle]
    /\ deleting = {}
    /\ overlapped = FALSE
    /\ regressed = {}

DeviceNext(d) ==
    \/ \E v \in 0..version, files \in {0, 1} :
           \/ BeginSend(d, v, files)
           \/ \E remove \in SUBSET StorageIds(held[d]) :
                  BeginEdit(d, v, remove, files)
    \/ \E v \in 0..version : BeginTextEdit(d, v) \/ Upload(d, v) \/ Describe(d, v)
    \/ SkipUpload(d)
    \/ Write(d)
    \/ Fail(d)
    \/ Load(d)

AttachmentsNext ==
    \/ \E d \in Devices : DeviceNext(d)
    \/ \E f \in deleting : DeleteEntry(f)
    \/ Rotate

AttachmentsSpec == AttachmentsInit /\ [][AttachmentsNext]_attachmentsVars

-----------------------------------------------------------------------------

Operation ==
    [stage : {"idle", "encrypt", "describe", "write"},
     version : 0..version,
     current : SUBSET Attachment,
     kept : SUBSET Attachment,
     remove : SUBSET (1..uploads),
     files : {0, 1},
     uploaded : SUBSET (1..uploads)]

(* The variables keep their types: no version from the future is used, no  *)
(* file that was never uploaded is named, and an operation that has a file *)
(* to attach reaches the relayer only with the file uploaded.              *)
AttachmentsTypeOK ==
    /\ version \in 0..MaxRotations
    /\ writes \in 0..MaxWrites
    /\ uploads \in 0..MaxFiles
    /\ message.version \in 0..version
    /\ message.attachments \subseteq Attachment
    /\ DOMAIN storage \subseteq 1..uploads
    /\ \A f \in DOMAIN storage : storage[f] \in 0..version
    /\ \A d \in Devices : held[d] \subseteq Attachment
    /\ \A d \in Devices : operation[d] \in Operation
    /\ \A d \in Devices :
           operation[d].stage = "write" =>
               Cardinality(operation[d].uploaded) = operation[d].files
    /\ deleting \subseteq 1..uploads
    /\ overlapped \in BOOLEAN
    /\ regressed \subseteq 1..uploads

(* editMessage writes the message before it deletes the files it removed,  *)
(* so that, until two edits overlap, the message at the relayer never      *)
(* names a file that is gone, whichever calls fail or go unanswered.       *)
NothingDangling ==
    ~overlapped => StorageIds(message.attachments) \subseteq DOMAIN storage

(* Data is decrypted lazily, with the message's version as well, and no    *)
(* version is stored for it.  A message that is shown promises files that  *)
(* can be opened, unless a fullnode that lags gave the version of a file,  *)
(* or of its metadata, that is older than one read before in the upload:   *)
(* text, file and metadata are encrypted in this order, and the            *)
(* attachments of a message that does not resolve are never kept by a      *)
(* later edit.                                                             *)
ShownFilesOpen ==
    Resolves(message) =>
        \A a \in message.attachments :
            a.storageId \in DOMAIN storage \ regressed =>
                DataOpens(a, message.version)
=============================================================================
