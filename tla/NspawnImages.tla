---------------------------- MODULE NspawnImages ----------------------------
(***************************************************************************)
(* The images of systemd-nspawn (conu/backend/nspawn/image.py and          *)
(* list_images, cleanup_images of nspawn/backend.py): files in one         *)
(* directory of the host, which any number of conu processes fill and      *)
(* empty without a lock.  A pull fetches into <name>.xz and unpacks that,  *)
(* or copies a local file; every command may fail, and one that is killed  *)
(* counts as a success (run_cmd looks for positive return codes only).     *)
(***************************************************************************)
CONSTANTS
  Clients,      \* conu processes, each with at most one image object
  Compressed,   \* names of images pulled from a URL or from a local .xz file
  Plain,        \* names of images copied from a local file or bootstrapped
  Tagged,       \* the names that contain CONU_ARTIFACT_TAG
  Devices,      \* loop devices
  NameStartsWith, \* pairs <<d, e>>: the name of d starts with the name of e
  None          \* no image, device or client

Names == Compressed \cup Plain

ASSUME ImageAssumption ==
  /\ Compressed \cap Plain = {} /\ Tagged \subseteq Names
  /\ NameStartsWith \subseteq Devices \X Devices
  /\ \A d \in Devices : <<d, d>> \in NameStartsWith
  /\ None \notin Names \cup Devices \cup Clients

VARIABLES
  store,     \* CONU_IMAGES_STORE exists
  file, xz,  \* what it has under local_location, and under that with ".xz"
  broken,    \* history: names a copy or xz of which was cut short
  img,       \* the image object of each client, by the name of its file
  at,        \* what each client does
  got,       \* the content that its xz reads
  out, inn,  \* clients whose command still has its output, its .xz file
             \* under its name (nobody has unlinked it)
  todo,      \* the entries that its cleanup_images has yet to remove
  alone,     \* history: the client whose cleanup nobody has disturbed
  attached,  \* the client that attached each loop device
  going,     \* devices to be detached as soon as nobody has them mounted
  dev, mnt,  \* NspawnImageFS: the client's device, and the one it mounted
  scratch,   \* bootstrap: clients with a mounted temporary image
  ended,     \* how each client's last call ended
  hurt,      \* history: clients that a call has left by an exception with a
             \* device, a mount or a temporary image in their hands
  cut        \* history: clients of which a losetup or a umount was killed

fileVars == <<store, file, xz, broken, out, inn>>
mountVars == <<attached, going, dev, mnt, scratch, cut>>
objectVars == <<img, at, got, todo, ended, hurt>>
storeVars == <<fileVars, mountVars, objectVars, alone>>

Contents == {"none", "partial", "whole"}
Entries == Names \X {"file", "xz"}

StoreTypeOK ==
  /\ store \in BOOLEAN
  /\ file \in [Names -> Contents] /\ xz \in [Names -> Contents]
  /\ broken \subseteq Names
  /\ img \in [Clients -> Names \cup {None}]
  /\ at \in [Clients -> {"idle", "pull", "mkdir", "fetching", "unpack",
                         "unpacking", "copying", "build", "clean", "probe",
                         "mounted", "detach"}]
  /\ got \in [Clients -> Contents]
  /\ out \subseteq Clients /\ inn \subseteq Clients
  /\ todo \in [Clients -> SUBSET Entries]
  /\ alone \in Clients \cup {None}
  /\ attached \in [Devices -> Clients \cup {None}] /\ going \subseteq Devices
  /\ dev \in [Clients -> Devices \cup {None}]
  /\ mnt \in [Clients -> Devices \cup {None}]
  /\ scratch \subseteq Clients
  /\ ended \in [Clients -> {"done", "raised"}]
  /\ hurt \subseteq Clients /\ cut \subseteq Clients

StoreInit ==
  /\ store = FALSE
  /\ file = [n \in Names |-> "none"] /\ xz = [n \in Names |-> "none"]
  /\ broken = {}
  /\ img = [c \in Clients |-> None] /\ at = [c \in Clients |-> "idle"]
  /\ got = [c \in Clients |-> "none"] /\ out = {} /\ inn = {}
  /\ todo = [c \in Clients |-> {}] /\ alone = None
  /\ attached = [d \in Devices |-> None] /\ going = {}
  /\ dev = [c \in Clients |-> None] /\ mnt = [c \in Clients |-> None]
  /\ scratch = {}
  /\ ended = [c \in Clients |-> "done"] /\ hurt = {} /\ cut = {}

Writers(n) == {c \in out : img[c] = n}
Readers(n) == {c \in inn : img[c] = n}

Holds(c) ==
  c \in scratch \/ mnt[c] # None \/ \E d \in Devices : attached[d] = c

(* Bound: a client that has left something behind makes no further call.   *)
Ready(c) == at[c] = "idle" /\ ~Holds(c)

At(c, p) == at[c] = p
Goes(c, p) == at' = [at EXCEPT ![c] = p] /\ UNCHANGED <<hurt, ended>>
Returns(c, r) ==
  /\ at' = [at EXCEPT ![c] = "idle"]
  /\ ended' = [ended EXCEPT ![c] = r]
  /\ hurt' = IF r = "raised" /\ Holds(c) THEN hurt \cup {c} ELSE hurt

-----------------------------------------------------------------------------
(* The constructor.                                                        *)

(* It pulls ALWAYS, IF_NOT_PRESENT, or NEVER; list_images and cleanup use  *)
(* NEVER.                                                                  *)
Construct(c, n, policy) ==
  /\ Ready(c)
  /\ img' = [img EXCEPT ![c] = n]
  /\ IF policy = "always" \/ (policy = "if_not_present" /\ file[n] = "none")
       THEN Goes(c, "pull")
       ELSE Returns(c, "done")
  /\ UNCHANGED <<fileVars, mountVars, got, todo>>

(* create_snapshot and tag_image make an object over the same file; if     *)
(* that is gone, the pull stumbles over the missing location.              *)
Snapshot(c) ==
  /\ Ready(c) /\ img[c] # None
  /\ Returns(c, IF file[img[c]] = "none" THEN "raised" ELSE "done")
  /\ UNCHANGED <<fileVars, mountVars, img, got, todo>>

(* curl -o and cp truncate what is there.                                  *)
Pull(c) ==
  /\ At(c, "pull")
  /\ IF ~store
       THEN Goes(c, "mkdir") /\ UNCHANGED fileVars
     ELSE IF img[c] \in Compressed
       THEN /\ xz' = [xz EXCEPT ![img[c]] = "partial"]
            /\ inn' = inn \cup {c}
            /\ Goes(c, "fetching")
            /\ UNCHANGED <<store, file, broken, out>>
     ELSE /\ file' = [file EXCEPT ![img[c]] = "partial"]
          /\ out' = out \cup {c}
          /\ Goes(c, "copying")
          /\ UNCHANGED <<store, xz, broken, inn>>
  /\ UNCHANGED <<mountVars, img, got, todo>>

(* os.makedirs fails if another process was faster.                        *)
MakeStore(c) ==
  /\ At(c, "mkdir")
  /\ store' = TRUE
  /\ IF store THEN Returns(c, "raised") ELSE Goes(c, "pull")
  /\ UNCHANGED <<file, xz, broken, out, inn, mountVars, img, got, todo>>

(* Faulty variant: the status of curl is ignored.                          *)
FetchEndsUnseen(c) ==
  /\ At(c, "fetching")
  /\ inn' = inn \ {c}
  /\ Returns(c, "done")
  /\ UNCHANGED <<store, file, xz, broken, out, mountVars, img, got,
                 todo>>

(* curl -f, or cp of a local .xz file: done, failed or killed.  Two that   *)
(* write the same file are through with it when both are.                  *)
FetchEnds(c) ==
  /\ At(c, "fetching")
  /\ inn' = inn \ {c}
  /\ \/ /\ c \in inn
        /\ \/ xz' = [xz EXCEPT ![img[c]] = "whole"]
           \/ (Readers(img[c]) # {c} /\ UNCHANGED xz)
        /\ Goes(c, "unpack")
     \/ (UNCHANGED xz /\ Returns(c, "raised"))
     \/ (UNCHANGED xz /\ Goes(c, "unpack"))
  /\ UNCHANGED <<store, file, broken, out, mountVars, img, got, todo>>

(* Faulty variant: xz -d --force.                                          *)
UnpackForced(c) ==
  /\ At(c, "unpack")
  /\ IF xz[img[c]] = "none"
       THEN Returns(c, "raised") /\ UNCHANGED <<fileVars, got>>
       ELSE /\ file' = [file EXCEPT ![img[c]] = "partial"]
            /\ got' = [got EXCEPT ![c] = xz[img[c]]]
            /\ out' = (out \ Writers(img[c])) \cup {c}
            /\ inn' = inn \cup {c}
            /\ Goes(c, "unpacking")
            /\ UNCHANGED <<store, xz, broken>>
  /\ UNCHANGED <<mountVars, img, todo>>

(* xz -d refuses to write over a file.                                     *)
Unpack(c) ==
  /\ At(c, "unpack")
  /\ IF xz[img[c]] = "none" \/ file[img[c]] # "none"
       THEN Returns(c, "raised") /\ UNCHANGED <<fileVars, got>>
       ELSE /\ file' = [file EXCEPT ![img[c]] = "partial"]
            /\ got' = [got EXCEPT ![c] = xz[img[c]]]
            /\ out' = out \cup {c} /\ inn' = inn \cup {c}
            /\ Goes(c, "unpacking")
            /\ UNCHANGED <<store, xz, broken>>
  /\ UNCHANGED <<mountVars, img, todo>>

(* Its output and its input, if they still are the files of these names.   *)
Output(c, v) == file' = IF c \in out THEN [file EXCEPT ![img[c]] = v] ELSE file
Input(c, v) == xz' = IF c \in inn THEN [xz EXCEPT ![img[c]] = v] ELSE xz
InputGone(c) == inn' = IF c \in inn THEN inn \ Readers(img[c]) ELSE inn

(* Faulty variant: a failed xz leaves what it has written.                 *)
UnpackLeaves(c) ==
  /\ At(c, "unpacking")
  /\ out' = out \ {c} /\ inn' = inn \ {c}
  /\ UNCHANGED <<file, xz, broken>> /\ Returns(c, "raised")
  /\ UNCHANGED <<store, mountVars, img, todo, got>>

(* xz removes its input when it has succeeded and its output when it has   *)
(* failed; killed it leaves both.                                          *)
UnpackEnds(c) ==
  /\ At(c, "unpacking")
  /\ out' = out \ {c}
  /\ \/ /\ got[c] = "whole"
        /\ Output(c, "whole") /\ Input(c, "none") /\ InputGone(c)
        /\ UNCHANGED broken /\ Returns(c, "done")
     \/ /\ Output(c, "none") /\ UNCHANGED <<xz, broken>>
        /\ inn' = inn \ {c}
        /\ Returns(c, "raised")
     \/ /\ broken' = broken \cup {img[c]} /\ UNCHANGED <<file, xz>>
        /\ inn' = inn \ {c} /\ Returns(c, "done")
  /\ got' = [got EXCEPT ![c] = "none"]
  /\ UNCHANGED <<store, mountVars, img, todo>>

(* cp leaves what it has written when it fails or is killed.  bootstrap    *)
(* removes its temporary image afterwards.                                 *)
CopyEnds(c) ==
  /\ At(c, "copying")
  /\ out' = out \ {c}
  /\ \/ /\ Output(c, "whole") \/ (Writers(img[c]) # {c} /\ UNCHANGED file)
        /\ UNCHANGED broken /\ Returns(c, "done") /\ scratch' = scratch \ {c}
     \/ /\ broken' = broken \cup {img[c]}
        /\ UNCHANGED file
        /\ \/ (Returns(c, "raised") /\ UNCHANGED scratch)
           \/ (Returns(c, "done") /\ scratch' = scratch \ {c})
   /\ UNCHANGED <<store, xz, inn, attached, going, dev, mnt, cut, img, got,
                  todo>>

-----------------------------------------------------------------------------
(* bootstrap: an image is made in a temporary file, by mkfs, mount and dnf,*)
(* and handed to the constructor, which copies it unless there is an image *)
(* of this name; in the end the temporary file and directory are removed.  *)

Bootstrap(c, n) ==
  /\ Ready(c) /\ n \in Plain
  /\ img' = [img EXCEPT ![c] = n]
  /\ scratch' = scratch \cup {c}
  /\ Goes(c, "build")
  /\ UNCHANGED <<fileVars, attached, going, dev, mnt, cut, got, todo>>

Build(c) ==
  /\ At(c, "build")
  /\ \/ (Returns(c, "raised") /\ UNCHANGED scratch)
     \/ IF file[img[c]] = "none"
          THEN Goes(c, "pull") /\ UNCHANGED scratch
          ELSE Returns(c, "done") /\ scratch' = scratch \ {c}
  /\ UNCHANGED <<fileVars, attached, going, dev, mnt, cut, img, got, todo>>

-----------------------------------------------------------------------------
(* Removal.                                                                *)

(* os.remove: those who write or read the file go on without its name.     *)
RemoveFile(n) ==
  /\ file' = [file EXCEPT ![n] = "none"]
  /\ out' = out \ Writers(n)
  /\ UNCHANGED <<store, xz, broken, inn>>

RemoveXz(n) ==
  /\ xz' = [xz EXCEPT ![n] = "none"]
  /\ inn' = inn \ Readers(n)
  /\ UNCHANGED <<store, file, broken, out>>

Rmi(c) ==
  /\ Ready(c) /\ img[c] # None
  /\ IF file[img[c]] = "none"
       THEN Returns(c, "raised") /\ UNCHANGED fileVars
       ELSE RemoveFile(img[c]) /\ Returns(c, "done")
  /\ UNCHANGED <<mountVars, img, got, todo>>

(* list_images: every entry of the directory is an image.                  *)
Listed == {e \in Tagged \X {"file", "xz"} :
             IF e[2] = "file" THEN file[e[1]] # "none" ELSE xz[e[1]] # "none"}

CleanupImages(c) ==
  /\ Ready(c)
  /\ IF store THEN todo' = [todo EXCEPT ![c] = Listed] /\ Goes(c, "clean")
              ELSE UNCHANGED todo /\ Returns(c, "raised")
  /\ UNCHANGED <<fileVars, mountVars, img, got>>

(* One image.rmi(); it raises, and ends the cleanup, if the entry is gone. *)
CleanOne(c) ==
  /\ At(c, "clean")
  /\ \E e \in todo[c] :
       IF e \in Listed
         THEN /\ IF e[2] = "file" THEN RemoveFile(e[1]) ELSE RemoveXz(e[1])
              /\ todo' = [todo EXCEPT ![c] = @ \ {e}]
              /\ Goes(c, "clean")
         ELSE /\ todo' = [todo EXCEPT ![c] = {}]
              /\ Returns(c, "raised") /\ UNCHANGED fileVars
  /\ UNCHANGED <<mountVars, img, got>>

(* machinectl clean, for the hidden images of machinectl itself.           *)
CleanEnds(c) ==
  /\ At(c, "clean") /\ todo[c] = {}
  /\ Returns(c, "done") \/ Returns(c, "raised")
  /\ UNCHANGED <<fileVars, mountVars, img, got, todo>>

-----------------------------------------------------------------------------
(* NspawnImageFS.                                                          *)

(* losetup --show -f.  Killed, it may have attached a device, but its name  *)
(* is lost.                                                                *)
Attach(c) ==
  /\ Ready(c) /\ img[c] # None
  /\ \/ /\ file[img[c]] # "none"
        /\ \E d \in Devices :
             /\ attached[d] = None
             /\ attached' = [attached EXCEPT ![d] = c]
             /\ \/ dev' = [dev EXCEPT ![c] = d] /\ UNCHANGED cut
                \/ dev' = [dev EXCEPT ![c] = None] /\ cut' = cut \cup {c}
        /\ Goes(c, "probe")
     \/ (Returns(c, "raised") /\ UNCHANGED <<attached, dev, cut>>)
  /\ UNCHANGED <<fileVars, going, mnt, scratch, img, got, todo>>

(* partprobe, and a mount of every device whose name begins like that of   *)
(* the attached one until one succeeds; if none does, the body of the with *)
(* runs all the same.                                                      *)
Mount(c) ==
  /\ At(c, "probe")
  /\ \/ (Returns(c, "raised") /\ UNCHANGED mnt)
     \/ (Goes(c, "mounted") /\ UNCHANGED mnt)
     \/ /\ \E d \in Devices : /\ <<d, dev[c]>> \in NameStartsWith
                              /\ attached[d] # None
                              /\ mnt' = [mnt EXCEPT ![c] = d]
        /\ Goes(c, "mounted")
  /\ UNCHANGED <<fileVars, attached, going, dev, scratch, cut, img, got, todo>>

(* The kernel lets go of a device whose last mount this was.               *)
LastMount(c) ==
  {d \in going : \A b \in Clients : mnt[b] = d <=> b = c}
Umounted(c) ==
  /\ mnt[c] # None
  /\ mnt' = [mnt EXCEPT ![c] = None]
  /\ going' = going \ LastMount(c)
  /\ attached' = [d \in Devices |->
                    IF d \in LastMount(c) THEN None ELSE attached[d]]

(* Faulty variant: the device is not detached.                             *)
UnmountOnly(c) ==
  /\ At(c, "mounted")
  /\ Umounted(c)
  /\ Returns(c, "done")
  /\ UNCHANGED <<fileVars, dev, scratch, cut, img, got, todo>>

(* umount fails if nothing is mounted, and perhaps otherwise; the device   *)
(* is not detached then.                                                   *)
Unmount(c) ==
  /\ At(c, "mounted")
  /\ \/ Umounted(c) /\ Goes(c, "detach") /\ UNCHANGED cut
     \/ Returns(c, "raised") /\ UNCHANGED <<mnt, going, attached, cut>>
     \/ /\ cut' = cut \cup {c}
        /\ Goes(c, "detach") /\ UNCHANGED <<mnt, going, attached>>
  /\ UNCHANGED <<fileVars, dev, scratch, img, got, todo>>

(* Filesystem.__exit__ removes the mount point if conu has made it, which  *)
(* fails while it still is one.                                            *)
Closes(c) == Returns(c, "done") \/ (mnt[c] # None /\ Returns(c, "raised"))

(* losetup -d.  A device that somebody has mounted is detached with its    *)
(* last umount.                                                            *)
Detach(c) ==
  /\ At(c, "detach")
  /\ \/ /\ dev[c] # None /\ UNCHANGED cut
        /\ IF \E b \in Clients : mnt[b] = dev[c]
             THEN going' = going \cup {dev[c]} /\ UNCHANGED attached
             ELSE /\ attached' = [attached EXCEPT ![dev[c]] = None]
                  /\ UNCHANGED going
        /\ Closes(c)
     \/ Returns(c, "raised") /\ UNCHANGED <<attached, going, cut>>
     \/ /\ cut' = cut \cup {c} /\ UNCHANGED <<attached, going>>
        /\ Closes(c)
  /\ UNCHANGED <<fileVars, dev, mnt, scratch, img, got, todo>>

-----------------------------------------------------------------------------

Pulls(c) == \/ Pull(c) \/ MakeStore(c) \/ FetchEnds(c) \/ Unpack(c)
            \/ UnpackEnds(c) \/ CopyEnds(c)

Step(c) ==
  /\ \/ \E n \in Names, p \in {"always", "if_not_present", "never"} :
          Construct(c, n, p)
     \/ \E n \in Plain : Bootstrap(c, n)
     \/ Snapshot(c) \/ Pulls(c) \/ Build(c) \/ Rmi(c)
     \/ CleanupImages(c) \/ CleanOne(c) \/ CleanEnds(c)
     \/ Attach(c) \/ Mount(c) \/ Unmount(c) \/ Detach(c)
  /\ alone' = IF at'[c] = "clean" /\ (at[c] = "idle" \/ alone = c)
                THEN c ELSE None

StoreNext == \E c \in Clients : Step(c)

StoreSpec == StoreInit /\ [][StoreNext]_storeVars

-----------------------------------------------------------------------------

(* An image file is incomplete only while somebody writes it, or because a *)
(* command that wrote it was killed or ran out of space: what is_present   *)
(* takes for an image is one.                                              *)
PartialHasReason ==
  \A n \in Names : file[n] = "partial" => n \in broken \/ Writers(n) # {}

(* A pull that returns has left the whole image, unless a command was      *)
(* killed, another client is writing it or has removed it.                 *)
PulledIsUsable ==
  [][\A c \in Clients :
       (/\ at[c] \in {"fetching", "unpack", "unpacking", "copying"}
        /\ at'[c] = "idle" /\ ended'[c] = "done")
       => \/ file'[img[c]] = "whole"
          \/ img[c] \in broken'
          \/ Writers(img[c])' # {}
          \/ at[c] \in {"unpacking", "copying"} /\ c \notin out]_storeVars

(* An image that is unpacked from an archive, whatever the pull policies,  *)
(* never changes under the machines that run on it: it may be removed, but *)
(* is not written over, as xz -d refuses to, and a process that lost its   *)
(* file to a removal writes to nothing any more.  (An image that is copied *)
(* has no such protection: cp writes over it.  Lines 222-243 of image.py.) *)
(* With ALWAYS "it may be overwritten by a remote counterpart", say lines  *)
(* 97-99; the pull of an image that is present fails each time instead.    *)
UnpackedImageIsKept ==
  [][\A n \in Compressed :
       file[n] = "whole" => file'[n] \in {"whole", "none"}]_storeVars

(* What a call leaves behind has a reason.  A temporary image stays only   *)
(* if bootstrap raised.  A mount or a loop device stays only if the caller *)
(* got an exception; or if a losetup or umount was killed, of which he     *)
(* hears nothing; or, the device only, while somebody else has mounted it, *)
(* who took it for a partition of his own (lines 66-87 and 420-500).       *)
LeftoversHaveReason ==
  \A c \in Clients : at[c] = "idle" =>
    /\ c \in scratch => c \in hurt
    /\ mnt[c] # None => c \in hurt \cup cut
    /\ \A d \in Devices : attached[d] = c =>
         \/ c \in hurt \cup cut
         \/ \E b \in Clients \ {c} : /\ mnt[b] = d
                                     /\ <<d, dev[b]>> \in NameStartsWith

=============================================================================
