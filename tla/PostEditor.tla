---------------------------- MODULE PostEditor ----------------------------
(***************************************************************************)
(* The pages on which a post is written: the administrators' new and edit  *)
(* pages, the board's new and edit pages, with the form, the image fields  *)
(* and the detail query the form is seeded from.  The answers of uploads,  *)
(* of the detail query and of the save arrive in any order, and each       *)
(* callback sees the state of the render that created it.                  *)
(***************************************************************************)
EXTENDS Naturals, FiniteSets, Sequences, SequencesExt

CONSTANTS Images,     \* URLs an image may have
          NoImage,
          MaxImages,  \* getMaxImages()
          MaxSaves,   \* bound: saves of one visit
          MaxFetches, \* bound: refetches of one visit
          MaxOthers   \* bound: saves of other sessions during the visit

EditorAssumption ==
  /\ Images # {} /\ NoImage \notin Images
  /\ MaxImages \in Nat /\ MaxSaves \in Nat /\ MaxFetches \in Nat /\ MaxOthers \in Nat

VARIABLES
  page,     \* the page mounted: its kind, its reader's rights, the post's category
  post,     \* the row of the post at the server
  cached,   \* the data of the detail query, from which the form was seeded
  fetched,  \* an answer of the detail query on its way: a set of at most one
  form,     \* usePostFormState
  uploads,  \* uploads in flight, each with the state its callback has seen
  save,     \* the mutation
  budget    \* saves, fetches and foreign saves left

editorVars == <<page, post, cached, fetched, form, uploads, save, budget>>

Kinds == {"new", "boardNew", "edit"}
Texts == {"", "old", "foreign", "mine"}
Rows  == [text : Texts, cover : Images \cup {NoImage}, images : Seq(Images),
          published : BOOLEAN]

Forms == [text : Texts, cover : Images \cup {NoImage}, images : Seq(Images),
          published : BOOLEAN, asked : BOOLEAN]
Held  == [url : Images, cover : Images \cup {NoImage}, images : Seq(Images)]

Editing == page.kind = "edit"

\* Who may edit: canManagePosts for every post, on the administrators' page and on the
\* board's, and the author of a board post on the board's page.
CanEdit(manager, author, board) == manager \/ (author /\ board)

\* The fields of the form, from a row or from nothing.
Seed(row) == [text |-> row.text, cover |-> row.cover, images |-> row.images,
              published |-> row.published, asked |-> FALSE]

NoRow == [text |-> "", cover |-> NoImage, images |-> <<>>, published |-> TRUE]

\* images.filter((img) => img !== url)
Without(images, url) ==
  LET kept[n \in 0 .. Len(images)] ==
        IF n = 0 THEN <<>>
        ELSE IF images[n] = url THEN kept[n - 1]
        ELSE Append(kept[n - 1], images[n])
  IN  kept[Len(images)]

\* The images shown: the cover first, then the others.
AllImages(cover, images) ==
  IF cover = NoImage THEN images ELSE <<cover>> \o Without(images, cover)

Pending == save.status \in {"sent", "served", "refused"}

\* The dropzone of the form takes a file.
DropzoneOpen ==
  /\ ~Pending /\ uploads = {}
  /\ Len(AllImages(form.cover, form.images)) < MaxImages

\* The single image field of the board's new page: a preview hides the dropzone.
SingleOpen == ~Pending /\ uploads = {} /\ form.cover = NoImage

\* The switch "publish now" is on the form.
PublishShown == page.manager /\ ~page.board

\* Mutant: the state of the form is sent whether it differs or not.
Publication_Always ==
  IF page.kind = "boardNew" \/ ~form.published THEN "none" ELSE "now"

\* The publication the form asks for, against the post it was rendered with.
Publication ==
  CASE page.kind = "boardNew" -> "none"
    [] page.kind = "new" -> IF form.published THEN "now" ELSE "none"
    [] OTHER ->
         IF ~PublishShown THEN "keep"
         ELSE IF cached.published /\ ~form.published THEN "none"
         ELSE IF ~cached.published /\ form.published THEN "now"
         ELSE "keep"

CanSubmit ==
  /\ page.open /\ ~Pending
  /\ form.text # ""

----------------------------------------------------------------------------
Mount(kind, manager, board, row) ==
  /\ page = [kind |-> kind, manager |-> manager, board |-> board, open |-> TRUE]
  /\ post = row /\ cached = row /\ form = Seed(row)

\* A row holds any cover and any images: the board stores a cover alone, a form a cover
\* beside other images, and the server takes images without a cover.
Init ==
  /\ \/ \E board \in BOOLEAN :
          Mount(IF board THEN "boardNew" ELSE "new", ~board, board, NoRow)
     \/ \E manager, board, published \in BOOLEAN, cover \in Images \cup {NoImage},
           images \in {<<>>, <<CHOOSE i \in Images : TRUE>>} :
          /\ CanEdit(manager, ~manager, board)
          /\ Mount("edit", manager, board,
                [text |-> "old", cover |-> cover, images |-> images,
                 published |-> published /\ ~board])
  /\ fetched = {} /\ uploads = {}
  /\ save = [status |-> "idle"]
  /\ budget = [saves |-> MaxSaves, fetches |-> MaxFetches, others |-> MaxOthers]

\* Another session saves the post.
OtherSession ==
  /\ Editing /\ page.open /\ budget.others > 0
  /\ \E b \in BOOLEAN :
       /\ page.board => ~b
       /\ post' = [post EXCEPT !.text = "foreign", !.published = b]
  /\ budget' = [budget EXCEPT !.others = @ - 1]
  /\ UNCHANGED <<page, cached, fetched, form, uploads, save>>

\* The detail query is refetched: it was stale at the mount, or was invalidated,
\* or the connection came back.  (Fetching the data it has changes nothing.)
Refetch ==
  /\ page.open /\ Editing /\ fetched = {} /\ budget.fetches > 0 /\ post # cached
  /\ fetched' = {post}
  /\ budget' = [budget EXCEPT !.fetches = @ - 1]
  /\ UNCHANGED <<page, post, cached, form, uploads, save>>

\* useSyncInitialData: data that differ from the cached ones replace every field.
FetchAnswered ==
  \E row \in fetched :
    /\ page.open
    /\ fetched' = {}
    /\ cached' = row
    /\ form' = IF row = cached THEN form ELSE Seed(row)
    /\ UNCHANGED <<page, post, uploads, save, budget>>

\* The title and the text of a new post.  (One text in place of another is not
\* told apart.)
EditText ==
  /\ page.open /\ form.text = ""
  /\ form' = [form EXCEPT !.text = "mine"]
  /\ UNCHANGED <<page, post, cached, fetched, uploads, save, budget>>

SetPublished ==
  /\ page.open /\ PublishShown
  /\ form' = [form EXCEPT !.published = ~@, !.asked = TRUE]
  /\ UNCHANGED <<page, post, cached, fetched, uploads, save, budget>>

\* The server names every upload anew.
Fresh(url) == url \notin ToSet(post.images) \cup ToSet(form.images) \cup {form.cover}

StartUpload ==
  /\ page.open
  /\ IF page.kind = "boardNew" THEN SingleOpen ELSE DropzoneOpen
  /\ \E url \in Images : Fresh(url)
  /\ uploads' = uploads \cup {[url |-> CHOOSE url \in Images : Fresh(url), cover |-> form.cover, images |-> form.images]}
  /\ UNCHANGED <<page, post, cached, fetched, form, save, budget>>

\* The callback adds the image to the state it was created with.
Uploaded(u) ==
  /\ page.open
  /\ uploads' = uploads \ {u}
  /\ form' = IF page.kind = "boardNew" THEN [form EXCEPT !.cover = u.url]
             ELSE IF u.cover = NoImage /\ u.images = <<>>
             THEN [form EXCEPT !.cover = u.url, !.images = <<u.url>>]
             ELSE [form EXCEPT !.images = Append(u.images, u.url)]
  /\ UNCHANGED <<page, post, cached, fetched, save, budget>>

UploadFailed(u) ==
  /\ page.open
  /\ uploads' = uploads \ {u}
  /\ UNCHANGED <<page, post, cached, fetched, form, save, budget>>

SetMain(url) ==
  /\ page.open /\ page.kind # "boardNew" /\ ~Pending
  /\ url # form.cover
  /\ form' = [form EXCEPT !.cover = url]
  /\ UNCHANGED <<page, post, cached, fetched, uploads, save, budget>>

\* Mutant: no other image takes the place of a removed cover.
RemoveImage_NoNextCover(url) ==
  /\ page.open /\ ~Pending
  /\ form' = [form EXCEPT !.images = Without(@, url),
                          !.cover = IF @ = url THEN NoImage ELSE @]
  /\ UNCHANGED <<page, post, cached, fetched, uploads, save, budget>>

RemoveImage(url) ==
  /\ page.open /\ ~Pending
  /\ LET rest == Without(form.images, url)
     IN  form' = [form EXCEPT !.images = rest,
                    !.cover = IF @ # url THEN @ ELSE IF rest = <<>> THEN NoImage ELSE Head(rest)]
  /\ UNCHANGED <<page, post, cached, fetched, uploads, save, budget>>

Submit ==
  /\ CanSubmit /\ budget.saves > 0
  /\ save' = [status |-> "sent", form |-> form, publish |-> Publication]
  /\ budget' = [budget EXCEPT !.saves = @ - 1]
  /\ UNCHANGED <<page, post, cached, fetched, form, uploads>>

\* The server writes the fields of the request, and the publication only if it is named.
SaveServed ==
  /\ save.status = "sent"
  /\ post' = [post EXCEPT !.text = save.form.text, !.cover = save.form.cover,
                !.images = save.form.images,
                !.published = CASE save.publish = "now" -> TRUE
                                [] save.publish = "none" -> FALSE
                                [] OTHER -> @]
  /\ save' = [status |-> "served"]
  /\ UNCHANGED <<page, cached, fetched, form, uploads, budget>>

SaveRefused ==
  /\ save.status = "sent"
  /\ save' = [status |-> "refused"]
  /\ UNCHANGED <<page, post, cached, fetched, form, uploads, budget>>

\* onSuccess invalidates the posts, which cancels a fetch and starts another one, and
\* asks for the next page; until it is shown the form stays and takes input.
SaveAnswered ==
  /\ save.status = "served" /\ page.open
  /\ save' = [status |-> "leaving"]
  /\ fetched' = IF Editing THEN {post} ELSE {}
  /\ UNCHANGED <<page, post, cached, form, uploads, budget>>

SaveError ==
  /\ save.status = "refused"
  /\ save' = [status |-> "idle"]
  /\ UNCHANGED <<page, post, cached, fetched, form, uploads, budget>>

\* Cancel, a link, or the page asked for by a save: answers that come later are dropped.
Leave ==
  /\ page.open
  /\ page' = [page EXCEPT !.open = FALSE]
  /\ fetched' = {} /\ uploads' = {}
  /\ cached' = NoRow /\ form' = Seed(NoRow)
  /\ UNCHANGED <<post, save, budget>>

Next ==
  \/ OtherSession \/ Refetch \/ FetchAnswered
  \/ EditText \/ SetPublished
  \/ StartUpload
  \/ \E u \in uploads : Uploaded(u) \/ UploadFailed(u)
  \/ \E url \in ToSet(AllImages(form.cover, form.images)) : SetMain(url) \/ RemoveImage(url)
  \/ Submit \/ SaveServed \/ SaveRefused \/ SaveAnswered \/ SaveError \/ Leave

Spec == Init /\ [][Next]_editorVars

----------------------------------------------------------------------------
TypeOK ==
  /\ page \in [kind : Kinds, manager : BOOLEAN, board : BOOLEAN, open : BOOLEAN]
  /\ post \in Rows /\ cached \in Rows /\ fetched \subseteq Rows
  /\ form \in Forms /\ uploads \subseteq Held
  /\ save.status \in {"idle", "sent", "served", "refused", "leaving"}
  /\ save.status = "sent" => save.form \in Forms /\ save.publish \in {"none", "now", "keep"}
  /\ budget \in [saves : 0 .. MaxSaves, fetches : 0 .. MaxFetches, others : 0 .. MaxOthers]

Uncovered(f) == f.images # <<>> /\ f.cover = NoImage

CoverExplained ==
  ~Uncovered(form) /\ Uncovered(form')
  => \/ \E row \in fetched : row # cached /\ form' = Seed(row)
     \/ \E u \in uploads : /\ AllImages(u.cover, u.images) # <<>>
                          /\ AllImages(form.cover, form.images) = <<>>
                          /\ form'.images = Append(u.images, u.url)

\* A form comes to hold images without a cover, a post whose card has no picture, in two
\* ways only: the row that was fetched is like that, or an upload that began beside other
\* images ends in a form emptied meanwhile: it brings those images back and not the cover.
CoverLostOnlyToStaleUpload == [][CoverExplained]_editorVars

\* Saving a form whose publication was left alone never changes whether the post is
\* public, whatever another session did to it since the form was seeded.
PublicationOnlyOnRequest ==
  [][Editing /\ save.status = "sent" /\ post'.published # post.published
       => save.form.asked \/ save'.status = "sent"]_editorVars
============================================================================
