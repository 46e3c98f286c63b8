---------------------------- MODULE MCNavigations ----------------------------
(* Blogs with posts, posts with comments and tags: a blog without posts, a   *)
(* hidden blog, a post without a blog, shared tags.  The join entity of the  *)
(* tags has a key of its own first, as documented, or only the two keys.     *)
EXTENDS Navigations

Id == Scalar("id", "id", TRUE, Nothing)
Hidden == Scalar("hidden", "hidden", FALSE, Nothing)
Fk(name, type) == Scalar(name, name, FALSE, type)

Blog == [table |-> "blogs", fields |-> <<Id, Hidden, Navigation("posts", "HasMany", "Post", Nothing)>>]

Post ==
    [table |-> "posts",
     fields |-> <<Id, Fk("blog_id", "Blog"), Hidden, Navigation("blog", "BelongsTo", "Blog", Nothing),
                  Navigation("comments", "HasMany", "Comment", Nothing),
                  Navigation("tags", "ManyToMany", "Tag", "PostTag")>>]

Comment == [table |-> "comments", fields |-> <<Id, Fk("post_id", "Post")>>]

Tag == [table |-> "tags", fields |-> <<Id>>]

PostTag == [table |-> "post_tags", fields |-> <<Id, Fk("post_id", "Post"), Fk("tag_id", "Tag")>>]

\* The same with the key of the tag first.
TagPost ==
    [table |-> "post_tags", fields |-> <<Scalar("tag_id", "tag_id", TRUE, "Tag"),
                                         Scalar("post_id", "post_id", TRUE, "Post")>>]

Types == [Blog |-> Blog, Post |-> Post, Comment |-> Comment, Tag |-> Tag, PostTag |-> PostTag]

PairTypes == [Types EXCEPT !.PostTag = TagPost]

Order(model) == [T \in DOMAIN model |-> Columns(model[T])]

BlogRow(id, hidden) == [id |-> id, hidden |-> hidden]
PostRow(id, blog, hidden) == [id |-> id, blog_id |-> blog, hidden |-> hidden]
CommentRow(id, post) == [id |-> id, post_id |-> post]
TagRow(id) == [id |-> id]
PairRow(id, post, tag) == [id |-> id, post_id |-> post, tag_id |-> tag]

Rows ==
    [Blog    |-> <<BlogRow(1, 0), BlogRow(2, 0), BlogRow(3, 1)>>,
     Post    |-> <<PostRow(1, 1, 0), PostRow(2, 1, 1), PostRow(3, 3, 0), PostRow(4, Null, 0)>>,
     Comment |-> <<CommentRow(1, 3), CommentRow(2, 1), CommentRow(3, 1)>>,
     Tag     |-> <<TagRow(1), TagRow(2)>>,
     PostTag |-> <<PairRow(1, 1, 1), PairRow(2, 1, 2), PairRow(3, 4, 2)>>]

Query(type, filtered, includes) == [type |-> type, filtered |-> filtered, includes |-> includes]
Path(nav, nested) == [nav |-> nav, nested |-> nested]

Changes ==
    {[type |-> "Post", from |-> PostRow(1, 1, 0), to |-> PostRow(1, 2, 0)],
     [type |-> "Post", from |-> PostRow(1, 1, 0), to |-> PostRow(1, 1, 1)],
     [type |-> "PostTag", from |-> PairRow(1, 1, 1), to |-> PairRow(1, 4, 1)],
     [type |-> "Tag", from |-> TagRow(2), to |-> Nothing],
     [type |-> "Blog", from |-> BlogRow(1, 0), to |-> Nothing]}

Edits == {[type |-> "Post", field |-> "blog_id", value |-> 2]}

Eager ==
    [model |-> Types, order |-> Order(Types), rows |-> Rows, filters |-> {"Blog", "Post"},
     lazy |-> FALSE, changes |-> Changes, edits |-> Edits,
     queries |-> {Query("Blog", TRUE, <<Path("posts", <<"comments", "tags">>)>>),
                  Query("Blog", FALSE, <<Path("posts", <<"blog">>)>>),
                  Query("Post", TRUE, <<Path("tags", <<>>), Path("blog", <<"posts">>)>>),
                  Query("Post", TRUE, <<Path("blog", <<"posts", "comments">>)>>)}]

Lazy ==
    [Eager EXCEPT !.lazy = TRUE,
                  !.queries = {Query("Blog", TRUE, <<>>), Query("Post", FALSE, <<>>),
                               Query("Post", TRUE, <<Path("blog", <<>>)>>)}]

Pairs ==
    [Lazy EXCEPT !.model = PairTypes, !.order = Order(PairTypes),
                 !.queries = {Query("Post", FALSE, <<>>)}]

GoodScenarios == [eager |-> Eager, lazy |-> Lazy, pairs |-> Pairs]

\* The conditions under which MembersBelong and HiddenStayHidden are proved.
ASSUME ConditionsHold == MetadataAgrees /\ FiltersSee
=============================================================================
