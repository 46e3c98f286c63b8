---------------------------- MODULE SchemaModels ----------------------------
(***************************************************************************)
(* Projects with the tables "blog", "post" and "tag" for the instances of  *)
(* Migrations.                                                             *)
(***************************************************************************)
EXTENDS SchemaDiff

Column(kind, ref, del, index) == [kind |-> kind, ref |-> ref, del |-> del, index |-> index]
Required(type) == <<type, "NOT NULL">>
Optional(type) == <<type, "NULL">>
Plain(kind) == Column(kind, NoTable, "none", "none")
Indexed(index) == Column(Optional("text"), NoTable, "none", index)
Key(del) == Column(Required("int"), "blog", del, "none")

\* f with the point k |-> v.
With(f, k, v) == [x \in DOMAIN f \cup {k} |-> IF x = k THEN v ELSE f[x]]

Blog == With(<<>>, "blog", [url |-> Plain(Required("text"))])
Tag == With(<<>>, "tag", [name |-> Plain(Required("text"))])

\* A post has a title or not, of either kind, indexed either way, and a link
\* to its blog or not, as a plain column or a key.
Titles == {<<>>} \cup {[title |-> c] : c \in {Plain(Required("varchar")), Indexed("none"),
                                              Indexed("plain"), Indexed("unique")}}
Links == {<<>>} \cup {[link |-> c] : c \in {Plain(Required("int")), Key("cascade"), Key("restrict")}}
Posts == {[c \in DOMAIN title \cup DOMAIN link |->
              IF c \in DOMAIN title THEN title[c] ELSE link[c]] :
          title \in Titles, link \in Links}

\* The blog without posts, and with each kind of them.
ModelsWithBlog == {Blog} \cup {With(Blog, "post", p) : p \in Posts}
LinkedPosts == {With(Blog, "post", [link |-> Key(d)]) : d \in {"cascade", "restrict"}}

\* Any two successive models of the blog.
Projects == {<<m, n>> : m, n \in ModelsWithBlog}

\* A blog with posts comes or goes in the second migration.
Reworked == {<<Tag, m>> : m \in LinkedPosts} \cup {<<m, Tag>> : m \in LinkedPosts}

\* A key is dropped and comes back.
Restored == {<<m, With(Blog, "post", [link |-> Plain(Required("int"))]), m>> : m \in LinkedPosts}
=============================================================================
