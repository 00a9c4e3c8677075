----------------------------- MODULE MCCatalogue -----------------------------
\* Instances of Catalogue: an author's first version, a second one of the web
\* form and a rich one of the author.
EXTENDS Catalogue, TLC

Alike == Permutations(Content)

MCVer    == "author" :> 1 @@ "form" :> 2 @@ "rich" :> 2
MCSigner == "author" :> "k1" @@ "form" :> "platform" @@ "rich" :> "k1"
=============================================================================
