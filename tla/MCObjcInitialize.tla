-------------------------- MODULE MCObjcInitialize --------------------------
EXTENDS ObjcInitialize, TLC

CONSTANTS Root, Middle, Leaf, Other

\* As in the comment of objc-initialize.mm: the +initialize of the root reaches
\* down to a class below one that another thread initializes.  A class of
\* another branch needs that one, too.
MCSuper    == Root :> NULL @@ Middle :> Root @@ Leaf :> Middle @@ Other :> Root
MCMessaged == Root :> {Leaf} @@ Middle :> {Leaf} @@ Leaf :> {Root} @@ Other :> {Leaf}

=============================================================================
