--------------------------- MODULE MCMediaDownload ---------------------------
(* Small instances of MediaDownload for TLC. *)
EXTENDS MediaDownload

\* Two fields: a file name, and a media type of one byte.
Widths == <<1, 2>>
Image  == <<7>>
Types  == {Image, <<8, 8>>}

Media(name, type, length) == [fields |-> <<name, type>>, fileLength |-> length]
SomeInfos == {
    Media(<<>>, Image, 1),       \* no name
    Media(<<1>>, <<8, 8>>, 0),   \* a name, and a length nobody knew
    Media(<<7, 1>>, Image, 1),   \* a name that is too long
    Media(<<>>, Image, 2),       \* a file over the limit
    Media(<<1>>, <<9>>, 1)}      \* a type that cannot be downloaded
=============================================================================
