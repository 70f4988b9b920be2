----------------------- MODULE MCUnifiedSearchModal ------------------------
EXTENDS UnifiedSearchModal

CONSTANTS none, a, b,          \* the empty text and two others
          files, talk, mail    \* categories

MCTexts == {none, a, b}
MCCategories == {files, talk, mail}
MCProviders == <<files, talk, mail>>
TwoCategories == {files, talk}
TwoProviders == <<files, talk>>
MCTerms == MCTexts \X BOOLEAN
=============================================================================
